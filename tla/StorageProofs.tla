--------------------------- MODULE StorageProofs ---------------------------
(***************************************************************************)
(* What the processor leaves in its stores: the dead-letter stream, the    *)
(* counters, the SimHash index and the articles table.                     *)
(***************************************************************************)
EXTENDS ProcessorProofs, FunctionTheorems

-----------------------------------------------------------------------------
(***************************************************************************)
(* The dead-letter stream.                                                 *)
(***************************************************************************)

\* dlq:seen remembers everything on the stream.
ParkInv == Elems(dlq) \subseteq dlqSeen /\ ParkedOnce

\* Steps other than push_dlq leave the dead letters and their counter alone.
LEMMA DlqUntouched ==
    ASSUME TypeInv, [Next]_vars, ~ PushDlq
    PROVE  UNCHANGED <<dlqSeen, dlq>> /\ metrics'.dlq = metrics.dlq
  <1>1. metrics \in [stored: Nat, bySource: Nat, rejected: Nat, dlq: Nat]
    BY DEF TypeInv, TypeOK, RedisTypeOK
  <1>2. CASE CountStored \/ CountBySource \/ CountRejected
    BY <1>1, <1>2 DEF CountStored, CountBySource, CountRejected
  <1>3. CASE Process /\ ~ (CountStored \/ CountBySource \/ CountRejected)
    BY <1>3 DEF Process, Start, WarmFromDb, MarkWarmed, RecoverPending, XReadGroup,
       XReadGroupEmpty, FetchMany, Assess, InsertArticles, Index, XAck, Reopen, redisVars
  <1>4. CASE Crash \/ (\E u \in Urls : Publish(u)) \/ UNCHANGED vars
    BY <1>4 DEF Crash, Publish, vars, redisVars
  <1> QED BY <1>2, <1>3, <1>4 DEF Next

LEMMA PushOnce == ASSUME TypeInv, ParkInv, PushDlq PROVE ParkInv'
  <1>1. PICK m \in OfKind("unfetched") :
          /\ Park(m) \/ UNCHANGED <<dlqSeen, dlq>>
          /\ \/ Park(m) /\ metrics' = [metrics EXCEPT !.dlq = IF m \in dlqSeen THEN @ ELSE @ + 1]
             \/ UNCHANGED metrics
    BY DEF PushDlq
  <1>2. /\ dlq \in Seq(Ids) /\ Len(dlq) \in Nat /\ m \in Ids
        /\ metrics \in [stored: Nat, bySource: Nat, rejected: Nat, dlq: Nat]
    BY MessageTyped DEF OfKind, TypeInv, TypeOK, RedisTypeOK
  <1>3. CASE UNCHANGED <<dlqSeen, dlq, metrics>>
    BY <1>3 DEF ParkInv, ParkedOnce
  <1>4. CASE m \in dlqSeen
    <2>1. UNCHANGED <<dlqSeen, dlq>>
      BY <1>1, <1>4 DEF Park
    <2>2. metrics'.dlq = metrics.dlq
      BY <1>1, <1>2, <1>4
    <2> QED BY <2>1, <2>2 DEF ParkInv, ParkedOnce
  <1>5. CASE m \notin dlqSeen /\ Park(m)
    <2>1. dlqSeen' = dlqSeen \cup {m} /\ dlq' = Append(dlq, m)
      BY <1>5 DEF Park
    <2>2. /\ Len(dlq') = Len(dlq) + 1 /\ dlq'[Len(dlq) + 1] = m
          /\ \A i \in 1 .. Len(dlq) : dlq'[i] = dlq[i]
      BY <1>2, <2>1
    <2>3. Elems(dlq') \subseteq dlqSeen'
      BY <1>2, <2>1, AppendElems DEF ParkInv
    <2>4. \A i \in 1 .. Len(dlq) : dlq[i] # m
      BY <1>5 DEF ParkInv, Elems
    <2>5. \A i, j \in 1 .. Len(dlq') : dlq'[i] = dlq'[j] => i = j
      <3> SUFFICES ASSUME NEW i \in 1 .. Len(dlq'), NEW j \in 1 .. Len(dlq'), dlq'[i] = dlq'[j]
                   PROVE  i = j
        OBVIOUS
      <3>1. /\ i \in 1 .. Len(dlq) \/ i = Len(dlq) + 1
            /\ j \in 1 .. Len(dlq) \/ j = Len(dlq) + 1
        BY <1>2, <2>2
      <3> QED BY <2>2, <2>4, <3>1 DEF ParkInv, ParkedOnce
    <2>6. metrics'.dlq <= metrics.dlq + 1 /\ metrics'.dlq \in Nat /\ metrics.dlq \in Nat
      BY <1>1, <1>2
    <2>7. metrics'.dlq <= Len(dlq')
      BY <1>2, <2>2, <2>6 DEF ParkInv, ParkedOnce
    <2> QED BY <2>3, <2>5, <2>7 DEF ParkInv, ParkedOnce
  <1> QED BY <1>1, <1>3, <1>4, <1>5 DEF Park

\* push_dlq and its Lua script: whatever calls raise and however often batches
\* are retried, a message is on the dead-letter stream at most once.
THEOREM DeadLettersOnce == Spec => []ParkedOnce
  <1>1. Init => TypeInv /\ ParkInv
    <2>1. Init => ParkInv
      <3> SUFFICES ASSUME Init PROVE ParkInv
        OBVIOUS
      <3>1. dlq = <<>> /\ Len(dlq) = 0 /\ metrics.dlq = 0 /\ Elems(dlq) = {}
        BY EmptySeq, RowSets DEF Init
      <3> QED BY <3>1 DEF ParkInv, ParkedOnce
    <2> QED BY <2>1, InitTyped
  <1>2. TypeInv /\ ParkInv /\ [Next]_vars => (TypeInv /\ ParkInv)'
    <2> SUFFICES ASSUME TypeInv, ParkInv, [Next]_vars PROVE ParkInv'
      BY NextTyped
    <2>1. CASE PushDlq
      BY <2>1, PushOnce
    <2>2. CASE ~ PushDlq
      BY <2>2, DlqUntouched DEF ParkInv, ParkedOnce
    <2> QED BY <2>1, <2>2
  <1>3. ParkInv => ParkedOnce
    BY DEF ParkInv
  <1> QED BY <1>1, <1>2, <1>3, PTL DEF Spec
-----------------------------------------------------------------------------
(***************************************************************************)
(* The counter of stored articles.                                         *)
(***************************************************************************)

\* Rows added and not yet counted.
Uncounted == IF pc = "count" THEN inserted ELSE 0

StoredInv ==
    /\ IsFiniteSet(db)
    /\ metrics.stored + Uncounted <= Cardinality(db) - Cardinality(Corpus)

\* The rows an insert adds are new, and as many as it reports.
LEMMA InsertAdds ==
    ASSUME TypeInv, IsFiniteSet(db)
    PROVE  /\ IsFiniteSet(db \cup NewRows(rows))
           /\ Cardinality(db \cup NewRows(rows)) = Cardinality(db) + Cardinality(Fresh(rows))
           /\ Cardinality(Fresh(rows)) \in Nat
  <1>1. rows \in Seq(Row) /\ Len(rows) \in Nat
    BY DEF TypeInv, TypeOK, ProcessTypeOK
  <1>2. IsFiniteSet(Fresh(rows)) /\ Cardinality(Fresh(rows)) \in Nat
    <2>1. Fresh(rows) \subseteq 1 .. Len(rows)
      BY DEF Fresh
    <2> QED BY <1>1, <2>1, IdsFinite
  <1> DEFINE g == [i \in Fresh(rows) |-> rows[i]]
  <1>3. ASSUME NEW i \in Fresh(rows), NEW j \in Fresh(rows), rows[i] = rows[j] PROVE i = j
    <2>1. i \in 1 .. Len(rows) /\ j \in 1 .. Len(rows) /\ rows[i].url = rows[j].url
      BY <1>3 DEF Fresh
    <2>2. ~ (i \in 1 .. (j - 1)) /\ ~ (j \in 1 .. (i - 1))
      BY <2>1 DEF Fresh
    <2> QED BY <1>1, <2>1, <2>2
  <1>4. g \in Bijection(Fresh(rows), NewRows(rows))
    BY <1>3 DEF Bijection, Injection, Surjection, IsInjective, NewRows
  <1>5. IsFiniteSet(NewRows(rows)) /\ Cardinality(NewRows(rows)) = Cardinality(Fresh(rows))
    <2>1. ExistsBijection(Fresh(rows), NewRows(rows))
      BY <1>4 DEF ExistsBijection
    <2> QED BY <1>2, <2>1, FS_Bijection
  <1>6. db \cap NewRows(rows) = {}
    BY DEF NewRows, Fresh, UrlsOf
  <1>7. /\ IsFiniteSet(db \cup NewRows(rows))
        /\ Cardinality(db \cup NewRows(rows)) =
              Cardinality(db) + Cardinality(NewRows(rows)) - Cardinality(db \cap NewRows(rows))
    BY <1>5, FS_Union
  <1>8. Cardinality(db \cap NewRows(rows)) = 0 /\ Cardinality(db) \in Nat
    BY <1>6, FS_EmptySet, FS_CardinalityType
  <1> QED BY <1>2, <1>5, <1>7, <1>8

LEMMA NextStored == ASSUME TypeInv, StoredInv, [Next]_vars PROVE StoredInv'
  <1>0. /\ metrics \in [stored: Nat, bySource: Nat, rejected: Nat, dlq: Nat] /\ inserted \in Nat
        /\ Cardinality(db) \in Nat /\ Cardinality(Corpus) \in Nat /\ IsFiniteSet(db)
    BY ConstantsAssumption, FS_CardinalityType
    DEF StoredInv, TypeInv, TypeOK, RedisTypeOK, ProcessTypeOK
  <1>1. ASSUME UNCHANGED db, metrics'.stored = metrics.stored, Uncounted' \in {0, Uncounted}
        PROVE  StoredInv'
    <2>1. Uncounted \in Nat /\ metrics.stored \in Nat
      BY <1>0 DEF Uncounted
    <2> QED BY <1>0, <1>1, <2>1 DEF StoredInv
  <1>2. \A c : Raises(c) => Uncounted' = 0
    <2>1. \A c : Raises(c) => pc' # "count"
      BY RaisesTyped
    <2> QED BY <2>1 DEF Uncounted
  <1>3. CASE InsertArticles
    <2>1. metrics' = metrics /\ metrics.stored \in Nat /\ Uncounted = 0
      BY <1>0, <1>3 DEF InsertArticles, redisVars, Uncounted
    <2>2. CASE db' = db
      <3>1. \/ Raises("insert")
            \/ (inserted' = Cardinality(Fresh(rows)) /\ db' = db \cup NewRows(rows))
        BY <1>3 DEF InsertArticles
      <3>2. CASE Raises("insert")
        BY <1>1, <1>2, <2>1, <2>2, <3>2
      <3>3. CASE inserted' = Cardinality(Fresh(rows)) /\ db' = db \cup NewRows(rows)
        <4>1. /\ Cardinality(Fresh(rows)) \in Nat
              /\ Cardinality(db) = Cardinality(db) + Cardinality(Fresh(rows))
          BY <1>0, <2>2, <3>3, InsertAdds
        <4>2. inserted' = 0
          BY <1>0, <3>3, <4>1
        <4> QED BY <1>1, <2>1, <2>2, <4>2 DEF Uncounted
      <3> QED BY <3>1, <3>2, <3>3
    <2>3. CASE db' = db \cup NewRows(rows)
      <3>1. /\ IsFiniteSet(db') /\ Cardinality(db') = Cardinality(db) + Cardinality(Fresh(rows))
            /\ Cardinality(Fresh(rows)) \in Nat
        BY <1>0, <2>3, InsertAdds
      <3>2. Uncounted' \in {0, Cardinality(Fresh(rows))}
        BY <1>2, <1>3 DEF InsertArticles, Uncounted
      <3> QED BY <1>0, <2>1, <3>1, <3>2 DEF StoredInv
    <2> QED BY <1>3, <2>2, <2>3 DEF InsertArticles
  <1>4. CASE CountStored
    <2>1. /\ pc = "count" /\ db' = db /\ Uncounted = inserted
          /\ metrics' \in {metrics, [metrics EXCEPT !.stored = @ + inserted]}
      BY <1>4 DEF CountStored, Uncounted
    <2>2. Uncounted' = 0
      BY <1>2, <1>4 DEF CountStored, Returns, Uncounted
    <2>3. metrics'.stored \in {metrics.stored, metrics.stored + inserted} /\ metrics.stored \in Nat
      BY <1>0, <2>1
    <2> QED BY <1>0, <2>1, <2>2, <2>3 DEF StoredInv
  <1>5. CASE CountBySource \/ CountRejected
    <2>1. db' = db /\ metrics'.stored = metrics.stored
      BY <1>0, <1>5 DEF CountBySource, CountRejected
    <2>2. Uncounted' = 0
      BY <1>2, <1>5 DEF CountBySource, CountRejected, Returns, Uncounted
    <2> QED BY <1>1, <2>1, <2>2
  <1>6. CASE /\ Process
             /\ ~ (InsertArticles \/ CountStored \/ CountBySource \/ CountRejected \/ PushDlq)
    <2>1. db' = db /\ metrics' = metrics
      BY <1>6 DEF Process, Start, WarmFromDb, MarkWarmed, RecoverPending, XReadGroup,
         XReadGroupEmpty, FetchMany, Assess, Index, XAck, Reopen, redisVars
    <2>2. (\E c : Raises(c)) \/ pc' # "count"
      BY <1>6 DEF Process, Start, WarmFromDb, MarkWarmed, RecoverPending, XReadGroup,
         XReadGroupEmpty, FetchMany, Assess, Index, XAck, Reopen, Returns, procVars
    <2> QED BY <1>1, <1>2, <2>1, <2>2 DEF Uncounted
  <1>7. CASE PushDlq
    <2>1. db' = db /\ Uncounted' = 0
      BY <1>7 DEF PushDlq, procVars, Uncounted
    <2>2. metrics'.stored = metrics.stored
      BY <1>0, <1>7 DEF PushDlq
    <2> QED BY <1>1, <2>1, <2>2
  <1>8. CASE Crash \/ (\E u \in Urls : Publish(u)) \/ UNCHANGED vars
    BY <1>1, <1>8 DEF Crash, Dead, Publish, vars, redisVars, procVars, Uncounted
  <1> QED BY <1>3, <1>4, <1>5, <1>6, <1>7, <1>8 DEF Next

\* insert_articles and metrics:articles:stored: the counter never exceeds the
\* rows the processor has added, for any retries, conflicts and failures.
THEOREM StoredCounterSound == Spec => []StoredMetricSound
  <1>1. Init => TypeInv /\ StoredInv
    <2>1. Init => StoredInv
      BY ConstantsAssumption, FS_CardinalityType DEF Init, StoredInv, Uncounted
    <2> QED BY <2>1, InitTyped
  <1>2. TypeInv /\ StoredInv /\ [Next]_vars => (TypeInv /\ StoredInv)'
    BY NextTyped, NextStored
  <1>3. TypeInv /\ StoredInv => StoredMetricSound
    <2> SUFFICES ASSUME TypeInv, StoredInv PROVE StoredMetricSound
      OBVIOUS
    <2>1. metrics.stored \in Nat /\ Uncounted \in Nat
      BY DEF TypeInv, TypeOK, RedisTypeOK, ProcessTypeOK, Uncounted
    <2>2. Cardinality(db) \in Nat /\ Cardinality(Corpus) \in Nat
      BY ConstantsAssumption, FS_CardinalityType DEF StoredInv
    <2> QED BY <2>1, <2>2 DEF StoredInv, StoredMetricSound
  <1> QED BY <1>1, <1>2, <1>3, PTL DEF Spec
-----------------------------------------------------------------------------
(***************************************************************************)
(* The counter of rejections.                                              *)
(***************************************************************************)

\* The messages that must have been counted.
Rejected == {m \in Ids : /\ Settled(m) \/ (pc = "xack" /\ m \in batch)
                         /\ fate[m].kind \in Counted}

TallyInv == Unread /\ RejectionsCounted

LEMMA PendingTyped ==
    ASSUME TypeInv
    PROVE  /\ last \in Nat /\ pel \subseteq 1 .. last /\ batch \subseteq pel
           /\ batch \subseteq 1 .. last /\ batch \subseteq Ids
           /\ metrics.rejected \in Nat /\ faults \in Nat /\ crashes \in Nat
  <1>1. last \in Nat /\ pel \subseteq 1 .. last /\ batch \subseteq pel
    BY DEF TypeInv, TypeOK, RedisTypeOK, ProcessTypeOK
  <1>2. metrics.rejected \in Nat /\ faults \in Nat /\ crashes \in Nat
    BY DEF TypeInv, TypeOK, RedisTypeOK
  <1> QED BY <1>1, <1>2, MessageTyped

LEMMA RejectedFinite ==
    ASSUME TypeInv PROVE IsFiniteSet(Rejected) /\ Cardinality(Rejected) \in Nat
  <1>1. Len(log) \in Nat /\ Rejected \subseteq 1 .. Len(log)
    BY DEF Rejected, Ids, TypeInv, TypeOK, RedisTypeOK
  <1> QED BY <1>1, IdsFinite

LEMMA TallyMeans ==
    RejectionsCounted <=>
       /\ Cardinality(Rejected) <= metrics.rejected
       /\ faults = 0 /\ crashes = 0 => metrics.rejected = Cardinality(Rejected)
  BY DEF RejectionsCounted, Rejected

\* Messages may drop out of the tally only with an exception or a kill.
LEMMA TallyKept ==
    ASSUME TypeInv, TypeInv', RejectionsCounted, Rejected' \subseteq Rejected,
           metrics'.rejected >= metrics.rejected,
           \/ faults' # 0 \/ crashes' # 0
           \/ /\ Rejected' = Rejected /\ metrics'.rejected = metrics.rejected
              /\ UNCHANGED <<faults, crashes>>
    PROVE  RejectionsCounted'
  <1>1. IsFiniteSet(Rejected) /\ Cardinality(Rejected) \in Nat
    BY RejectedFinite
  <1>2. Cardinality(Rejected') \in Nat /\ Cardinality(Rejected') <= Cardinality(Rejected)
    BY <1>1, FS_Subset, FS_CardinalityType
  <1>3. metrics.rejected \in Nat /\ metrics'.rejected \in Nat
    BY DEF TypeInv, TypeOK, RedisTypeOK
  <1>4. /\ Cardinality(Rejected') <= metrics'.rejected
        /\ faults' = 0 /\ crashes' = 0 => metrics'.rejected = Cardinality(Rejected')
    BY <1>1, <1>2, <1>3, TallyMeans
  <1> QED BY <1>4 DEF RejectionsCounted, Rejected

\* Work on pending messages settles nothing.
LEMMA PendingWork ==
    ASSUME TypeInv, Unread, UNCHANGED <<log, last, pel>>, pc' # "xack",
           \A m \in Ids \ pel : fate'[m] = fate[m]
    PROVE  Unread' /\ Rejected' \subseteq Rejected /\ (pc # "xack" => Rejected' = Rejected)
  <1>1. Ids' = Ids /\ Ids \subseteq Int /\ last \in Int
    BY DEF Ids, TypeInv, TypeOK, RedisTypeOK
  <1>2. Unread'
    <2>1. \A m \in Ids : m > last => m \notin pel
      BY <1>1 DEF TypeInv, TypeOK, RedisTypeOK
    <2> QED BY <1>1, <2>1 DEF Unread
  <1>3. \A m \in Ids : Settled(m)' <=> Settled(m)
    BY DEF Settled
  <1>4. \A m \in Ids : Settled(m) => fate'[m] = fate[m]
    BY DEF Settled
  <1>5. Rejected' = {m \in Ids : Settled(m) /\ fate[m].kind \in Counted}
    BY <1>1, <1>3, <1>4 DEF Rejected
  <1>6. Rejected' \subseteq Rejected /\ (pc # "xack" => Rejected' = Rejected)
    BY <1>5 DEF Rejected
  <1> QED BY <1>2, <1>6

LEMMA RaisesTally ==
    ASSUME TypeInv, TypeInv', TallyInv, NEW c, Raises(c), UNCHANGED <<log, last, pel, fate>>,
           metrics'.rejected >= metrics.rejected
    PROVE  TallyInv'
  <1>1. pc' # "xack" /\ faults' # 0
    <2>1. pc' # "xack"
      BY RaisesTyped
    <2>2. faults \in Nat /\ faults' = faults + 1
      BY DEF Raises, TypeInv, TypeOK
    <2> QED BY <2>1, <2>2
  <1>2. Unread' /\ Rejected' \subseteq Rejected
    BY <1>1, PendingWork DEF TallyInv
  <1> QED BY <1>1, <1>2, TallyKept DEF TallyInv

LEMMA PublishTally ==
    ASSUME TypeInv, TypeInv', TallyInv, NEW u \in Urls, Publish(u) PROVE TallyInv'
  <1>1. /\ UNCHANGED <<last, pel, metrics, pc, batch, faults, crashes>> /\ Len(log) \in Nat
        /\ Ids' = Ids \cup {Len(log) + 1} /\ Len(log) + 1 \notin Ids
        /\ fate' = [m \in 1 .. Len(log) + 1 |-> IF m \in Ids THEN fate[m] ELSE NoFate]
        /\ last <= Len(log) /\ last \in Nat
    BY DEF Publish, procVars, Ids, TypeInv, TypeOK, RedisTypeOK
  <1>2. fate'[Len(log) + 1].kind = "none" /\ \A m \in Ids : fate'[m] = fate[m]
    BY <1>1 DEF NoFate, Ids
  <1>3. Unread'
    BY <1>1, <1>2 DEF TallyInv, Unread
  <1>4. Rejected' = Rejected
    <2>1. \A m \in Ids : Settled(m)' <=> Settled(m)
      BY <1>1 DEF Settled
    <2> QED BY <1>1, <1>2, <2>1 DEF Rejected, Counted
  <1> QED BY <1>1, <1>3, <1>4, TallyKept, PendingTyped DEF TallyInv

LEMMA ReadTally == ASSUME TypeInv, TypeInv', TallyInv, XReadGroup PROVE TallyInv'
  <1>1. PICK S \in SUBSET Undelivered :
          /\ \/ fate' = Parsed(S) /\ pc' = "fetch" /\ UNCHANGED <<faults, crashes>>
             \/ Raises("xread") /\ UNCHANGED fate
          /\ pel' = pel \cup S
          /\ last' \in S /\ \A m \in S : m <= last'
    BY DEF XReadGroup, Returns
  <1>2. /\ UNCHANGED <<log, metrics>> /\ pc = "idle" /\ Ids' = Ids /\ Ids \subseteq Int
        /\ last \in Nat /\ last' \in Nat /\ S \subseteq Ids /\ last <= last'
    BY <1>1 DEF XReadGroup, Ids, Undelivered, TypeInv, TypeOK, RedisTypeOK
  <1>3. \A m \in Ids : m \notin S => fate'[m] = fate[m]
    BY <1>1 DEF Parsed
  <1>4. Unread'
    <2>1. \A m \in Ids : m > last' => m \notin S /\ m > last
      BY <1>1, <1>2
    <2> QED BY <1>2, <1>3, <2>1 DEF TallyInv, Unread
  <1>5. pc' # "xack"
    BY <1>1, RaisesTyped
  <1>6. Rejected' = Rejected
    <2>1. ASSUME NEW m \in Ids
          PROVE  (Settled(m)' /\ fate'[m].kind \in Counted) <=> (Settled(m) /\ fate[m].kind \in Counted)
      <3>1. CASE m \in S
        <4>1. ~ Settled(m)' /\ m > last
          BY <1>1, <3>1 DEF Settled, Undelivered
        <4> QED BY <1>2, <4>1 DEF Settled
      <3>2. CASE m \notin S /\ m > last
        <4>1. fate'[m].kind = "none" /\ fate[m].kind = "none"
          BY <1>3, <3>2 DEF TallyInv, Unread
        <4> QED BY <4>1 DEF Counted
      <3>3. CASE m \notin S /\ ~ (m > last)
        <4>1. Settled(m)' <=> Settled(m)
          BY <1>1, <1>2, <3>3 DEF Settled
        <4> QED BY <1>3, <3>3, <4>1
      <3> QED BY <3>1, <3>2, <3>3
    <2> QED BY <1>2, <1>5, <2>1 DEF Rejected
  <1>7. faults' # 0 \/ UNCHANGED <<faults, crashes>>
    BY <1>1 DEF Raises, TypeInv, TypeOK
  <1>8. metrics'.rejected >= metrics.rejected
    BY <1>2 DEF TypeInv, TypeOK, RedisTypeOK
  <1> QED BY <1>2, <1>4, <1>6, <1>7, <1>8, TallyKept DEF TallyInv

LEMMA CountTally == ASSUME TypeInv, TypeInv', TallyInv, CountRejected PROVE TallyInv'
  <1>1. /\ UNCHANGED <<log, last, pel, fate>> /\ pc # "xack" /\ Ids' = Ids
        /\ metrics' \in {metrics, [metrics EXCEPT !.rejected = @ + Rejects]}
    BY DEF CountRejected, Ids
  <1> DEFINE B == {m \in batch : fate[m].kind \in Counted}
  <1>2. /\ batch \subseteq Ids /\ batch \subseteq pel
        /\ IsFiniteSet(B) /\ Cardinality(B) \in Nat /\ Rejects = Cardinality(B)
    <2>1. last \in Nat /\ batch \subseteq pel /\ batch \subseteq 1 .. last
      BY PendingTyped
    <2>2. B \subseteq 1 .. last
      BY <2>1
    <2>3. IsFiniteSet(B) /\ Cardinality(B) \in Nat
      BY <2>1, <2>2, IdsFinite
    <2> QED BY <2>1, <2>3, MessageTyped DEF Rejects
  <1>3. metrics.rejected \in Nat /\ metrics'.rejected \in {metrics.rejected, metrics.rejected + Rejects}
    BY <1>1 DEF TypeInv, TypeOK, RedisTypeOK
  <1>4. CASE Raises("stats")
    BY <1>1, <1>2, <1>3, <1>4, RaisesTally
  <1>5. CASE /\ metrics' = [metrics EXCEPT !.rejected = @ + Rejects]
             /\ pc' = "xack" /\ UNCHANGED <<batch, faults, crashes>>
    <2>1. Rejected' = Rejected \cup B /\ Rejected \cap B = {}
      <3>1. \A m \in Ids : Settled(m)' <=> Settled(m)
        BY <1>1 DEF Settled
      <3>2. \A m \in batch : ~ Settled(m)
        BY <1>2 DEF Settled
      <3> QED BY <1>1, <1>2, <1>5, <3>1, <3>2 DEF Rejected
    <2>2. Cardinality(Rejected') = Cardinality(Rejected) + Cardinality(B)
      <3> HIDE DEF B
      <3>1. Cardinality(Rejected \cup B) =
               Cardinality(Rejected) + Cardinality(B) - Cardinality(Rejected \cap B)
        BY <1>2, RejectedFinite, FS_Union
      <3>2. Cardinality(Rejected \cap B) = 0
        BY <2>1, FS_EmptySet
      <3> QED BY <1>2, <2>1, <3>1, <3>2, RejectedFinite
    <2>3. metrics'.rejected = metrics.rejected + Cardinality(B)
      BY <1>2, <1>5 DEF TypeInv, TypeOK, RedisTypeOK
    <2>4. /\ Cardinality(Rejected') <= metrics'.rejected
          /\ faults' = 0 /\ crashes' = 0 => metrics'.rejected = Cardinality(Rejected')
      <3> HIDE DEF B
      <3> QED BY <1>2, <1>3, <1>5, <2>2, <2>3, RejectedFinite, TallyMeans DEF TallyInv
    <2>5. RejectionsCounted'
      BY <2>4 DEF RejectionsCounted, Rejected
    <2>6. Unread'
      BY <1>1 DEF TallyInv, Unread
    <2> QED BY <2>5, <2>6 DEF TallyInv
  <1> QED BY <1>4, <1>5 DEF CountRejected, Returns, locals

LEMMA AckTally == ASSUME TypeInv, TypeInv', TallyInv, XAck PROVE TallyInv'
  <1>1. /\ UNCHANGED <<log, last, metrics, fate>> /\ pc = "xack" /\ Ids' = Ids
        /\ pel' \in {pel, pel \ batch} /\ pc' # "xack"
    <2>1. Raises("xack") => pc' # "xack"
      BY RaisesTyped
    <2> QED BY <2>1 DEF XAck, Ids, Returns
  <1>2. Unread'
    BY <1>1 DEF TallyInv, Unread
  <1>3. batch \subseteq pel /\ pel \subseteq 1 .. last /\ last \in Nat
    BY PendingTyped
  <1>4. \A m \in Ids : Settled(m)' => Settled(m) \/ m \in batch
    BY <1>1 DEF Settled
  <1>5. Rejected' \subseteq Rejected
    BY <1>1, <1>4 DEF Rejected
  <1>6. metrics'.rejected = metrics.rejected /\ metrics.rejected \in Nat
    BY <1>1 DEF TypeInv, TypeOK, RedisTypeOK
  <1>7. CASE Raises("xack")
    <2>1. faults' # 0
      BY <1>7 DEF Raises, TypeInv, TypeOK
    <2> QED BY <1>2, <1>5, <1>6, <2>1, TallyKept DEF TallyInv
  <1>8. CASE pel' = pel \ batch /\ UNCHANGED <<faults, crashes>>
    <2>1. ASSUME NEW m \in Ids PROVE Settled(m)' <=> (Settled(m) \/ m \in batch)
      <3>1. m \in batch => m <= last /\ m \in pel
        BY <1>3
      <3> QED BY <1>1, <1>8, <3>1 DEF Settled
    <2>2. Rejected' = Rejected
      BY <1>1, <2>1 DEF Rejected
    <2> QED BY <1>2, <1>6, <1>8, <2>2, TallyKept DEF TallyInv
  <1> QED BY <1>7, <1>8 DEF XAck, Returns

\* Steps that leave the stream and the counter alone.
LEMMA OthersTally ==
    ASSUME TypeInv, TypeInv', TallyInv, RecoverPending \/ (Others /\ ~ CountRejected)
    PROVE  TallyInv'
  <1>1. UNCHANGED <<log, last, pel>> /\ metrics'.rejected = metrics.rejected
    <2>1. metrics \in [stored: Nat, bySource: Nat, rejected: Nat, dlq: Nat]
      BY DEF TypeInv, TypeOK, RedisTypeOK
    <2> QED BY <2>1 DEF Others, Start, WarmFromDb, MarkWarmed, RecoverPending, XReadGroupEmpty,
            FetchMany, PushDlq, Assess, InsertArticles, CountStored, CountBySource, Index,
            Reopen, Crash, redisVars
  <1>2. metrics.rejected \in Nat /\ faults \in Nat /\ crashes \in Nat
    BY DEF TypeInv, TypeOK, RedisTypeOK
  <1>3. \A m \in Ids \ pel : fate'[m] = fate[m]
    <2>0. batch \subseteq pel /\ fate \in [Ids -> Fate]
      BY DEF TypeInv, TypeOK, ProcessTypeOK
    <2>1. CASE RecoverPending
      BY <2>1 DEF RecoverPending, Parsed
    <2>2. CASE FetchMany \/ PushDlq \/ Assess
      BY <2>0, <2>2 DEF FetchMany, PushDlq, Assess, OfKind, Reject, DropDuplicate, AddRow
    <2>3. CASE Others /\ ~ (FetchMany \/ PushDlq \/ Assess \/ CountRejected)
      BY <2>3 DEF Others, Start, WarmFromDb, MarkWarmed, XReadGroupEmpty,
         InsertArticles, CountStored, CountBySource, Index, Reopen, Crash
    <2> QED BY <2>1, <2>2, <2>3
  <1>4. \/ \E c \in Calls : Raises(c)
        \/ Crash
        \/ pc' # "xack" /\ pc # "xack" /\ UNCHANGED <<faults, crashes>>
        \/ PushDlq
    BY DEF Others, Start, WarmFromDb, MarkWarmed, RecoverPending, XReadGroupEmpty,
       FetchMany, Assess, InsertArticles, CountStored, CountBySource, Index,
       Reopen, Returns, procVars, Calls
  <1>5. pc' # "xack"
    BY <1>4, RaisesTyped DEF Crash, Dead, PushDlq, procVars
  <1>6. Unread' /\ Rejected' \subseteq Rejected /\ (pc # "xack" => Rejected' = Rejected)
    BY <1>1, <1>3, <1>5, PendingWork DEF TallyInv
  <1>7. \/ faults' # 0 \/ crashes' # 0
        \/ pc # "xack" /\ UNCHANGED <<faults, crashes>>
    <2>1. (\E c \in Calls : Raises(c)) => faults' # 0
      BY <1>2 DEF Raises
    <2>2. Crash => crashes' # 0
      BY <1>2 DEF Crash
    <2>3. PushDlq => pc # "xack" /\ UNCHANGED crashes /\ (faults' # 0 \/ faults' = faults)
      BY <1>2 DEF PushDlq
    <2> QED BY <1>4, <2>1, <2>2, <2>3
  <1> QED BY <1>1, <1>2, <1>6, <1>7, TallyKept DEF TallyInv

\* The stats of process_batch: a message settled as rejected, gone, duplicate
\* or parked has been counted, and without exceptions and kills exactly once.
THEOREM RejectionsTallied == Spec => []RejectionsCounted
  <1>1. Init => TypeInv /\ TallyInv
    <2>1. Init => TallyInv
      <3> SUFFICES ASSUME Init PROVE TallyInv
        OBVIOUS
      <3>1. Ids = {} /\ metrics.rejected = 0
        BY EmptySeq DEF Init, Ids
      <3>2. Cardinality(Rejected) = 0
        BY <3>1, FS_EmptySet DEF Rejected
      <3> QED BY <3>1, <3>2, TallyMeans DEF TallyInv, Unread
    <2> QED BY <2>1, InitTyped
  <1>2. TypeInv /\ TallyInv /\ [Next]_vars => (TypeInv /\ TallyInv)'
    <2> SUFFICES ASSUME TypeInv, TallyInv, [Next]_vars, TypeInv' PROVE TallyInv'
      BY NextTyped
    <2>1. CASE UNCHANGED vars
      <3>1. TallyInv' <=> TallyInv
        BY <2>1 DEF TallyInv, Unread, RejectionsCounted, Ids, Settled, vars, redisVars, procVars
      <3> QED BY <3>1
    <2> QED BY <2>1, PublishTally, ReadTally, CountTally, AckTally, OthersTally
        DEF Next, Process, Others
  <1>3. TallyInv => RejectionsCounted
    BY DEF TallyInv
  <1> QED BY <1>1, <1>2, <1>3, PTL DEF Spec
-----------------------------------------------------------------------------
(***************************************************************************)
(* "Write first, index second".                                            *)
(***************************************************************************)

\* The locations between the commit and the last index call.
Storing == {"count", "bySource", "index"}

WriteInv ==
    /\ Contents
    /\ lsh \subseteq FpsOf(db)
    /\ pc \in Storing => FpsOf(Elems(rows)) \subseteq FpsOf(db)

LEMMA WriteStep ==
    ASSUME WriteInv, UNCHANGED log, db' = db \/ db' = db \cup NewRows(rows),
           \A r \in Elems(rows') : r.fp \in ContentOf(r.url),
           \A m \in batch' : fate'[m].kind = "extracted" => fate'[m].fp \in ContentOf(log[m].url),
           lsh' \subseteq FpsOf(db'),
           pc' \in Storing => FpsOf(Elems(rows')) \subseteq FpsOf(db')
    PROVE  WriteInv'
  <1>1. NewRows(rows) \subseteq Elems(rows)
    BY DEF NewRows, Fresh, Elems
  <1>2. \A r \in db' : r.fp \in ContentOf(r.url)
    BY <1>1 DEF WriteInv, Contents
  <1> QED BY <1>2 DEF WriteInv, Contents, Ids

LEMMA RaisesWrite ==
    ASSUME TypeInv, WriteInv, NEW c, Raises(c), UNCHANGED log,
           db' = db \/ db' = db \cup NewRows(rows), lsh' \subseteq FpsOf(db')
    PROVE  WriteInv'
  <1>1. batch' = {} /\ Elems(rows') = {} /\ pc' \notin Storing
    BY RaisesTyped, RowSets DEF Storing
  <1> QED BY <1>1, WriteStep

\* Publish: the payload is one the source may send.
LEMMA PublishWrite ==
    ASSUME TypeInv, WriteInv, NEW u \in Urls, Publish(u) PROVE WriteInv'
  <1>1. /\ UNCHANGED <<db, lsh, pc, batch, rows>>
        /\ fate' = [m \in 1 .. Len(log) + 1 |-> IF m \in Ids THEN fate[m] ELSE NoFate]
    BY DEF Publish, procVars
  <1>2. PICK b \in Bodies[u] : log' = Append(log, [url |-> u, body |-> b])
    BY DEF Publish
  <1>3. log \in Seq(Entry) /\ Len(log) \in Nat /\ batch \subseteq Ids
    BY PendingTyped DEF TypeInv, TypeOK, RedisTypeOK
  <1>4. /\ Ids' = Ids \cup {Len(log) + 1} /\ log'[Len(log) + 1] = [url |-> u, body |-> b]
        /\ \A m \in Ids : log'[m] = log[m]
    BY <1>2, <1>3, AppendProperties DEF Ids
  <1>5. \A m \in Ids : fate'[m] = fate[m]
    BY <1>1, <1>3 DEF Ids
  <1>6. Contents'
    <2>1. \A m \in Ids' : log'[m].body \in Bodies[log'[m].url]
      BY <1>4 DEF WriteInv, Contents
    <2>2. \A m \in batch :
             fate'[m].kind = "extracted" => fate'[m].fp \in ContentOf(log'[m].url)
      BY <1>3, <1>4, <1>5 DEF WriteInv, Contents
    <2> QED BY <1>1, <2>1, <2>2 DEF WriteInv, Contents
  <1> QED BY <1>1, <1>6 DEF WriteInv

\* Reading, fetching and assessing: documents are what their URLs stand for.
LEMMA AttemptWrite ==
    ASSUME TypeInv, WriteInv, RecoverPending \/ XReadGroup \/ FetchMany \/ PushDlq \/ Assess
    PROVE  WriteInv'
  <1>1. UNCHANGED <<log, db, lsh>> /\ pc \notin Storing
    BY DEF RecoverPending, XReadGroup, FetchMany, PushDlq, Assess, redisVars, Storing
  <1>2. batch \subseteq Ids /\ pel \subseteq Ids
    BY PendingTyped DEF TypeInv, TypeOK, RedisTypeOK, Ids
  <1>3. \A c : Raises(c) => WriteInv'
    BY <1>1, RaisesWrite DEF WriteInv
  <1>4. CASE XReadGroup \/ RecoverPending
    <2>1. \/ \E c : Raises(c)
          \/ UNCHANGED <<batch, fate, rows>> /\ pc' = "idle"
          \/ /\ fate' = Parsed(batch') /\ batch' \subseteq Ids /\ UNCHANGED rows /\ pc' = "fetch"
      BY <1>2, <1>4 DEF XReadGroup, RecoverPending, Returns, locals, Undelivered
    <2>2. CASE fate' = Parsed(batch') /\ batch' \subseteq Ids /\ UNCHANGED rows /\ pc' = "fetch"
      <3>1. \A m \in batch' : fate'[m].kind # "extracted"
        BY <2>2 DEF Parsed
      <3> QED BY <1>1, <2>2, <3>1, WriteStep DEF WriteInv, Contents, Storing
    <2>3. CASE UNCHANGED <<batch, fate, rows>> /\ pc' = "idle"
      BY <1>1, <2>3, WriteStep DEF WriteInv, Contents, Storing
    <2> QED BY <1>3, <2>1, <2>2, <2>3
  <1>5. CASE FetchMany
    <2>1. CASE /\ \E got \in [batch -> UNION {Extractions(m) : m \in batch}] :
                    /\ \A m \in batch : got[m] \in Extractions(m)
                    /\ fate' = [m \in Ids |-> IF m \in batch THEN got[m] ELSE fate[m]]
               /\ Returns("batch") /\ UNCHANGED locals
      <3>1. ASSUME NEW m \in batch, fate'[m].kind = "extracted"
            PROVE  fate'[m].fp \in ContentOf(log[m].url)
        <4>1. fate'[m] \in Extractions(m) /\ log[m].url \in Urls /\ m \in Ids
          BY <1>2, <2>1, MessageTyped
        <4>2. CASE fate[m].kind = "skipped"
          BY <3>1, <4>1, <4>2 DEF Extractions
        <4>3. CASE fate[m].kind # "skipped" /\ Inline(m)
          <5>1. log[m].body \in Bodies[log[m].url] \ {None}
            BY <4>1, <4>3 DEF Inline, WriteInv, Contents
          <5>2. fate'[m] = [kind |-> "extracted", fp |-> log[m].body]
            BY <4>1, <4>3 DEF Extractions
          <5> QED BY <5>1, <5>2 DEF ContentOf
        <4>4. CASE fate[m].kind # "skipped" /\ ~ Inline(m)
          <5>1. \/ fate'[m] \in [kind: {"extracted"}, fp: Pages[log[m].url]]
                \/ fate'[m] \in [kind: Misses[log[m].url], fp: {None}]
            BY <4>1, <4>4 DEF Extractions
          <5>2. Misses[log[m].url] \subseteq MissKinds
            BY <4>1, ConstantsAssumption
          <5> QED BY <3>1, <5>1, <5>2 DEF ContentOf, MissKinds
        <4> QED BY <4>2, <4>3, <4>4
      <3>2. UNCHANGED <<batch, rows>> /\ pc' = "batch"
        BY <2>1 DEF Returns, locals
      <3> QED BY <1>1, <3>1, <3>2, WriteStep DEF WriteInv, Contents, Storing
    <2> QED BY <1>3, <1>5, <2>1 DEF FetchMany
  <1>6. CASE PushDlq
    <2>1. PICK m \in OfKind("unfetched") : fate' = [fate EXCEPT ![m].kind = "parked"]
      BY <1>6 DEF PushDlq
    <2>2. m \in batch /\ fate[m].kind = "unfetched"
      BY DEF OfKind
    <2>3. \A n \in Ids : fate'[n] = IF n = m THEN [kind |-> "parked", fp |-> fate[m].fp]
                                            ELSE fate[n]
      BY <2>1, <2>2, FateKindTyped DEF BareKinds
    <2>4. \A n \in batch : fate'[n].kind = "extracted" => fate'[n].fp \in ContentOf(log[n].url)
      BY <1>2, <2>2, <2>3 DEF WriteInv, Contents
    <2>5. UNCHANGED <<batch, rows, pc>>
      BY <1>6 DEF PushDlq, procVars
    <2> QED BY <1>1, <2>4, <2>5, WriteStep DEF WriteInv, Contents
  <1>7. CASE Assess
    <2>1. PICK m \in OfKind("extracted") :
             \/ pc' = "batch" /\ (Reject(m) \/ DropDuplicate(m) \/ AddRow(m))
             \/ \E c : Raises(c)
      BY <1>7 DEF Assess, Returns
    <2>2. m \in batch /\ fate[m].kind = "extracted" /\ fate[m].fp \in ContentOf(log[m].url)
      BY DEF OfKind, WriteInv, Contents
    <2>3. CASE pc' = "batch" /\ (Reject(m) \/ DropDuplicate(m) \/ AddRow(m))
      <3>1. PICK k \in {"rejected", "dup", "row"} : fate' = [fate EXCEPT ![m].kind = k]
        BY <2>3 DEF Reject, DropDuplicate, AddRow
      <3>2. \A n \in Ids : fate'[n] = IF n = m THEN [kind |-> k, fp |-> fate[m].fp] ELSE fate[n]
        BY <2>2, <3>1, FateKindTyped DEF ContentKinds
      <3>3. \A n \in batch : fate'[n].kind = "extracted" => fate'[n].fp \in ContentOf(log[n].url)
        BY <1>2, <2>2, <3>2 DEF WriteInv, Contents
      <3> DEFINE r == [url |-> log[m].url, fp |-> fate[m].fp]
      <3>4. UNCHANGED batch /\ (rows' = rows \/ rows' = Append(rows, r))
        BY <2>3 DEF Reject, DropDuplicate, AddRow, locals
      <3>5. Elems(rows') \subseteq Elems(rows) \cup {r}
        <4>1. rows \in Seq(Row) /\ r \in Row
          BY <2>2, MessageTyped DEF Row, ContentKinds, TypeInv, TypeOK, ProcessTypeOK
        <4>2. Elems(Append(rows, r)) = Elems(rows) \cup {r}
          BY <4>1, AppendElems
        <4> QED BY <3>4, <4>2
      <3>6. \A q \in Elems(rows') : q.fp \in ContentOf(q.url)
        BY <2>2, <3>5 DEF WriteInv, Contents
      <3> QED BY <1>1, <2>3, <3>3, <3>4, <3>6, WriteStep DEF WriteInv, Storing
    <2> QED BY <1>3, <2>1, <2>3
  <1> QED BY <1>4, <1>5, <1>6, <1>7

\* The insert: a row that conflicts is stored under its URL already.
LEMMA InsertWrite ==
    ASSUME TypeInv, WriteInv, StableContent, InsertArticles PROVE WriteInv'
  <1>1. UNCHANGED <<log, lsh, fate>> /\ (db' = db \/ db' = db \cup NewRows(rows))
    BY DEF InsertArticles, redisVars
  <1>2. lsh' \subseteq FpsOf(db')
    <2>1. FpsOf(db) \subseteq FpsOf(db')
      BY <1>1 DEF FpsOf
    <2> QED BY <1>1, <2>1 DEF WriteInv
  <1>3. CASE Raises("insert")
    BY <1>1, <1>2, <1>3, RaisesWrite
  <1>4. CASE db' = db \cup NewRows(rows) /\ UNCHANGED <<batch, rows>>
    <2>1. \A r \in Elems(rows) : r.fp \in FpsOf(db')
      BY <1>4, InsertCovers DEF WriteInv, FpsOf
    <2>2. FpsOf(Elems(rows')) \subseteq FpsOf(db')
      BY <1>4, <2>1 DEF FpsOf
    <2> QED BY <1>1, <1>2, <1>4, <2>2, WriteStep DEF WriteInv, Contents
  <1> QED BY <1>3, <1>4 DEF InsertArticles

\* Indexing, counting, acking.
LEMMA IndexWrite ==
    ASSUME TypeInv, WriteInv, CountStored \/ CountBySource \/ Index \/ CountRejected \/ XAck
    PROVE  WriteInv'
  <1>1. UNCHANGED <<log, db, fate>>
    BY DEF CountStored, CountBySource, Index, CountRejected, XAck
  <1>2. lsh' \subseteq FpsOf(db)
    <2>1. CASE Index
      <3>1. rows \in Seq(Row) /\ rows # <<>>
        BY <2>1 DEF Index, TypeInv, TypeOK, ProcessTypeOK, Sane
      <3>2. Head(rows).fp \in FpsOf(Elems(rows))
        BY <3>1, TailElems DEF FpsOf
      <3>3. Head(rows).fp \in FpsOf(db)
        BY <2>1, <3>2 DEF Index, WriteInv, Storing
      <3> QED BY <2>1, <3>3 DEF Index, WriteInv
    <2> QED BY <2>1 DEF CountStored, CountBySource, CountRejected, XAck, WriteInv
  <1>3. \A c : Raises(c) => WriteInv'
    BY <1>1, <1>2, RaisesWrite
  <1>4. CASE Index /\ ~ \E c : Raises(c)
    <2>1. rows' = Tail(rows) /\ UNCHANGED batch /\ pc = "index"
      BY <1>4 DEF Index
    <2>2. Elems(rows') \subseteq Elems(rows)
      <3>1. rows \in Seq(Row) /\ rows # <<>>
        BY <2>1 DEF TypeInv, TypeOK, ProcessTypeOK, Sane
      <3> QED BY <2>1, <3>1, TailElems
    <2>3. FpsOf(Elems(rows')) \subseteq FpsOf(db)
      <3>1. FpsOf(Elems(rows)) \subseteq FpsOf(db)
        BY <2>1 DEF WriteInv, Storing
      <3> QED BY <2>2, <3>1 DEF FpsOf
    <2> QED BY <1>1, <1>2, <2>1, <2>2, <2>3, WriteStep DEF WriteInv, Contents
  <1>5. CASE ~ Index /\ ~ \E c : Raises(c)
    <2>1. UNCHANGED rows /\ batch' \subseteq batch /\ (pc' \in Storing => pc \in Storing)
      BY <1>5 DEF CountStored, CountBySource, CountRejected, XAck, Returns, locals, Storing
    <2> QED BY <1>1, <1>2, <2>1, WriteStep DEF WriteInv, Contents
  <1> QED BY <1>3, <1>4, <1>5

LEMMA QuietWrite ==
    ASSUME TypeInv, WriteInv,
           Start \/ WarmFromDb \/ MarkWarmed \/ XReadGroupEmpty \/ Reopen \/ Crash
    PROVE  WriteInv'
  <1>1. UNCHANGED <<log, db, fate>> /\ lsh' \subseteq FpsOf(db)
    BY DEF Start, WarmFromDb, MarkWarmed, XReadGroupEmpty, Reopen, Crash, redisVars, WriteInv
  <1>2. CASE \E c : Raises(c)
    BY <1>1, <1>2, RaisesWrite
  <1>3. CASE Crash
    <2>1. batch' = {} /\ Elems(rows') = {} /\ pc' \notin Storing
      BY <1>3, RowSets DEF Crash, Dead, Storing
    <2> QED BY <1>1, <2>1, WriteStep
  <1>4. CASE ~ Crash /\ ~ \E c : Raises(c)
    <2>1. UNCHANGED <<batch, rows>> /\ pc' \notin Storing
      BY <1>4 DEF Start, WarmFromDb, MarkWarmed, XReadGroupEmpty, Reopen, Returns, locals,
         procVars, Storing
    <2> QED BY <1>1, <2>1, WriteStep DEF WriteInv, Contents
  <1> QED BY <1>2, <1>3, <1>4

\* insert_articles before index: an indexed fingerprint belongs to a stored
\* document, whatever calls raise and whenever the process is killed, if a URL
\* stands for one document.
THEOREM IndexBacked == ASSUME StableContent PROVE Spec => []IndexBackedByRows
  <1>1. Init => TypeInv /\ WriteInv
    <2>1. Init => WriteInv
      <3> SUFFICES ASSUME Init PROVE WriteInv
        OBVIOUS
      <3>1. Ids = {} /\ batch = {} /\ Elems(rows) = {} /\ db = Corpus /\ lsh = {} /\ pc \notin Storing
        BY EmptySeq, RowSets DEF Init, Ids, Storing
      <3>2. \A q \in Corpus : q.fp \in ContentOf(q.url)
        BY DEF ContentOf
      <3> QED BY <3>1, <3>2 DEF WriteInv, Contents
    <2> QED BY <2>1, InitTyped
  <1>2. TypeInv /\ WriteInv /\ [Next]_vars => (TypeInv /\ WriteInv)'
    <2> SUFFICES ASSUME TypeInv, WriteInv, [Next]_vars PROVE WriteInv'
      BY NextTyped
    <2>1. CASE UNCHANGED vars
      BY <2>1 DEF WriteInv, Contents, Ids, vars, redisVars, procVars
    <2> QED BY <2>1, PublishWrite, AttemptWrite, InsertWrite, IndexWrite, QuietWrite
        DEF Next, Process
  <1>3. WriteInv => IndexBackedByRows
    BY DEF WriteInv, IndexBackedByRows
  <1> QED BY <1>1, <1>2, <1>3, PTL DEF Spec
-----------------------------------------------------------------------------
(***************************************************************************)
(* The index and the table, while no call raises.  A kill between the      *)
(* commit and the index calls leaves rows that is_duplicate does not find; *)
(* their messages are still pending, and the retry assesses the pending    *)
(* messages again in the same order.  So the message of such a row comes   *)
(* first among those with its content, and the retry lets no other pass.   *)
(***************************************************************************)

\* The stream is never trimmed past a pending entry.
Retained == \A m \in pel : m >= first

\* The order in which phase 3 takes messages.
Before(m, n) ==
    \/ Inline(m) /\ ~ Inline(n)
    \/ (Inline(m) <=> Inline(n)) /\ m <= n

\* m is the first pending message that is sure to have content f.
IsFirstWith(m, f) ==
    \A n \in pel : Steady(log[n].url) /\ f \in ContentOf(log[n].url) => Before(m, n)

Found(r) ==
    \/ IsDuplicate(r.fp)
    \/ \E m \in pel : log[m].url = r.url /\ IsFirstWith(m, r.fp)

\* The content in the stores and in the batch is what its URL stands for.
ContentInv ==
    /\ \A m \in Ids : log[m].body \in Bodies[log[m].url]
    /\ \A r \in db : r.fp \in ContentOf(r.url)
    /\ \A r \in Elems(rows) : r.fp \in ContentOf(r.url)
    /\ \A m \in batch :
          fate[m].kind \in ContentKinds => fate[m].fp \in ContentOf(log[m].url)

WarmInv ==
    /\ pc \notin {"down", "warm", "mark"} => warmed
    /\ pc = "mark" => FpsOf(db) \subseteq lsh
    /\ warmed => \A r \in db : Steady(r.url) => Found(r)

\* How far the attempt at the batch has come.
Missing == {"gone", "unfetched", "parked"}
Verdicts == {"rejected", "dup", "row"}

StageInv ==
    /\ pc = "fetch" => \A m \in batch : fate[m].kind = "read"
    /\ pc = "batch" => \A m \in batch : fate[m].kind \in Missing \cup ContentKinds
    /\ pc \in InBatch \ {"fetch", "batch"} =>
          \A m \in batch : fate[m].kind \in {"gone", "parked"} \cup Verdicts
    /\ pc \in InBatch \ {"fetch"} =>
          \A m \in batch : Steady(log[m].url) => fate[m].kind \notin Missing \cup {"rejected"}
    /\ pc \notin {"batch", "count", "bySource", "index"} => rows = <<>>
    /\ pc \notin InBatch => batch = {}

\* A fingerprint that makes a later message a duplicate is indexed, or will be.
KnownInv ==
    /\ Len(seenHashes) <= SeenMax
    /\ Elems(seenHashes) \subseteq lsh \cup FpsOf(Elems(rows))
    /\ \A m \in batch : fate[m].kind \in {"dup", "row"} =>
          IsDuplicate(fate[m].fp) \/ fate[m].fp \in FpsOf(Elems(rows))

\* The rows assembled are the latest entries of seen_hashes.
WindowInv ==
    /\ Len(rows) = Cardinality(OfKind("row"))
    /\ Len(rows) <= Len(seenHashes)
    /\ \A i \in 1 .. Len(rows) : rows[i].fp = seenHashes[Len(seenHashes) - Len(rows) + i]

\* The messages behind the rows, in the order of assessment.
OrderInv ==
    /\ \A s \in Elems(rows) : \E m \in batch :
          fate[m].kind = "row" /\ log[m].url = s.url /\ fate[m].fp = s.fp
    /\ \A m, n \in batch :
          fate[m].kind \in Verdicts /\ fate[n].kind = "extracted" => Before(m, n)
    /\ \A m, n \in batch :
          fate[m].kind = "row" /\ fate[n].kind \in {"dup", "row"} /\ fate[n].fp = fate[m].fp
             => Before(m, n)

\* No two rows, stored or assembled, have the same content.
UniqueInv ==
    /\ \A s, t \in Elems(rows) : s.fp = t.fp => s = t
    /\ \A s \in Elems(rows), r \in db \ Corpus :
          Steady(s.url) /\ Steady(r.url) /\ r.fp = s.fp => r.url = s.url

SameContentOnce ==
    \A r, s \in db \ Corpus : Steady(r.url) /\ Steady(s.url) /\ r.fp = s.fp => r = s

Assembling == WindowInv /\ OrderInv /\ UniqueInv

Healthy ==
    /\ ContentInv
    /\ WarmInv
    /\ StageInv
    /\ KnownInv
    /\ pc = "batch" => Assembling
    /\ SameContentOnce

IndexInv == faults = 0 => Healthy

\* Elements of a sequence by its first and the rest.
LEMMA HeadElems ==
    ASSUME NEW S, NEW s \in Seq(S), s # <<>>
    PROVE  Elems(s) = {Head(s)} \cup Elems(Tail(s))
  <1>1. Len(s) \in Nat \ {0} /\ Head(s) = s[1]
    BY EmptySeq
  <1>2. Len(Tail(s)) = Len(s) - 1 /\ \A i \in 1 .. Len(Tail(s)) : Tail(s)[i] = s[i + 1]
    BY HeadTailProperties
  <1>3. ASSUME NEW i \in 1 .. Len(s) PROVE s[i] \in {Head(s)} \cup Elems(Tail(s))
    <2>1. CASE i = 1
      BY <1>1, <2>1
    <2>2. CASE i # 1
      <3>1. i - 1 \in 1 .. Len(Tail(s)) /\ Tail(s)[i - 1] = s[i]
        BY <1>1, <1>2, <2>2
      <3> QED BY <3>1 DEF Elems
    <2> QED BY <2>1, <2>2
  <1>4. Elems(s) \subseteq {Head(s)} \cup Elems(Tail(s))
    BY <1>3 DEF Elems
  <1>5. Head(s) \in Elems(s) /\ Elems(Tail(s)) \subseteq Elems(s)
    BY TailElems
  <1> QED BY <1>4, <1>5

LEMMA PelTyped ==
    ASSUME TypeInv
    PROVE  /\ pel \subseteq Ids /\ Ids \subseteq Nat /\ batch \subseteq Ids
           /\ \A m \in Ids : log[m] \in Entry /\ log[m].url \in Urls
           /\ \A r \in db : r.url \in Urls /\ r.fp \in Fps
           /\ \A r \in Elems(rows) : r.url \in Urls /\ r.fp \in Fps
  <1>1. pel \subseteq Ids /\ Ids \subseteq Nat /\ batch \subseteq Ids
    BY DEF TypeInv, TypeOK, RedisTypeOK, ProcessTypeOK, Ids
  <1>2. \A m \in Ids : log[m] \in Entry
    BY ElementOfSeq DEF Ids, TypeInv, TypeOK, RedisTypeOK
  <1>3. db \subseteq Row /\ Elems(rows) \subseteq Row
    <2>1. rows \in Seq(Row) /\ db \subseteq Row
      BY DEF TypeInv, TypeOK, ProcessTypeOK
    <2> QED BY <2>1, ElementOfSeq DEF Elems
  <1> QED BY <1>1, <1>2, <1>3 DEF Entry, Row

\* An exception: nothing more is claimed.
LEMMA RaisesFaults == ASSUME TypeInv, NEW c, Raises(c) PROVE faults' # 0
  BY PendingTyped DEF Raises

\* An indexed fingerprint is found.
LEMMA IndexedFound == ASSUME TypeInv, NEW f \in lsh PROVE IsDuplicate(f)
  <1>1. f \in Fps
    BY DEF TypeInv, TypeOK, RedisTypeOK
  <1> QED BY <1>1, ConstantsAssumption DEF IsDuplicate

\* The index only grows, and the order of pending messages stays.
LEMMA FoundStays ==
    ASSUME UNCHANGED <<log, pel>>, lsh \subseteq lsh', NEW r, Found(r)
    PROVE  Found(r)'
  <1>1. IsDuplicate(r.fp) => IsDuplicate(r.fp)'
    BY DEF IsDuplicate
  <1>2. \A m : IsFirstWith(m, r.fp) => IsFirstWith(m, r.fp)'
    BY DEF IsFirstWith, Before, Inline
  <1> QED BY <1>1, <1>2 DEF Found

\* Steps outside a batch.
LEMMA RestIndex ==
    ASSUME Healthy, UNCHANGED <<log, db>>, batch' = {}, rows' = <<>>, Len(seenHashes') <= SeenMax,
           Elems(seenHashes') \subseteq lsh', pc' \notin InBatch, WarmInv'
    PROVE  Healthy'
  <1>1. Elems(rows') = {}
    BY RowSets
  <1>2. ContentInv'
    BY <1>1 DEF Healthy, ContentInv, Ids
  <1>3. StageInv'
    BY DEF StageInv, InBatch
  <1>4. KnownInv'
    BY <1>1 DEF KnownInv
  <1>5. SameContentOnce' /\ pc' # "batch"
    BY DEF Healthy, SameContentOnce, InBatch
  <1> QED BY <1>2, <1>3, <1>4, <1>5 DEF Healthy

\* The startup, the reconnect loop, and the kills.
LEMMA QuietIndex ==
    ASSUME TypeInv, TypeInv', InHand, Healthy, faults' = 0,
           \/ Start \/ WarmFromDb \/ MarkWarmed \/ XReadGroupEmpty \/ Reopen \/ Crash
           \/ RecoverPending /\ pel = {}
    PROVE  Healthy'
  <1>1. \A c : ~ Raises(c)
    BY RaisesFaults
  <1>2. CASE Crash
    <2>1. /\ UNCHANGED <<log, pel, db, lsh, warmed>> /\ batch' = {} /\ rows' = <<>>
          /\ seenHashes' = <<>> /\ pc' = "down"
      BY <1>2 DEF Crash, Dead, redisVars
    <2>2. Len(seenHashes') <= SeenMax /\ Elems(seenHashes') \subseteq lsh'
      <3>1. SeenMax \in Nat
        BY ConstantsAssumption
      <3>2. Len(seenHashes') = 0 /\ Elems(seenHashes') = {}
        BY <2>1, EmptySeq, RowSets
      <3> QED BY <3>1, <3>2
    <2>3. WarmInv'
      BY <2>1, FoundStays DEF Healthy, WarmInv
    <2> QED BY <2>1, <2>2, <2>3, RestIndex DEF InBatch
  <1>3. CASE ~ Crash
    <2>1. /\ UNCHANGED <<log, pel, db, batch, rows, seenHashes>> /\ lsh \subseteq lsh'
          /\ pc \notin InBatch /\ pc' \notin InBatch
      BY <1>1, <1>3 DEF Start, WarmFromDb, MarkWarmed, XReadGroupEmpty, Reopen, RecoverPending,
         redisVars, procVars, locals, Returns, InBatch
    <2>2. batch' = {} /\ rows' = <<>>
      BY <2>1 DEF Healthy, StageInv, InBatch
    <2>3. Len(seenHashes') <= SeenMax /\ Elems(seenHashes') \subseteq lsh'
      BY <2>1, <2>2, RowSets DEF Healthy, KnownInv
    <2>4. WarmInv'
      <3>1. pc' \notin {"down", "warm", "mark"} => warmed'
        BY <1>1, <1>3 DEF Healthy, WarmInv, Start, WarmFromDb, MarkWarmed, XReadGroupEmpty,
           Reopen, RecoverPending, redisVars, procVars, Returns
      <3>2. pc' = "mark" => FpsOf(db') \subseteq lsh'
        BY <1>1, <1>3, <2>1 DEF Start, WarmFromDb, MarkWarmed, XReadGroupEmpty,
           Reopen, RecoverPending, redisVars, procVars, Returns
      <3>3. CASE warmed' = warmed
        BY <2>1, <3>1, <3>2, <3>3, FoundStays DEF Healthy, WarmInv
      <3>4. CASE warmed' # warmed
        <4>1. FpsOf(db) \subseteq lsh /\ lsh' = lsh
          BY <1>3, <3>4 DEF Healthy, WarmInv, Start, WarmFromDb, MarkWarmed, XReadGroupEmpty,
             Reopen, RecoverPending, redisVars, procVars, Returns
        <4>2. \A r \in db : Found(r)
          BY <4>1, IndexedFound, RowSets DEF Found
        <4> QED BY <2>1, <3>1, <3>2, <4>2, FoundStays DEF WarmInv
      <3> QED BY <3>3, <3>4
    <2> QED BY <2>1, <2>2, <2>3, <2>4, RestIndex
  <1> QED BY <1>2, <1>3

\* Publish appends to the stream; the messages in hand are as they were.
LEMMA PublishIndex ==
    ASSUME TypeInv, InHand, Healthy, NEW u \in Urls, Publish(u) PROVE Healthy'
  <1>0. /\ UNCHANGED <<pel, db, lsh, warmed, pc, batch, rows, seenHashes>>
        /\ fate' = [m \in 1 .. Len(log) + 1 |-> IF m \in Ids THEN fate[m] ELSE NoFate]
    BY DEF Publish, procVars
  <1>1. /\ UNCHANGED <<pel, db, lsh, warmed, pc, batch, rows, seenHashes>> /\ Len(log) \in Nat
        /\ Ids' = Ids \cup {Len(log) + 1} /\ Len(log) + 1 \notin Ids
    BY <1>0 DEF Publish, Ids, TypeInv, TypeOK, RedisTypeOK
  <1>2. PICK b \in Bodies[u] : log' = Append(log, [url |-> u, body |-> b])
    BY DEF Publish
  <1>3. /\ \A m \in Ids : log'[m] = log[m] /\ fate'[m] = fate[m]
        /\ log'[Len(log) + 1] = [url |-> u, body |-> b]
    <2>1. log \in Seq(Entry)
      BY DEF TypeInv, TypeOK, RedisTypeOK
    <2>2. \A m \in Ids : fate'[m] = fate[m]
      BY <1>0, <1>1 DEF Ids
    <2> QED BY <1>1, <1>2, <2>1, <2>2, AppendProperties DEF Ids
  <1>4. pel \subseteq Ids /\ batch \subseteq Ids
    BY PelTyped
  <1>5. \A m, n \in Ids : Before(m, n)' <=> Before(m, n)
    BY <1>3 DEF Before, Inline
  <1>6. ContentInv'
    <2>1. \A m \in Ids' : log'[m].body \in Bodies[log'[m].url]
      BY <1>1, <1>3 DEF Healthy, ContentInv
    <2>2. \A m \in batch :
             fate'[m].kind \in ContentKinds => fate'[m].fp \in ContentOf(log'[m].url)
      BY <1>3, <1>4 DEF Healthy, ContentInv
    <2> QED BY <1>1, <2>1, <2>2 DEF Healthy, ContentInv
  <1>7. WarmInv'
    <2>1. \A f : IsDuplicate(f)' <=> IsDuplicate(f)
      BY <1>1 DEF IsDuplicate
    <2>2. \A m \in Ids : \A f : IsFirstWith(m, f) => IsFirstWith(m, f)'
      BY <1>1, <1>3, <1>4, <1>5 DEF IsFirstWith
    <2>3. \A r : Found(r) => Found(r)'
      BY <1>1, <1>3, <1>4, <2>1, <2>2 DEF Found
    <2> QED BY <1>1, <2>3 DEF Healthy, WarmInv
  <1>8. StageInv'
    BY <1>1, <1>3, <1>4 DEF Healthy, StageInv
  <1>9. KnownInv'
    BY <1>1, <1>3, <1>4 DEF Healthy, KnownInv, IsDuplicate
  <1>10. ASSUME pc = "batch" PROVE Assembling'
    <2>0. WindowInv /\ OrderInv /\ UniqueInv
      BY <1>10 DEF Healthy, Assembling
    <2>1. WindowInv'
      <3>1. OfKind("row")' = OfKind("row")
        BY <1>1, <1>3, <1>4 DEF OfKind
      <3> QED BY <1>1, <2>0, <3>1 DEF WindowInv
    <2>2. OrderInv'
      <3>1. \A m \in batch : m \in Ids /\ fate'[m] = fate[m] /\ log'[m] = log[m]
        BY <1>3, <1>4
      <3>2. \A m, n \in batch : Before(m, n)' <=> Before(m, n)
        BY <1>5, <3>1
      <3> QED BY <1>1, <2>0, <3>1, <3>2 DEF OrderInv
    <2>3. UniqueInv'
      BY <1>1, <2>0 DEF UniqueInv
    <2> QED BY <2>1, <2>2, <2>3 DEF Assembling
  <1>11. SameContentOnce'
    BY <1>1 DEF Healthy, SameContentOnce
  <1> QED BY <1>1, <1>6, <1>7, <1>8, <1>9, <1>10, <1>11 DEF Healthy

\* The batch just read is the pending list, and none of it has been trimmed.
LEMMA ReadIndex ==
    ASSUME TypeInv, TypeInv', InHand, InHand', Healthy, Retained, faults' = 0,
           XReadGroup \/ (RecoverPending /\ pel # {})
    PROVE  Healthy'
  <1>1. \A c : ~ Raises(c)
    BY RaisesFaults
  <1>2. /\ UNCHANGED <<log, first, db, lsh, warmed, rows, seenHashes>>
        /\ pc \in {"idle", "drain"} /\ pc' = "fetch" /\ fate' = Parsed(batch') /\ Ids' = Ids
    BY <1>1 DEF XReadGroup, RecoverPending, Returns, redisVars, Ids
  <1>3. \A m \in batch' : m \in Ids /\ m >= first
    <2>1. CASE XReadGroup
      BY <1>1, <2>1 DEF XReadGroup, Undelivered
    <2>2. CASE RecoverPending /\ pel # {}
      BY <1>1, <2>2, PelTyped DEF RecoverPending, Retained
    <2> QED BY <2>1, <2>2
  <1>4. ASSUME NEW m \in batch' PROVE fate'[m].kind = "read"
    <2>1. first \in Nat /\ m \in Nat /\ m \in Ids
      BY <1>3, PelTyped DEF TypeInv, TypeOK, RedisTypeOK
    <2>2. m >= first
      BY <1>3
    <2>3. fate'[m] = [kind |-> IF m < first THEN "skipped" ELSE "read", fp |-> None]
      BY <1>2, <2>1 DEF Parsed
    <2>4. ~ (m < first)
      BY <2>1, <2>2
    <2> QED BY <2>3, <2>4
  <1>5. rows = <<>> /\ Elems(rows) = {} /\ warmed
    BY <1>2, RowSets DEF Healthy, StageInv, WarmInv
  <1>6. ContentInv'
    BY <1>2, <1>4, <1>5 DEF Healthy, ContentInv, ContentKinds
  <1>7. WarmInv'
    <2>1. CASE XReadGroup
      <3>1. pel = {}
        BY <2>1, ReadInHand
      <3>2. \A r : Found(r) => Found(r)'
        BY <1>2, <3>1 DEF Found, IsDuplicate
      <3> QED BY <1>2, <1>5, <3>2 DEF Healthy, WarmInv
    <2>2. CASE RecoverPending
      BY <1>2, <1>5, <2>2, RecoverInHand, FoundStays DEF Healthy, WarmInv
    <2> QED BY <2>1, <2>2
  <1>8. StageInv'
    BY <1>2, <1>4, <1>5 DEF StageInv, InBatch
  <1>9. KnownInv'
    BY <1>2, <1>4, <1>5 DEF Healthy, KnownInv
  <1>10. SameContentOnce'
    BY <1>2 DEF Healthy, SameContentOnce
  <1> QED BY <1>2, <1>6, <1>7, <1>8, <1>9, <1>10 DEF Healthy

\* Steps within a batch that touch no store but counters and dead letters.
LEMMA StoresKept ==
    ASSUME Healthy, UNCHANGED <<log, pel, db, lsh, warmed>>, pc' \in InBatch, pc \in InBatch
    PROVE  /\ WarmInv' /\ SameContentOnce'
           /\ \A m \in Ids : log'[m].body \in Bodies[log'[m].url]
           /\ \A f : IsDuplicate(f)' <=> IsDuplicate(f)
           /\ \A m, n : Before(m, n)' <=> Before(m, n)
  <1>1. WarmInv'
    BY FoundStays DEF Healthy, WarmInv, InBatch
  <1>2. SameContentOnce' /\ \A m \in Ids : log'[m].body \in Bodies[log'[m].url]
    BY DEF Healthy, SameContentOnce, ContentInv
  <1>3. \A f : IsDuplicate(f)' <=> IsDuplicate(f)
    BY DEF IsDuplicate
  <1>4. \A m, n : Before(m, n)' <=> Before(m, n)
    BY DEF Before, Inline
  <1> QED BY <1>1, <1>2, <1>3, <1>4

\* A page that answers is extracted, and what is extracted is its content.
LEMMA FetchIndex ==
    ASSUME TypeInv, TypeInv', InHand, Healthy, faults' = 0, FetchMany PROVE Healthy'
  <1>1. /\ UNCHANGED <<log, pel, db, lsh, warmed, batch, rows, seenHashes>>
        /\ pc = "fetch" /\ pc' = "batch" /\ Ids' = Ids
        /\ \E got \in [batch -> UNION {Extractions(m) : m \in batch}] :
              /\ \A m \in batch : got[m] \in Extractions(m)
              /\ fate' = [m \in Ids |-> IF m \in batch THEN got[m] ELSE fate[m]]
    BY RaisesFaults DEF FetchMany, Returns, locals, redisVars, Ids
  <1>2. /\ WarmInv' /\ SameContentOnce'
        /\ \A m \in Ids : log'[m].body \in Bodies[log'[m].url]
    BY <1>1, StoresKept DEF InBatch
  <1>3. rows = <<>> /\ Elems(rows) = {} /\ FpsOf(Elems(rows)) = {} /\ batch \subseteq Ids
    BY <1>1, RowSets, PelTyped DEF Healthy, StageInv
  <1>4. ASSUME NEW m \in batch
        PROVE  /\ fate'[m].kind \in {"extracted", "gone", "unfetched"}
               /\ Steady(log[m].url) => fate'[m].kind = "extracted"
               /\ fate'[m].kind = "extracted" => fate'[m].fp \in ContentOf(log[m].url)
    <2>1. fate'[m] \in Extractions(m) /\ fate[m].kind = "read" /\ log[m].url \in Urls
      BY <1>1, <1>3, MessageTyped DEF Healthy, StageInv
    <2>2. CASE Inline(m)
      <3>1. log[m].body \in Bodies[log[m].url] \ {None}
        BY <1>3, <2>2 DEF Inline, Healthy, ContentInv
      <3>2. fate'[m] = [kind |-> "extracted", fp |-> log[m].body]
        BY <2>1, <2>2 DEF Extractions
      <3> QED BY <3>1, <3>2 DEF ContentOf
    <2>3. CASE ~ Inline(m)
      <3>1. \/ fate'[m] \in [kind: {"extracted"}, fp: Pages[log[m].url]]
            \/ fate'[m] \in [kind: Misses[log[m].url], fp: {None}]
        BY <2>1, <2>3 DEF Extractions
      <3>2. Misses[log[m].url] \subseteq MissKinds
        BY <2>1, ConstantsAssumption
      <3> QED BY <3>1, <3>2 DEF ContentOf, MissKinds, Steady
    <2> QED BY <2>2, <2>3
  <1>5. ContentInv'
    BY <1>1, <1>2, <1>3, <1>4 DEF Healthy, ContentInv, ContentKinds
  <1>6. StageInv'
    BY <1>1, <1>4 DEF StageInv, InBatch, Missing, ContentKinds
  <1>7. KnownInv'
    BY <1>1, <1>3, <1>4 DEF Healthy, KnownInv
  <1>8. WindowInv'
    <2>1. OfKind("row")' = {}
      BY <1>1, <1>4 DEF OfKind
    <2>2. Len(rows') = 0 /\ Cardinality(OfKind("row")') = 0
      BY <1>1, <1>3, <2>1, FS_EmptySet, EmptySeq
    <2>3. Len(seenHashes') \in Nat
      BY DEF TypeInv, TypeOK, ProcessTypeOK
    <2> QED BY <2>2, <2>3 DEF WindowInv
  <1>9. OrderInv' /\ UniqueInv'
    BY <1>1, <1>3, <1>4 DEF OrderInv, UniqueInv, Verdicts
  <1> QED BY <1>2, <1>5, <1>6, <1>7, <1>8, <1>9 DEF Healthy, Assembling

\* Parking a message changes nothing else.
LEMMA PushIndex ==
    ASSUME TypeInv, TypeInv', InHand, Healthy, PushDlq PROVE Healthy'
  <1>1. PICK m \in OfKind("unfetched") : fate' = [fate EXCEPT ![m].kind = "parked"]
    BY DEF PushDlq
  <1>2. /\ UNCHANGED <<log, pel, db, lsh, warmed, pc, batch, rows, seenHashes>>
        /\ pc = "batch" /\ Ids' = Ids
    BY DEF PushDlq, procVars, Ids
  <1>3. /\ WarmInv' /\ SameContentOnce'
        /\ \A n \in Ids : log'[n].body \in Bodies[log'[n].url]
        /\ \A f : IsDuplicate(f)' <=> IsDuplicate(f)
        /\ \A n, k : Before(n, k)' <=> Before(n, k)
    BY <1>2, StoresKept DEF InBatch
  <1>4. /\ m \in batch /\ fate[m].kind = "unfetched" /\ fate'[m].kind = "parked"
        /\ \A n \in batch : n # m => fate'[n] = fate[n]
    <2>1. m \in batch /\ fate[m].kind = "unfetched" /\ batch \subseteq Ids
      BY PelTyped DEF OfKind
    <2>2. \A n \in Ids : fate'[n] = IF n = m THEN [kind |-> "parked", fp |-> fate[m].fp]
                                            ELSE fate[n]
      BY <1>1, <2>1, FateKindTyped DEF BareKinds
    <2> QED BY <2>1, <2>2
  <1>5. ContentInv'
    BY <1>2, <1>3, <1>4 DEF Healthy, ContentInv, ContentKinds
  <1>6. StageInv'
    <2>1. /\ \A n \in batch : fate[n].kind \in Missing \cup ContentKinds
          /\ \A n \in batch :
                Steady(log[n].url) => fate[n].kind \notin Missing \cup {"rejected"}
      BY <1>2 DEF Healthy, StageInv, InBatch
    <2>2. ~ Steady(log[m].url)
      BY <1>4, <2>1 DEF Missing
    <2>3. \A n \in batch : fate'[n].kind \in Missing \cup ContentKinds
      BY <1>4, <2>1 DEF Missing
    <2>4. \A n \in batch : Steady(log[n].url) => fate'[n].kind \notin Missing \cup {"rejected"}
      BY <1>4, <2>1, <2>2
    <2> QED BY <1>2, <2>3, <2>4 DEF StageInv, InBatch
  <1>7. KnownInv'
    BY <1>2, <1>3, <1>4 DEF Healthy, KnownInv
  <1>8. WindowInv'
    <2>1. OfKind("row")' = OfKind("row")
      BY <1>2, <1>4 DEF OfKind
    <2> QED BY <1>2, <2>1 DEF Healthy, Assembling, WindowInv
  <1>9. OrderInv'
    <2>1. OrderInv
      BY <1>2 DEF Healthy, Assembling
    <2>2. \A n \in batch : fate'[n].kind \in ContentKinds => fate'[n] = fate[n] /\ n # m
      BY <1>4 DEF ContentKinds
    <2>3. \A n \in batch : fate[n].kind = "row" => fate'[n] = fate[n]
      BY <1>4
    <2> QED BY <1>2, <1>3, <2>1, <2>2, <2>3 DEF OrderInv, Verdicts, ContentKinds
  <1>10. UniqueInv'
    BY <1>2 DEF Healthy, Assembling, UniqueInv
  <1> QED BY <1>3, <1>5, <1>6, <1>7, <1>8, <1>9, <1>10 DEF Healthy, Assembling

LEMMA Judged ==
    ASSUME TypeInv, NEW m, NextToAssess(m), NEW k \in Verdicts,
           fate' = [fate EXCEPT ![m].kind = k]
    PROVE  /\ m \in batch /\ m \in Nat /\ fate[m].kind = "extracted" /\ fate[m].fp \in Fps
           /\ fate'[m].kind = k /\ fate'[m].fp = fate[m].fp
           /\ \A n \in batch : n # m => fate'[n] = fate[n]
           /\ \A n \in batch : fate[n].kind = "extracted" => Before(m, n)
  <1>1. m \in batch /\ fate[m].kind = "extracted" /\ batch \subseteq Ids /\ m \in Nat
    BY PelTyped DEF NextToAssess, OfKind
  <1>2. \A n \in Ids : fate'[n] = IF n = m THEN [kind |-> k, fp |-> fate[m].fp] ELSE fate[n]
    BY <1>1, FateKindTyped DEF ContentKinds, Verdicts
  <1>3. \A n \in batch : fate[n].kind = "extracted" => Before(m, n)
    BY DEF NextToAssess, OfKind, Before
  <1>4. fate[m].fp \in Fps
    BY <1>1, MessageTyped DEF ContentKinds
  <1> QED BY <1>1, <1>2, <1>3, <1>4

\* What a verdict leaves alone, whatever it is.
LEMMA JudgedIndex ==
    ASSUME TypeInv, Healthy, NEW m, NextToAssess(m), NEW k \in Verdicts,
           fate' = [fate EXCEPT ![m].kind = k], pc = "batch", pc' = "batch",
           UNCHANGED <<log, pel, db, lsh, warmed, batch>>,
           k = "rejected" => ~ Steady(log[m].url)
    PROVE  /\ WarmInv' /\ SameContentOnce' /\ StageInv'
           /\ \A n \in Ids' : log'[n].body \in Bodies[log'[n].url]
           /\ \A n \in batch' :
                 fate'[n].kind \in ContentKinds => fate'[n].fp \in ContentOf(log'[n].url)
           /\ \A n, l \in batch' : fate'[n].kind \in Verdicts /\ fate'[l].kind = "extracted"
                 => Before(n, l)'
           /\ \A f : IsDuplicate(f)' <=> IsDuplicate(f)
           /\ \A n, l : Before(n, l)' <=> Before(n, l)
  <1>1. /\ WarmInv' /\ SameContentOnce'
        /\ \A n \in Ids : log'[n].body \in Bodies[log'[n].url]
        /\ \A f : IsDuplicate(f)' <=> IsDuplicate(f)
        /\ \A n, l : Before(n, l)' <=> Before(n, l)
    BY StoresKept DEF InBatch
  <1>2. /\ m \in batch /\ fate[m].kind = "extracted"
        /\ fate'[m].kind = k /\ fate'[m].fp = fate[m].fp
        /\ \A n \in batch : n # m => fate'[n] = fate[n]
        /\ \A n \in batch : fate[n].kind = "extracted" => Before(m, n)
    BY Judged
  <1>3. StageInv'
    <2>1. /\ \A n \in batch : fate[n].kind \in Missing \cup ContentKinds
          /\ \A n \in batch :
                Steady(log[n].url) => fate[n].kind \notin Missing \cup {"rejected"}
      BY DEF Healthy, StageInv, InBatch
    <2>2. \A n \in batch : fate'[n].kind \in Missing \cup ContentKinds
      BY <1>2, <2>1 DEF Verdicts, ContentKinds
    <2>3. \A n \in batch : Steady(log[n].url) => fate'[n].kind \notin Missing \cup {"rejected"}
      BY <1>2, <2>1 DEF Verdicts, Missing
    <2> QED BY <2>2, <2>3 DEF StageInv, InBatch
  <1>4. \A n \in batch : fate'[n].kind \in ContentKinds => fate'[n].fp \in ContentOf(log[n].url)
    <2>1. \A n \in batch : fate[n].kind \in ContentKinds => fate[n].fp \in ContentOf(log[n].url)
      BY DEF Healthy, ContentInv
    <2> QED BY <1>2, <2>1 DEF ContentKinds
  <1>5. \A n, l \in batch : fate'[n].kind \in Verdicts /\ fate'[l].kind = "extracted"
           => Before(n, l)
    <2>1. \A n, l \in batch :
             fate[n].kind \in Verdicts /\ fate[l].kind = "extracted" => Before(n, l)
      BY DEF Healthy, Assembling, OrderInv
    <2>2. \A l \in batch : fate'[l].kind = "extracted" => l # m /\ fate[l].kind = "extracted"
      BY <1>2 DEF Verdicts
    <2> QED BY <1>2, <2>1, <2>2
  <1> QED BY <1>1, <1>3, <1>4, <1>5 DEF Ids

\* A document that is rejected or known adds no row.
LEMMA DropIndex ==
    ASSUME TypeInv, TypeInv', InHand, Healthy, NEW m, NextToAssess(m),
           Reject(m) \/ DropDuplicate(m), pc = "batch", pc' = "batch",
           UNCHANGED <<log, pel, db, lsh, warmed>>
    PROVE  Healthy'
  <1>1. PICK k \in {"rejected", "dup"} :
          /\ fate' = [fate EXCEPT ![m].kind = k]
          /\ k = "rejected" => "reject" \in Gate[fate[m].fp]
          /\ k = "dup" => Known(fate[m].fp)
    BY DEF Reject, DropDuplicate
  <1>2. k \in Verdicts /\ UNCHANGED <<batch, rows, seenHashes>>
    BY DEF Verdicts, Reject, DropDuplicate, locals
  <1>3. /\ m \in batch /\ fate[m].kind = "extracted" /\ fate[m].fp \in Fps
        /\ fate'[m].kind = k /\ fate'[m].fp = fate[m].fp
        /\ \A n \in batch : n # m => fate'[n] = fate[n]
    BY <1>1, <1>2, Judged
  <1>4. k = "rejected" => ~ Steady(log[m].url)
    <2>1. fate[m].fp \in ContentOf(log[m].url)
      BY <1>3 DEF Healthy, ContentInv, ContentKinds
    <2> QED BY <1>1, <2>1 DEF Steady
  <1>5. /\ WarmInv' /\ SameContentOnce' /\ StageInv'
        /\ \A n \in Ids' : log'[n].body \in Bodies[log'[n].url]
        /\ \A n \in batch' :
              fate'[n].kind \in ContentKinds => fate'[n].fp \in ContentOf(log'[n].url)
        /\ \A n, l \in batch' : fate'[n].kind \in Verdicts /\ fate'[l].kind = "extracted"
              => Before(n, l)'
        /\ \A f : IsDuplicate(f)' <=> IsDuplicate(f)
        /\ \A n, l : Before(n, l)' <=> Before(n, l)
    BY <1>1, <1>2, <1>4, JudgedIndex
  <1>6. ContentInv'
    BY <1>2, <1>5 DEF Healthy, ContentInv
  <1>7. KnownInv'
    <2>1. k = "dup" => IsDuplicate(fate[m].fp) \/ fate[m].fp \in FpsOf(Elems(rows))
      BY <1>1, IndexedFound DEF Healthy, KnownInv, Known
    <2>2. \A n \in batch : fate'[n].kind \in {"dup", "row"} =>
             IsDuplicate(fate'[n].fp) \/ fate'[n].fp \in FpsOf(Elems(rows))
      BY <1>3, <2>1 DEF Healthy, KnownInv
    <2> QED BY <1>2, <1>5, <2>2 DEF Healthy, KnownInv
  <1>8. WindowInv'
    <2>1. OfKind("row")' = OfKind("row")
      BY <1>2, <1>3 DEF OfKind
    <2> QED BY <1>2, <2>1 DEF Healthy, Assembling, WindowInv
  <1>9. OrderInv'
    <2>1. OrderInv
      BY DEF Healthy, Assembling
    <2>2. \A n \in batch : fate[n].kind = "row" => fate'[n] = fate[n]
      BY <1>3
    <2>3. \A n \in batch : fate'[n].kind = "row" => fate'[n] = fate[n]
      BY <1>3
    <2>4. \A n \in batch : fate[n].kind = "row" => Before(n, m)
      BY <1>3, <2>1 DEF OrderInv, Verdicts
    <2>5. \A n, l \in batch :
             fate'[n].kind = "row" /\ fate'[l].kind \in {"dup", "row"} /\ fate'[l].fp = fate'[n].fp
                => Before(n, l)
      BY <1>3, <2>1, <2>3, <2>4 DEF OrderInv
    <2> QED BY <1>2, <1>5, <2>1, <2>2, <2>5 DEF OrderInv
  <1>10. UniqueInv'
    BY <1>2 DEF Healthy, Assembling, UniqueInv
  <1> QED BY <1>5, <1>6, <1>7, <1>8, <1>9, <1>10 DEF Healthy, Assembling

\* While a batch is assembled the deque holds the fingerprints of its rows.
LEMMA RowsKnown ==
    ASSUME TypeInv, WindowInv, NEW f \in FpsOf(Elems(rows)) PROVE Known(f)
  <1>1. /\ rows \in Seq(Row) /\ seenHashes \in Seq(Fps)
        /\ Len(rows) \in Nat /\ Len(seenHashes) \in Nat
    BY DEF TypeInv, TypeOK, ProcessTypeOK
  <1>2. PICK i \in 1 .. Len(rows) : rows[i].fp = f
    BY DEF FpsOf, Elems
  <1>3. Len(seenHashes) - Len(rows) + i \in 1 .. Len(seenHashes)
    BY <1>1 DEF WindowInv
  <1> QED BY <1>2, <1>3 DEF WindowInv, Known, Elems

\* The deque is long enough for a batch, so a new row pushes out none of it.
LEMMA WindowMoves ==
    ASSUME TypeInv, InHand, pc = "batch", WindowInv, KnownInv, BatchSize <= SeenMax,
           NEW m \in batch, fate[m].kind = "extracted", NEW r \in Row, NEW f \in Fps, r.fp = f,
           rows' = Append(rows, r), seenHashes' = AppendBounded(seenHashes, f),
           OfKind("row")' = OfKind("row") \cup {m}
    PROVE  WindowInv' /\ Len(seenHashes') <= SeenMax
  <1>1. /\ rows \in Seq(Row) /\ seenHashes \in Seq(Fps)
        /\ Len(rows) \in Nat /\ Len(seenHashes) \in Nat
    BY DEF TypeInv, TypeOK, ProcessTypeOK
  <1>2. BatchSize \in Nat /\ SeenMax \in Nat \ {0}
    BY ConstantsAssumption
  <1>3. /\ Len(rows) = Cardinality(OfKind("row")) /\ Len(rows) <= Len(seenHashes)
        /\ Len(seenHashes) <= SeenMax
    BY DEF WindowInv, KnownInv
  <1>4. Len(rows) + 1 = Cardinality(OfKind("row") \cup {m}) /\ Len(rows) + 1 <= SeenMax
    <2>1. IsFiniteSet(batch) /\ Cardinality(batch) <= BatchSize /\ Cardinality(batch) \in Nat
      <3>1. batch = pel /\ last \in Nat /\ batch \subseteq 1 .. last
        BY PendingTyped DEF InHand, InBatch
      <3> QED BY <3>1, IdsFinite DEF InHand
    <2>2. OfKind("row") \cup {m} \subseteq batch /\ m \notin OfKind("row")
      BY DEF OfKind
    <2>3. IsFiniteSet(OfKind("row"))
      BY <2>1, <2>2, FS_Subset
    <2>4. Cardinality(OfKind("row") \cup {m}) = Cardinality(OfKind("row")) + 1
      BY <2>2, <2>3, FS_AddElement
    <2>5. Cardinality(OfKind("row") \cup {m}) <= Cardinality(batch)
      BY <2>1, <2>2, FS_Subset
    <2> QED BY <1>1, <1>2, <1>3, <2>1, <2>4, <2>5
  <1>5. /\ Len(rows') = Len(rows) + 1 /\ rows'[Len(rows) + 1].fp = f
        /\ \A i \in 1 .. Len(rows) : rows'[i] = rows[i]
    BY <1>1, AppendProperties
  <1>6. CASE Len(seenHashes) < SeenMax
    <2>1. seenHashes' = Append(seenHashes, f)
      BY <1>6 DEF AppendBounded
    <2>2. /\ Len(seenHashes') = Len(seenHashes) + 1 /\ seenHashes'[Len(seenHashes) + 1] = f
          /\ \A i \in 1 .. Len(seenHashes) : seenHashes'[i] = seenHashes[i]
      BY <1>1, <2>1, AppendProperties
    <2>3. ASSUME NEW i \in 1 .. Len(rows')
          PROVE  rows'[i].fp = seenHashes'[Len(seenHashes') - Len(rows') + i]
      <3>1. Len(seenHashes') - Len(rows') + i = Len(seenHashes) - Len(rows) + i
        BY <1>1, <1>5, <2>2
      <3>2. CASE i = Len(rows) + 1
        <4>1. Len(seenHashes) - Len(rows) + i = Len(seenHashes) + 1
          BY <1>1, <3>2
        <4> QED BY <1>5, <2>2, <3>1, <3>2, <4>1
      <3>3. CASE i # Len(rows) + 1
        <4>1. i \in 1 .. Len(rows) /\ Len(seenHashes) - Len(rows) + i \in 1 .. Len(seenHashes)
          BY <1>1, <1>3, <1>5, <3>3
        <4> QED BY <1>5, <2>2, <3>1, <4>1 DEF WindowInv
      <3> QED BY <3>2, <3>3
    <2>4. Len(seenHashes') <= SeenMax /\ Len(rows') <= Len(seenHashes')
      BY <1>1, <1>2, <1>3, <1>5, <1>6, <2>2
    <2> QED BY <1>4, <1>5, <2>3, <2>4 DEF WindowInv
  <1>7. CASE ~ (Len(seenHashes) < SeenMax)
    <2>0. Len(seenHashes) = SeenMax /\ seenHashes # <<>>
      BY <1>1, <1>2, <1>3, <1>7, EmptySeq
    <2>1. /\ seenHashes' = Append(Tail(seenHashes), f) /\ Tail(seenHashes) \in Seq(Fps)
          /\ Len(Tail(seenHashes)) = Len(seenHashes) - 1
          /\ \A i \in 1 .. Len(Tail(seenHashes)) : Tail(seenHashes)[i] = seenHashes[i + 1]
      BY <1>1, <1>7, <2>0, HeadTailProperties DEF AppendBounded
    <2>2. /\ Len(seenHashes') = SeenMax /\ seenHashes'[SeenMax] = f
          /\ \A i \in 1 .. (SeenMax - 1) : seenHashes'[i] = seenHashes[i + 1]
      <3>1. /\ Len(seenHashes') = Len(Tail(seenHashes)) + 1
            /\ seenHashes'[Len(Tail(seenHashes)) + 1] = f
            /\ \A i \in 1 .. Len(Tail(seenHashes)) : seenHashes'[i] = Tail(seenHashes)[i]
        BY <2>1, AppendProperties
      <3>2. Len(Tail(seenHashes)) = SeenMax - 1 /\ SeenMax - 1 + 1 = SeenMax
        BY <1>2, <2>0, <2>1
      <3> QED BY <2>1, <3>1, <3>2
    <2>3. ASSUME NEW i \in 1 .. Len(rows')
          PROVE  rows'[i].fp = seenHashes'[Len(seenHashes') - Len(rows') + i]
      <3>1. CASE i = Len(rows) + 1
        <4>1. Len(seenHashes') - Len(rows') + i = SeenMax
          BY <1>1, <1>2, <1>5, <2>2, <3>1
        <4> QED BY <1>5, <2>2, <3>1, <4>1
      <3>2. CASE i # Len(rows) + 1
        <4>1. i \in 1 .. Len(rows)
          BY <1>1, <1>5, <3>2
        <4> DEFINE j == Len(seenHashes') - Len(rows') + i
        <4>2. j \in 1 .. (SeenMax - 1) /\ j + 1 = Len(seenHashes) - Len(rows) + i
          BY <1>1, <1>2, <1>4, <1>5, <2>0, <2>2, <4>1
        <4>3. seenHashes'[j] = seenHashes[j + 1]
          BY <2>2, <4>2
        <4> QED BY <1>5, <4>1, <4>2, <4>3 DEF WindowInv
      <3> QED BY <3>1, <3>2
    <2>4. Len(seenHashes') <= SeenMax /\ Len(rows') <= Len(seenHashes')
      BY <1>1, <1>2, <1>4, <1>5, <2>2
    <2> QED BY <1>4, <1>5, <2>3, <2>4 DEF WindowInv
  <1> QED BY <1>6, <1>7

\* In a batch under assessment, a pending message sure to have content f has
\* been found to have it or is yet to be assessed.
LEMMA SteadyContent ==
    ASSUME TypeInv, InHand, Healthy, StableContent, pc \in InBatch \ {"fetch"},
           NEW n \in pel, Steady(log[n].url), NEW f \in ContentOf(log[n].url)
    PROVE  /\ n \in batch /\ fate[n].fp = f
           /\ fate[n].kind \in {"dup", "row"} \/ (pc = "batch" /\ fate[n].kind = "extracted")
  <1>1. n \in batch /\ log[n].url \in Urls
    BY PelTyped DEF InHand
  <1>2. fate[n].kind \in {"dup", "row"} \/ (pc = "batch" /\ fate[n].kind = "extracted")
    BY <1>1 DEF Healthy, StageInv, Missing, ContentKinds, Verdicts, InBatch
  <1>3. fate[n].fp \in ContentOf(log[n].url)
    BY <1>1, <1>2 DEF Healthy, ContentInv, ContentKinds
  <1> QED BY <1>1, <1>2, <1>3 DEF StableContent

\* A document that is new: no message before it in this batch has its content,
\* and a row stored with it by an attempt that was killed is its own.
LEMMA AddIndex ==
    ASSUME TypeInv, TypeInv', InHand, Healthy, StableContent, BatchSize <= SeenMax,
           NEW m, NextToAssess(m), AddRow(m), pc = "batch", pc' = "batch",
           UNCHANGED <<log, pel, db, lsh, warmed>>
    PROVE  Healthy'
  <1> DEFINE f == fate[m].fp
             r == [url |-> log[m].url, fp |-> fate[m].fp]
  <1>1. /\ fate' = [fate EXCEPT ![m].kind = "row"] /\ ~ Known(f)
        /\ rows' = Append(rows, r) /\ seenHashes' = AppendBounded(seenHashes, f)
        /\ UNCHANGED batch
    BY DEF AddRow
  <1>2. /\ m \in batch /\ m \in Nat /\ fate[m].kind = "extracted" /\ f \in Fps
        /\ fate'[m].kind = "row" /\ fate'[m].fp = f
        /\ \A n \in batch : n # m => fate'[n] = fate[n]
        /\ \A n \in batch : fate[n].kind = "extracted" => Before(m, n)
    BY <1>1, Judged DEF Verdicts
  <1>3. /\ WarmInv' /\ SameContentOnce' /\ StageInv'
        /\ \A n \in Ids' : log'[n].body \in Bodies[log'[n].url]
        /\ \A n \in batch' :
              fate'[n].kind \in ContentKinds => fate'[n].fp \in ContentOf(log'[n].url)
        /\ \A n, l \in batch' : fate'[n].kind \in Verdicts /\ fate'[l].kind = "extracted"
              => Before(n, l)'
        /\ \A g : IsDuplicate(g)' <=> IsDuplicate(g)
        /\ \A n, l : Before(n, l)' <=> Before(n, l)
    BY <1>1, JudgedIndex DEF Verdicts
  <1>4. /\ log[m].url \in Urls /\ r \in Row /\ r.fp = f /\ r.url = log[m].url
        /\ f \in ContentOf(log[m].url)
    BY <1>2, MessageTyped DEF Row, Healthy, ContentInv, ContentKinds
  <1>5. /\ Elems(rows') = Elems(rows) \cup {r}
        /\ FpsOf(Elems(rows')) = FpsOf(Elems(rows)) \cup {f}
    <2>1. Elems(rows') = Elems(rows) \cup {r}
      BY <1>1, <1>4, AppendElems DEF TypeInv, TypeOK, ProcessTypeOK
    <2> HIDE DEF f, r
    <2>2. FpsOf({r}) = {f}
      BY <1>4 DEF FpsOf
    <2>3. FpsOf(Elems(rows) \cup {r}) = FpsOf(Elems(rows)) \cup FpsOf({r})
      BY RowSets
    <2> QED BY <2>1, <2>2, <2>3
  <1>6. WindowInv /\ OrderInv /\ UniqueInv /\ KnownInv
    BY DEF Healthy, Assembling
  <1> HIDE DEF f, r
  <1>7. f \notin FpsOf(Elems(rows)) /\ ~ IsDuplicate(f)
    BY <1>1, <1>6, RowsKnown DEF Known
  <1>8. ContentInv'
    BY <1>3, <1>4, <1>5 DEF Healthy, ContentInv
  <1>9. WindowInv' /\ Len(seenHashes') <= SeenMax
    <2>1. OfKind("row")' = OfKind("row") \cup {m}
      BY <1>1, <1>2 DEF OfKind
    <2> QED BY <1>1, <1>2, <1>4, <1>6, <2>1, WindowMoves
  <1>10. KnownInv'
    <2>1. Elems(seenHashes') \subseteq Elems(seenHashes) \cup {f}
      BY <1>1, <1>2, DequeAppend DEF TypeInv, TypeOK, ProcessTypeOK
    <2>2. Elems(seenHashes') \subseteq lsh' \cup FpsOf(Elems(rows'))
      BY <1>5, <1>6, <2>1 DEF KnownInv
    <2>3. \A n \in batch : fate'[n].kind \in {"dup", "row"} =>
             IsDuplicate(fate'[n].fp) \/ fate'[n].fp \in FpsOf(Elems(rows'))
      BY <1>2, <1>5, <1>6 DEF KnownInv
    <2> QED BY <1>1, <1>3, <1>9, <2>2, <2>3 DEF KnownInv
  <1>11. OrderInv'
    <2>1. \A s \in Elems(rows') : \E n \in batch :
             fate'[n].kind = "row" /\ log[n].url = s.url /\ fate'[n].fp = s.fp
      <3>1. \A s \in Elems(rows) : \E n \in batch :
               n # m /\ fate[n].kind = "row" /\ log[n].url = s.url /\ fate[n].fp = s.fp
        BY <1>2, <1>6 DEF OrderInv
      <3> QED BY <1>2, <1>4, <1>5, <3>1
    <2>2. ASSUME NEW n \in batch, NEW l \in batch, fate'[n].kind = "row",
                 fate'[l].kind \in {"dup", "row"}, fate'[l].fp = fate'[n].fp
          PROVE  Before(n, l)
      <3>1. CASE n = m /\ l = m
        BY <1>2, <3>1 DEF Before
      <3>2. CASE n = m /\ l # m
        <4>1. fate[l].kind \in {"dup", "row"} /\ fate[l].fp = f
          BY <1>2, <2>2, <3>2
        <4> QED BY <1>6, <1>7, <4>1 DEF KnownInv
      <3>3. CASE n # m /\ l = m
        BY <1>2, <1>6, <2>2, <3>3 DEF OrderInv, Verdicts
      <3>4. CASE n # m /\ l # m
        BY <1>2, <1>6, <2>2, <3>4 DEF OrderInv
      <3> QED BY <3>1, <3>2, <3>3, <3>4
    <2> QED BY <1>1, <1>3, <2>1, <2>2 DEF OrderInv
  <1>12. UniqueInv'
    <2>1. \A s, t \in Elems(rows') : s.fp = t.fp => s = t
      <3>1. \A s \in Elems(rows) : s.fp # f
        BY <1>7 DEF FpsOf
      <3> QED BY <1>4, <1>5, <1>6, <3>1 DEF UniqueInv
    <2>2. ASSUME NEW q \in db \ Corpus, Steady(log[m].url), Steady(q.url), q.fp = f
          PROVE  q.url = log[m].url
      <3>1. Found(q)
        BY <2>2 DEF Healthy, WarmInv
      <3>2. PICK n \in pel : log[n].url = q.url /\ IsFirstWith(n, f)
        BY <1>7, <2>2, <3>1 DEF Found
      <3>3. Before(n, m)
        <4>1. m \in pel
          BY <1>2 DEF InHand, InBatch
        <4> QED BY <1>4, <2>2, <3>2, <4>1 DEF IsFirstWith
      <3>4. n \in batch /\ fate[n].fp = f /\ fate[n].kind \in {"dup", "row", "extracted"}
        <4>1. f \in ContentOf(log[n].url) /\ Steady(log[n].url)
          BY <2>2, <3>2 DEF Healthy, ContentInv
        <4> QED BY <4>1, SteadyContent DEF InBatch
      <3>5. fate[n].kind = "extracted"
        BY <1>6, <1>7, <3>4 DEF KnownInv
      <3>6. Before(m, n)
        BY <1>2, <3>4, <3>5
      <3>7. m = n
        <4>1. n \in Nat
          BY PelTyped
        <4> QED BY <1>2, <3>3, <3>6, <4>1 DEF Before
      <3> QED BY <3>2, <3>7
    <2>3. \A s \in Elems(rows'), q \in db \ Corpus :
             Steady(s.url) /\ Steady(q.url) /\ q.fp = s.fp => q.url = s.url
      BY <1>4, <1>5, <1>6, <2>2 DEF UniqueInv
    <2> QED BY <2>1, <2>3 DEF UniqueInv
  <1> QED BY <1>3, <1>8, <1>9, <1>10, <1>11, <1>12 DEF Healthy, Assembling

LEMMA AssessIndex ==
    ASSUME TypeInv, TypeInv', InHand, Healthy, StableContent, BatchSize <= SeenMax,
           faults' = 0, Assess
    PROVE  Healthy'
  <1>1. PICK m : /\ NextToAssess(m) /\ pc' = "batch"
                 /\ Reject(m) \/ DropDuplicate(m) \/ AddRow(m)
    BY RaisesFaults DEF Assess, Returns
  <1>2. UNCHANGED <<log, pel, db, lsh, warmed>> /\ pc = "batch"
    BY DEF Assess, redisVars
  <1>3. CASE Reject(m) \/ DropDuplicate(m)
    BY <1>1, <1>2, <1>3, DropIndex
  <1>4. CASE AddRow(m)
    BY <1>1, <1>2, <1>4, AddIndex
  <1> QED BY <1>1, <1>3, <1>4

\* The insert stores rows whose messages come first among those with their
\* content, and no content that is stored already.
LEMMA InsertIndex ==
    ASSUME TypeInv, TypeInv', InHand, Healthy, StableContent, faults' = 0, InsertArticles
    PROVE  Healthy'
  <1>1. /\ UNCHANGED <<log, pel, lsh, warmed, batch, rows, seenHashes, fate>> /\ Ids' = Ids
        /\ pc = "batch" /\ Assessed /\ db' = db \cup NewRows(rows) /\ pc' \in {"index", "count"}
    BY RaisesFaults DEF InsertArticles, Returns, redisVars, Ids
  <1>2. WindowInv /\ OrderInv /\ UniqueInv /\ ContentInv
    BY <1>1 DEF Healthy, Assembling
  <1>3. NewRows(rows) \subseteq Elems(rows) /\ \A s \in NewRows(rows) : s.url \notin UrlsOf(db)
    BY DEF NewRows, Fresh, Elems
  <1>4. ContentInv'
    BY <1>1, <1>2, <1>3 DEF ContentInv
  <1>5. WarmInv'
    <2>1. ASSUME NEW s \in NewRows(rows) PROVE Found(s)
      <3>1. PICK m \in batch : fate[m].kind = "row" /\ log[m].url = s.url /\ fate[m].fp = s.fp
        BY <1>2, <1>3 DEF OrderInv
      <3>2. ASSUME NEW n \in pel, Steady(log[n].url), s.fp \in ContentOf(log[n].url)
            PROVE  Before(m, n)
        <4>1. n \in batch /\ fate[n].fp = s.fp /\ fate[n].kind \in {"dup", "row", "extracted"}
          BY <1>1, <3>2, SteadyContent DEF InBatch
        <4>2. fate[n].kind # "extracted"
          BY <1>1, <4>1 DEF Assessed, OfKind
        <4> QED BY <1>2, <3>1, <4>1, <4>2 DEF OrderInv
      <3>3. m \in pel
        BY PendingTyped
      <3> QED BY <3>1, <3>2, <3>3 DEF Found, IsFirstWith
    <2>2. \A q \in db' : Steady(q.url) => Found(q)
      BY <1>1, <2>1 DEF Healthy, WarmInv
    <2> QED BY <1>1, <2>2, FoundStays DEF Healthy, WarmInv
  <1>6. StageInv'
    <2>1. \A m \in batch : fate[m].kind \in {"gone", "parked"} \cup Verdicts
      BY <1>1 DEF Healthy, StageInv, Assessed, OfKind, Missing, ContentKinds, Verdicts
    <2> QED BY <1>1, <2>1 DEF Healthy, StageInv, InBatch
  <1>7. KnownInv'
    BY <1>1 DEF Healthy, KnownInv, IsDuplicate
  <1>8. SameContentOnce'
    <2> SUFFICES ASSUME NEW q \in db' \ Corpus, NEW s \in db' \ Corpus,
                        Steady(q.url), Steady(s.url), q.fp = s.fp
                 PROVE  q = s
      BY DEF SameContentOnce
    <2>1. CASE q \in db /\ s \in db
      BY <2>1 DEF Healthy, SameContentOnce
    <2>2. CASE q \in NewRows(rows) /\ s \in NewRows(rows)
      BY <1>2, <1>3, <2>2 DEF UniqueInv
    <2>3. CASE q \in db /\ s \in NewRows(rows)
      <3>1. q.url = s.url
        BY <1>2, <1>3, <2>3 DEF UniqueInv
      <3> QED BY <1>3, <2>3, <3>1 DEF UrlsOf
    <2>4. CASE s \in db /\ q \in NewRows(rows)
      <3>1. s.url = q.url
        BY <1>2, <1>3, <2>4 DEF UniqueInv
      <3> QED BY <1>3, <2>4, <3>1 DEF UrlsOf
    <2> QED BY <1>1, <2>1, <2>2, <2>3, <2>4
  <1> QED BY <1>1, <1>4, <1>5, <1>6, <1>7, <1>8 DEF Healthy

LEMMA CountIndex ==
    ASSUME TypeInv, TypeInv', InHand, Healthy, faults' = 0,
           CountStored \/ CountBySource \/ CountRejected
    PROVE  Healthy'
  <1>1. /\ UNCHANGED <<log, pel, db, lsh, warmed, batch, rows, seenHashes, fate>> /\ Ids' = Ids
        /\ \/ pc \in {"count", "bySource"} /\ pc' \in {"bySource", "index"}
           \/ pc = "stats" /\ pc' = "xack"
           \/ pc = "batch" /\ Assessed /\ rows = <<>> /\ pc' = "xack"
    BY RaisesFaults DEF CountStored, CountBySource, CountRejected, Returns, locals, Ids
  <1>2. WarmInv' /\ SameContentOnce'
    BY <1>1, StoresKept DEF InBatch
  <1>3. ContentInv' /\ KnownInv'
    BY <1>1 DEF Healthy, ContentInv, KnownInv, IsDuplicate
  <1>4. StageInv'
    <2>1. \A m \in batch : fate[m].kind \in {"gone", "parked"} \cup Verdicts
      BY <1>1 DEF Healthy, StageInv, Assessed, OfKind, Missing, ContentKinds, Verdicts, InBatch
    <2> QED BY <1>1, <2>1 DEF Healthy, StageInv, InBatch
  <1> QED BY <1>1, <1>2, <1>3, <1>4 DEF Healthy

LEMMA IndexIndex ==
    ASSUME TypeInv, TypeInv', InHand, Healthy, faults' = 0, Index PROVE Healthy'
  <1>1. /\ UNCHANGED <<log, pel, db, warmed, batch, seenHashes, fate>> /\ Ids' = Ids
        /\ pc = "index" /\ pc' = IF Len(rows) = 1 THEN "stats" ELSE "index"
        /\ lsh' = lsh \cup {Head(rows).fp} /\ rows' = Tail(rows)
    BY RaisesFaults DEF Index, Returns, Ids
  <1>2. /\ rows \in Seq(Row) /\ rows # <<>>
    BY <1>1 DEF TypeInv, TypeOK, ProcessTypeOK, Sane
  <1>3. /\ Elems(rows) = {Head(rows)} \cup Elems(rows') /\ (Len(rows) = 1 => rows' = <<>>)
        /\ FpsOf(Elems(rows)) = {Head(rows).fp} \cup FpsOf(Elems(rows'))
    <2>1. Elems(rows) = {Head(rows)} \cup Elems(rows') /\ (Len(rows) = 1 => rows' = <<>>)
      BY <1>1, <1>2, HeadElems, TailElems
    <2>2. FpsOf({Head(rows)} \cup Elems(rows')) = {Head(rows).fp} \cup FpsOf(Elems(rows'))
      BY DEF FpsOf
    <2> QED BY <2>1, <2>2
  <1>4. ContentInv'
    BY <1>1, <1>3 DEF Healthy, ContentInv
  <1>5. WarmInv'
    BY <1>1, FoundStays DEF Healthy, WarmInv
  <1>6. StageInv'
    BY <1>1, <1>3 DEF Healthy, StageInv, InBatch
  <1>7. KnownInv'
    <2>0. PICK h : h = Head(rows).fp
      OBVIOUS
    <2>1. IsDuplicate(h)'
      <3>1. h \in lsh' /\ lsh' \subseteq Fps
        BY <1>1, <2>0 DEF TypeInv, TypeOK, RedisTypeOK
      <3> QED BY <3>1, ConstantsAssumption DEF IsDuplicate
    <2>2. \A g : IsDuplicate(g) => IsDuplicate(g)'
      BY <1>1 DEF IsDuplicate
    <2>3. lsh' = lsh \cup {h} /\ FpsOf(Elems(rows)) = {h} \cup FpsOf(Elems(rows'))
      BY <1>1, <1>3, <2>0
    <2>4. Elems(seenHashes') \subseteq lsh' \cup FpsOf(Elems(rows'))
      BY <1>1, <2>3 DEF Healthy, KnownInv
    <2>5. \A m \in batch : fate[m].kind \in {"dup", "row"} =>
             IsDuplicate(fate[m].fp)' \/ fate[m].fp \in FpsOf(Elems(rows'))
      BY <1>1, <2>1, <2>2, <2>3 DEF Healthy, KnownInv
    <2> QED BY <1>1, <2>4, <2>5 DEF Healthy, KnownInv
  <1>8. SameContentOnce' /\ pc' # "batch"
    BY <1>1 DEF Healthy, SameContentOnce
  <1> QED BY <1>4, <1>5, <1>6, <1>7, <1>8 DEF Healthy

\* By the time a batch is acked, the index finds the content of every message
\* of it that was sure to have content.
LEMMA AckIndex ==
    ASSUME TypeInv, TypeInv', InHand, Healthy, StableContent, faults' = 0, XAck PROVE Healthy'
  <1>1. /\ UNCHANGED <<log, db, lsh, warmed, rows, seenHashes>> /\ pc = "xack"
        /\ pel' = pel \ batch /\ batch' = {} /\ pc' \in {"idle", "drain"}
    BY RaisesFaults DEF XAck, Returns
  <1>2. rows' = <<>> /\ rows = <<>> /\ Elems(rows) = {} /\ FpsOf(Elems(rows)) = {}
    BY <1>1, RowSets DEF Healthy, StageInv
  <1>3. Len(seenHashes') <= SeenMax /\ Elems(seenHashes') \subseteq lsh'
    BY <1>1, <1>2 DEF Healthy, KnownInv
  <1>4. WarmInv'
    <2>1. ASSUME NEW q \in db, Steady(q.url), Found(q) PROVE IsDuplicate(q.fp)
      <3>1. CASE \E m \in pel : log[m].url = q.url
        <4>1. PICK m \in pel : log[m].url = q.url
          BY <3>1
        <4>2. q.fp \in ContentOf(log[m].url) /\ Steady(log[m].url)
          BY <2>1, <4>1 DEF Healthy, ContentInv
        <4>3. m \in batch /\ fate[m].fp = q.fp /\ fate[m].kind \in {"dup", "row"}
          BY <1>1, <4>2, SteadyContent DEF InBatch
        <4> QED BY <1>2, <4>3 DEF Healthy, KnownInv
      <3> QED BY <2>1, <3>1 DEF Found
    <2>2. \A q : IsDuplicate(q.fp) => Found(q)'
      BY <1>1 DEF Found, IsDuplicate
    <2>3. warmed /\ \A q \in db : Steady(q.url) => Found(q)
      BY <1>1 DEF Healthy, WarmInv
    <2>4. \A q \in db' : Steady(q.url) => Found(q)'
      BY <1>1, <2>1, <2>2, <2>3
    <2> QED BY <1>1, <2>3, <2>4 DEF WarmInv
  <1> QED BY <1>1, <1>2, <1>3, <1>4, RestIndex DEF InBatch

LEMMA InitIndex == Init => IndexInv
  <1> SUFFICES ASSUME Init PROVE Healthy
    BY DEF IndexInv
  <1>1. Ids = {} /\ batch = {} /\ rows = <<>> /\ seenHashes = <<>> /\ Elems(<<>>) = {}
        /\ db = Corpus /\ ~ warmed /\ pc = "down" /\ Len(seenHashes) = 0
    BY EmptySeq, RowSets DEF Init, Ids
  <1>2. ContentInv
    <2>1. \A q \in Corpus : q.fp \in ContentOf(q.url)
      BY DEF ContentOf
    <2> QED BY <1>1, <2>1 DEF ContentInv
  <1>3. Len(seenHashes) <= SeenMax
    BY <1>1, ConstantsAssumption
  <1> QED BY <1>1, <1>2, <1>3
      DEF Healthy, WarmInv, StageInv, KnownInv, SameContentOnce, InBatch

LEMMA NextIndex ==
    ASSUME TypeInv, TypeInv', InHand, InHand', IndexInv, Retained, StableContent,
           BatchSize <= SeenMax, [Next]_vars
    PROVE  IndexInv'
  <1> SUFFICES ASSUME faults' = 0 PROVE Healthy'
    BY DEF IndexInv
  <1>1. faults = 0 /\ Healthy
    <2>1. faults \in Nat
      BY PendingTyped
    <2>2. \A c : ~ Raises(c)
      BY RaisesFaults
    <2>3. faults' = faults \/ faults' = faults + 1
      BY <2>2 DEF Next, Process, Start, WarmFromDb, MarkWarmed, RecoverPending, XReadGroup,
         XReadGroupEmpty, FetchMany, PushDlq, Assess, InsertArticles, CountStored,
         CountBySource, Index, CountRejected, XAck, Reopen, Crash, Publish, Returns, vars
    <2> QED BY <2>1, <2>3 DEF IndexInv
  <1>2. CASE UNCHANGED vars
    <2>1. Healthy' <=> Healthy
      BY <1>2 DEF Healthy, ContentInv, WarmInv, StageInv, KnownInv, Assembling, WindowInv,
         OrderInv, UniqueInv, SameContentOnce, Found, IsFirstWith, Before, Inline,
         IsDuplicate, OfKind, Ids, vars, redisVars, procVars
    <2> QED BY <1>1, <2>1
  <1>3. CASE RecoverPending
    BY <1>1, <1>3, QuietIndex, ReadIndex
  <1>4. CASE Next /\ ~ RecoverPending
    BY <1>1, <1>4, QuietIndex, PublishIndex, ReadIndex, FetchIndex, PushIndex, AssessIndex,
       InsertIndex, CountIndex, IndexIndex, AckIndex
    DEF Next, Process
  <1> QED BY <1>2, <1>3, <1>4

\* warm_from_db skips the rebuild once the sentinel is set.  As long as no call
\* raises, whatever kills fall between commit, index calls and XACK: every
\* stored document is found by is_duplicate or its message is to be retried.
\* A URL is taken to stand for one document, seen_hashes to hold a batch, and
\* the stream not to be trimmed past a pending entry.
THEOREM IndexStaysComplete ==
    ASSUME StableContent, BatchSize <= SeenMax
    PROVE  Spec /\ []Retained => []IndexComplete
  <1>1. Init => TypeInv /\ InHand /\ IndexInv
    BY InitTyped, InitInHand, InitIndex
  <1>2. TypeInv /\ InHand /\ IndexInv /\ Retained /\ [Next]_vars => (TypeInv /\ InHand /\ IndexInv)'
    BY NextTyped, NextInHand, NextIndex
  <1>3. IndexInv => IndexComplete
    BY DEF IndexInv, Healthy, WarmInv, IndexComplete, Found
  <1> QED BY <1>1, <1>2, <1>3, PTL DEF Spec

\* Under the same conditions no document is stored under two URLs.
THEOREM ContentStaysDistinct ==
    ASSUME StableContent, BatchSize <= SeenMax
    PROVE  Spec /\ []Retained => []DistinctContent
  <1>1. Init => TypeInv /\ InHand /\ IndexInv
    BY InitTyped, InitInHand, InitIndex
  <1>2. TypeInv /\ InHand /\ IndexInv /\ Retained /\ [Next]_vars => (TypeInv /\ InHand /\ IndexInv)'
    BY NextTyped, NextInHand, NextIndex
  <1>3. IndexInv => DistinctContent
    BY DEF IndexInv, Healthy, SameContentOnce, DistinctContent
  <1> QED BY <1>1, <1>2, <1>3, PTL DEF Spec
=============================================================================
