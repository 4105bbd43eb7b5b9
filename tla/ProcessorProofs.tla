-------------------------- MODULE ProcessorProofs --------------------------
(***************************************************************************)
(* Theorems about Processor for every value of its constants.              *)
(***************************************************************************)
EXTENDS Processor, FiniteSetTheorems, SequenceTheorems, WellFoundedInduction, TLAPS

-----------------------------------------------------------------------------
(***************************************************************************)
(* Sequences and sets.                                                     *)
(***************************************************************************)

\* Appending to the seen_hashes deque adds at most the element appended.
LEMMA DequeAppend ==
    ASSUME NEW S, NEW s \in Seq(S), NEW e \in S
    PROVE  /\ AppendBounded(s, e) \in Seq(S)
           /\ Elems(AppendBounded(s, e)) \subseteq Elems(s) \cup {e}
  BY ConstantsAssumption DEF AppendBounded, Elems

\* Elements of a sequence extended by one.
LEMMA AppendElems ==
    ASSUME NEW S, NEW s \in Seq(S), NEW e \in S
    PROVE  /\ Append(s, e) \in Seq(S)
           /\ Append(s, e) # <<>>
           /\ Elems(Append(s, e)) = Elems(s) \cup {e}
  <1>1. /\ Append(s, e) \in Seq(S) /\ Append(s, e) # <<>>
        /\ Len(Append(s, e)) = Len(s) + 1 /\ Len(s) \in Nat
        /\ Append(s, e)[Len(s) + 1] = e
        /\ \A i \in 1 .. Len(s) : Append(s, e)[i] = s[i]
    BY AppendProperties
  <1>2. \A i \in 1 .. Len(s) + 1 : i \in 1 .. Len(s) \/ i = Len(s) + 1
    BY <1>1
  <1>3. \A i \in 1 .. Len(s) : i \in 1 .. Len(s) + 1
    BY <1>1
  <1>4. Len(s) + 1 \in 1 .. Len(s) + 1
    BY <1>1
  <1> QED BY <1>1, <1>2, <1>3, <1>4 DEF Elems

\* Elements of a sequence without its first.
LEMMA TailElems ==
    ASSUME NEW S, NEW s \in Seq(S), s # <<>>
    PROVE  /\ Tail(s) \in Seq(S)
           /\ Head(s) \in S
           /\ Head(s) \in Elems(s)
           /\ Elems(Tail(s)) \subseteq Elems(s)
           /\ Len(s) # 1 => Tail(s) # <<>>
           /\ Len(s) = 1 => Tail(s) = <<>>
  <1>1. Len(s) \in Nat \ {0} /\ Head(s) = s[1]
    BY EmptySeq
  <1>2. Tail(s) \in Seq(S) /\ Len(Tail(s)) = Len(s) - 1
        /\ \A i \in 1 .. Len(Tail(s)) : Tail(s)[i] = s[i + 1]
    BY HeadTailProperties
  <1>3. Elems(Tail(s)) \subseteq Elems(s)
    BY <1>1, <1>2 DEF Elems
  <1>4. Len(s) = 1 <=> Tail(s) = <<>>
    <2>1. Tail(s) = <<>> <=> Len(Tail(s)) = 0
      BY <1>2, EmptySeq
    <2> QED BY <2>1, <1>1, <1>2
  <1>5. Head(s) \in Elems(s)
    BY <1>1 DEF Elems
  <1>6. Head(s) \in S
    BY HeadTailProperties
  <1> QED BY <1>2, <1>3, <1>4, <1>5, <1>6

\* A set of stream ids is finite.
LEMMA IdsFinite ==
    ASSUME NEW n \in Nat, NEW S, S \subseteq 1 .. n
    PROVE  IsFiniteSet(S) /\ Cardinality(S) \in Nat
  <1>1. IsFiniteSet(1 .. n)
    BY FS_Interval
  <1>2. IsFiniteSet(S)
    BY <1>1, FS_Subset
  <1> QED BY <1>2, FS_CardinalityType

\* A nonempty set of naturals has a least element.
LEMMA LeastNatural ==
    ASSUME NEW T, T \subseteq Nat, T # {}
    PROVE  \E k \in T : \A n \in T : k <= n
  <1> DEFINE R == {ss \in Nat \X Nat : ss[1] < ss[2]}
  <1>1. IsWellFoundedOn(R, Nat)
    BY NatLessThanWellFounded DEF OpToRel
  <1> HIDE DEF R
  <1>2. \E k \in T : \A n \in T : ~ (<<n, k>> \in R)
    BY <1>1, WFMin
  <1>3. PICK k \in T : \A n \in T : ~ (<<n, k>> \in R)
    BY <1>2
  <1>4. ASSUME NEW n \in T PROVE k <= n
    <2>1. <<n, k>> \in Nat \X Nat
      OBVIOUS
    <2>2. ~ (n < k)
      BY <2>1, <1>3 DEF R
    <2> QED BY <2>2
  <1> QED BY <1>4
-----------------------------------------------------------------------------
(***************************************************************************)
(* Typing.                                                                 *)
(***************************************************************************)

\* A process that runs holds a connection, one is dropped only where there is
\* one to drop, and the index loop has rows left.
Sane ==
    /\ pc \notin {"down", "reopen"} => used >= 1
    /\ mode = "main" => pc \notin {"down", "reopen", "warm", "mark"}
    /\ pc \in {"count", "bySource", "index"} => rows # <<>>

TypeInv == TypeOK /\ Sane

\* An exception leaves the process typed, whoever catches it.
LEMMA RaisesTyped ==
    ASSUME TypeInv, NEW c, Raises(c)
    PROVE  /\ pc' \in {"down", "reopen"} /\ batch' = {} /\ rows' = <<>>
           /\ mode' \in {"startup", "recover"}
           /\ used' \in 0 .. PoolMax
           /\ inserted' = 0
           /\ seenHashes' \in Seq(Fps)
           /\ seenHashes' \in {seenHashes, <<>>}
           /\ faults' \in 0 .. MaxFaults
           /\ crashes' = crashes
           /\ Sane'
  <1>1. seenHashes' \in {seenHashes, <<>>} /\ seenHashes' \in Seq(Fps)
    <2>1. seenHashes \in Seq(Fps) /\ <<>> \in Seq(Fps)
      BY DEF TypeInv, TypeOK, ProcessTypeOK
    <2> QED BY <2>1 DEF Raises, Dead
  <1>2. used' \in 0 .. PoolMax
    <2>1. PoolMax \in Nat /\ used \in 0 .. PoolMax
      BY ConstantsAssumption DEF TypeInv, TypeOK, ProcessTypeOK
    <2>2. mode = "main" => used >= 1
      BY DEF TypeInv, Sane
    <2> QED BY <2>1, <2>2 DEF Raises, Dead
  <1>3. faults' \in 0 .. MaxFaults
    BY ConstantsAssumption DEF TypeInv, TypeOK, Raises
  <1>4. pc' \in {"down", "reopen"} /\ mode' \in {"startup", "recover"}
    BY DEF Raises, Dead
  <1>5. Sane'
    BY <1>4 DEF Sane
  <1> QED BY <1>1, <1>2, <1>3, <1>4, <1>5 DEF Raises, Dead

LEMMA InitTyped == Init => TypeInv
  <1> SUFFICES ASSUME Init PROVE TypeInv
    OBVIOUS
  <1>1. RedisTypeOK
    <2>1. log \in Seq(Entry) /\ dlq \in Seq(Ids) /\ Len(log) = 0
      BY EmptySeq DEF Init
    <2>2. metrics \in [stored: Nat, bySource: Nat, rejected: Nat, dlq: Nat]
      BY DEF Init
    <2>3. warmed \in BOOLEAN
      BY DEF Init
    <2>4. first \in Nat \ {0} /\ last \in 0 .. Len(log)
      BY <2>1 DEF Init
    <2>5. /\ seen \subseteq Urls /\ pel \subseteq 1 .. last
          /\ dlqSeen \subseteq Ids /\ lsh \subseteq Fps
      BY DEF Init
    <2> QED BY <2>1, <2>2, <2>3, <2>4, <2>5 DEF RedisTypeOK
  <1>2. ProcessTypeOK /\ Sane
    BY ConstantsAssumption DEF Init, ProcessTypeOK, Sane, Locations
  <1>3. fate \in [Ids -> Fate]
    <2>1. <<>> \in Seq(Fate) /\ Len(<<>>) = 0
      BY EmptySeq
    <2>2. <<>> \in [1 .. Len(<<>>) -> Fate]
      BY <2>1, LenProperties
    <2> QED BY <2>2 DEF Init, Ids
  <1>4. db \subseteq Row
    BY ConstantsAssumption DEF Init
  <1> QED
    BY <1>1, <1>2, <1>3, <1>4, ConstantsAssumption DEF Init, TypeInv, TypeOK

LEMMA PublishTyped == ASSUME TypeInv, NEW u \in Urls, Publish(u) PROVE TypeInv'
  <1> USE DEF TypeInv, TypeOK
  <1>1. PICK b \in Bodies[u] : log' = Append(log, [url |-> u, body |-> b])
    BY DEF Publish
  <1>2. log' \in Seq(Entry) /\ Len(log') = Len(log) + 1 /\ Len(log) \in Nat
    BY <1>1, ConstantsAssumption DEF RedisTypeOK, Entry
  <1>3. Ids' = 1 .. Len(log) + 1 /\ Ids \subseteq Ids'
    BY <1>2 DEF Ids
  <1>4. first' \in Nat \ {0}
    BY <1>2 DEF Publish, RedisTypeOK
  <1>5. dlq' \in Seq(Ids')
    BY <1>3, SeqMonotonic DEF Publish, RedisTypeOK
  <1>6. RedisTypeOK'
    BY <1>2, <1>3, <1>4, <1>5 DEF Publish, RedisTypeOK
  <1>7. fate' \in [Ids' -> Fate]
    BY <1>3 DEF Publish, Fate, NoFate, BareKinds
  <1> QED BY <1>6, <1>7 DEF Publish, ProcessTypeOK, Sane, procVars

\* A call that raises keeps the types if its effect on the stores does.
LEMMA RaisesTypeInv ==
    ASSUME TypeInv, NEW c, Raises(c),
           RedisTypeOK', (db \subseteq Row)', (fate \in [Ids -> Fate])'
    PROVE  TypeInv'
  <1>1. ProcessTypeOK'
    <2>1. <<>> \in Seq(Row)
      BY EmptySeq
    <2>2. pc' \in Locations /\ mode' \in {"startup", "main", "recover"} /\ inserted' \in Nat
      BY RaisesTyped DEF Locations
    <2> QED BY <2>1, <2>2, RaisesTyped DEF ProcessTypeOK
  <1>2. (crashes \in 0 .. MaxCrashes)'
    BY RaisesTyped DEF TypeInv, TypeOK
  <1> QED BY <1>1, <1>2, RaisesTyped DEF TypeInv, TypeOK

\* A step that leaves Redis, PostgreSQL and the fates alone keeps their types.
LEMMA StoresTyped ==
    ASSUME TypeInv
    PROVE  /\ UNCHANGED redisVars => RedisTypeOK'
           /\ UNCHANGED db => (db \subseteq Row)'
           /\ UNCHANGED <<log, fate>> => (fate \in [Ids -> Fate])'
  <1>1. UNCHANGED log => Ids' = Ids
    BY DEF Ids
  <1>2. UNCHANGED redisVars => RedisTypeOK'
    BY <1>1 DEF TypeInv, TypeOK, RedisTypeOK, redisVars
  <1> QED BY <1>1, <1>2 DEF TypeInv, TypeOK

LEMMA StartTyped == ASSUME TypeInv, Start PROVE TypeInv'
  <1>1. RedisTypeOK' /\ (db \subseteq Row)' /\ (fate \in [Ids -> Fate])'
    BY StoresTyped DEF Start, redisVars
  <1>2. CASE pc' = "warm" /\ used' = 1 /\ UNCHANGED <<mode, locals, faults, crashes>>
    <2>1. ProcessTypeOK'
      BY <1>2, ConstantsAssumption
      DEF TypeInv, TypeOK, ProcessTypeOK, Start, locals, redisVars, Locations
    <2>2. Sane'
      BY <1>2 DEF TypeInv, Sane, Start
    <2> QED BY <1>1, <1>2, <2>1, <2>2 DEF TypeInv, TypeOK
  <1>3. CASE Raises("get_conn")
    BY <1>1, <1>3, RaisesTypeInv
  <1> QED BY <1>2, <1>3 DEF Start

LEMMA WarmTyped == ASSUME TypeInv, WarmFromDb \/ MarkWarmed PROVE TypeInv'
  <1>1. (db \subseteq Row)' /\ (fate \in [Ids -> Fate])'
    BY StoresTyped DEF WarmFromDb, MarkWarmed
  <1>2. lsh' \subseteq Fps
    <2>1. FpsOf(db) \subseteq Fps /\ lsh \subseteq Fps
      BY DEF TypeInv, TypeOK, RedisTypeOK, FpsOf, Row
    <2> QED BY <2>1 DEF WarmFromDb, MarkWarmed
  <1>3. warmed' \in BOOLEAN
    BY DEF WarmFromDb, MarkWarmed, TypeInv, TypeOK, RedisTypeOK
  <1>4. RedisTypeOK'
    <2>1. Ids' = Ids
      BY DEF WarmFromDb, MarkWarmed, Ids
    <2> QED BY <1>2, <1>3, <2>1 DEF WarmFromDb, MarkWarmed, TypeInv, TypeOK, RedisTypeOK
  <1>5. CASE /\ Returns("drain") \/ Returns("mark")
             /\ UNCHANGED locals
    <2>1. ProcessTypeOK'
      BY <1>5 DEF Returns, locals, WarmFromDb, MarkWarmed, TypeInv, TypeOK,
         ProcessTypeOK, Locations
    <2>2. Sane'
      BY <1>5 DEF Returns, locals, WarmFromDb, MarkWarmed, TypeInv, Sane
    <2> QED BY <1>1, <1>4, <1>5, <2>1, <2>2 DEF Returns, TypeInv, TypeOK
  <1>6. CASE Raises("warm")
    BY <1>1, <1>4, <1>6, RaisesTypeInv
  <1> QED BY <1>5, <1>6 DEF WarmFromDb, MarkWarmed, locals

\* Parsing a batch gives fates.
LEMMA ParsedTyped ==
    ASSUME TypeInv, NEW S PROVE Parsed(S) \in [Ids -> Fate]
  BY DEF TypeInv, TypeOK, Parsed, Fate, BareKinds

LEMMA RecoverTyped == ASSUME TypeInv, RecoverPending PROVE TypeInv'
  <1>1. RedisTypeOK' /\ (db \subseteq Row)' /\ Ids' = Ids /\ pel' = pel
    BY StoresTyped DEF RecoverPending, redisVars, Ids
  <1>2. CASE /\ pc' = "idle" /\ mode' = "main"
             /\ UNCHANGED <<used, locals, fate, faults, crashes>>
    <2>1. ProcessTypeOK' /\ Sane'
      BY <1>1, <1>2 DEF RecoverPending, locals, TypeInv, TypeOK, ProcessTypeOK, Locations, Sane
    <2> QED BY <1>1, <1>2, <2>1 DEF TypeInv, TypeOK
  <1>3. CASE /\ \E S \in SUBSET pel : batch' = S /\ fate' = Parsed(S)
             /\ Returns("fetch") /\ UNCHANGED <<rows, inserted, seenHashes>>
    <2>1. (fate \in [Ids -> Fate])'
      BY <1>1, <1>3, ParsedTyped
    <2>2. ProcessTypeOK' /\ Sane'
      BY <1>1, <1>3 DEF RecoverPending, Returns, TypeInv, TypeOK, ProcessTypeOK, Locations, Sane
    <2> QED BY <1>1, <1>3, <2>1, <2>2 DEF Returns, TypeInv, TypeOK
  <1>4. CASE Raises("xread") /\ UNCHANGED fate
    <2>1. (fate \in [Ids -> Fate])'
      BY <1>1, <1>4 DEF TypeInv, TypeOK
    <2> QED BY <1>1, <1>4, <2>1, RaisesTypeInv
  <1> QED BY <1>2, <1>3, <1>4 DEF RecoverPending

LEMMA ReadTyped == ASSUME TypeInv, XReadGroup PROVE TypeInv'
  <1>1. PICK S \in SUBSET Undelivered :
          /\ S # {}
          /\ \/ /\ batch' = S /\ fate' = Parsed(S)
                /\ Returns("fetch") /\ UNCHANGED <<rows, inserted, seenHashes>>
             \/ Raises("xread") /\ UNCHANGED fate
          /\ pel' = pel \cup S
          /\ last' \in S /\ \A m \in S : m <= last'
    BY DEF XReadGroup
  <1>2. Ids' = Ids /\ log' = log /\ (db \subseteq Row)'
    BY StoresTyped DEF XReadGroup, Ids
  <1>3. last \in Nat /\ Len(log) \in Nat /\ S \subseteq (last + 1) .. Len(log)
    BY <1>1 DEF Undelivered, TypeInv, TypeOK, RedisTypeOK, Ids
  <1>4. last' \in 0 .. Len(log) /\ last' > last /\ pel' \subseteq 1 .. last'
    BY <1>1, <1>3 DEF TypeInv, TypeOK, RedisTypeOK
  <1>5. RedisTypeOK'
    BY <1>2, <1>4 DEF XReadGroup, TypeInv, TypeOK, RedisTypeOK
  <1>6. CASE /\ batch' = S /\ fate' = Parsed(S)
             /\ Returns("fetch") /\ UNCHANGED <<rows, inserted, seenHashes>>
    <2>1. (fate \in [Ids -> Fate])'
      BY <1>2, <1>6, ParsedTyped
    <2>2. ProcessTypeOK' /\ Sane'
      BY <1>1, <1>6 DEF XReadGroup, Returns, TypeInv, TypeOK, ProcessTypeOK, Locations, Sane
    <2> QED BY <1>2, <1>5, <1>6, <2>1, <2>2 DEF Returns, TypeInv, TypeOK
  <1>7. CASE Raises("xread") /\ UNCHANGED fate
    <2>1. (fate \in [Ids -> Fate])'
      BY <1>2, <1>7 DEF TypeInv, TypeOK
    <2> QED BY <1>2, <1>5, <1>7, <2>1, RaisesTypeInv
  <1> QED BY <1>1, <1>6, <1>7

LEMMA ReadEmptyTyped == ASSUME TypeInv, XReadGroupEmpty PROVE TypeInv'
  <1>1. RedisTypeOK' /\ (db \subseteq Row)' /\ (fate \in [Ids -> Fate])' /\ pel' = pel
    BY StoresTyped DEF XReadGroupEmpty, redisVars
  <1>2. CASE UNCHANGED <<procVars, faults, crashes>>
    BY <1>1, <1>2 DEF procVars, TypeInv, TypeOK, ProcessTypeOK, Sane
  <1>3. CASE Raises("xread")
    BY <1>1, <1>3, RaisesTypeInv
  <1> QED BY <1>2, <1>3 DEF XReadGroupEmpty

LEMMA FetchTyped == ASSUME TypeInv, FetchMany PROVE TypeInv'
  <1>1. RedisTypeOK' /\ (db \subseteq Row)' /\ Ids' = Ids /\ pel' = pel
    BY StoresTyped DEF FetchMany, redisVars, Ids
  <1>2. CASE /\ \E got \in [batch -> UNION {Extractions(m) : m \in batch}] :
                  /\ \A m \in batch : got[m] \in Extractions(m)
                  /\ fate' = [m \in Ids |-> IF m \in batch THEN got[m] ELSE fate[m]]
             /\ Returns("batch") /\ UNCHANGED locals
    <2>1. ASSUME NEW m \in batch PROVE Extractions(m) \subseteq Fate
      <3>1. m \in Ids
        BY DEF TypeInv, TypeOK, RedisTypeOK, ProcessTypeOK, Ids
      <3>2. fate[m] \in Fate
        BY <3>1 DEF TypeInv, TypeOK
      <3>3. log[m].url \in Urls /\ log[m].body \in Fps \cup {None}
        <4>1. log[m] \in Entry
          BY <3>1, ElementOfSeq DEF Ids, TypeInv, TypeOK, RedisTypeOK
        <4> QED BY <4>1 DEF Entry
      <3>4. /\ Pages[log[m].url] \subseteq Fps
            /\ Misses[log[m].url] \subseteq MissKinds
        BY <3>3, ConstantsAssumption
      <3> QED BY <3>2, <3>3, <3>4 DEF Extractions, Inline, Fate, BareKinds, ContentKinds, MissKinds
    <2>2. (fate \in [Ids -> Fate])'
      BY <1>1, <1>2, <2>1 DEF TypeInv, TypeOK
    <2>3. ProcessTypeOK' /\ Sane'
      BY <1>1, <1>2 DEF FetchMany, Returns, locals, TypeInv, TypeOK, ProcessTypeOK, Locations, Sane
    <2> QED BY <1>1, <1>2, <2>2, <2>3 DEF Returns, TypeInv, TypeOK
  <1>3. CASE Raises("fetch") /\ UNCHANGED fate
    <2>1. (fate \in [Ids -> Fate])'
      BY <1>1, <1>3 DEF TypeInv, TypeOK
    <2> QED BY <1>1, <1>3, <2>1, RaisesTypeInv
  <1> QED BY <1>2, <1>3 DEF FetchMany

\* A message of the batch: its entry and its fate are typed.
LEMMA MessageTyped ==
    ASSUME TypeInv, NEW m \in batch
    PROVE  /\ m \in Ids
           /\ log[m] \in Entry
           /\ log[m].url \in Urls
           /\ fate[m] \in Fate
           /\ fate[m].kind \in ContentKinds => fate[m].fp \in Fps
           /\ fate[m].kind \in BareKinds => fate[m].fp = None
  <1>1. m \in Ids
    BY DEF TypeInv, TypeOK, RedisTypeOK, ProcessTypeOK, Ids
  <1>2. log[m] \in Entry
    BY <1>1, ElementOfSeq DEF Ids, TypeInv, TypeOK, RedisTypeOK
  <1>3. fate[m] \in Fate
    BY <1>1 DEF TypeInv, TypeOK
  <1> QED BY <1>1, <1>2, <1>3 DEF Entry, Fate, BareKinds, ContentKinds

\* Changing the kind of one fate.
LEMMA FateKindTyped ==
    ASSUME TypeInv, NEW m \in batch, NEW k,
           \/ fate[m].kind \in BareKinds /\ k \in BareKinds
           \/ fate[m].kind \in ContentKinds /\ k \in ContentKinds
    PROVE  /\ [fate EXCEPT ![m].kind = k] \in [Ids -> Fate]
           /\ \A n \in Ids : [fate EXCEPT ![m].kind = k][n] =
                 IF n = m THEN [kind |-> k, fp |-> fate[m].fp] ELSE fate[n]
  <1>1. m \in Ids /\ fate[m] \in Fate /\ fate \in [Ids -> Fate]
    BY MessageTyped DEF TypeInv, TypeOK
  <1>2. [fate[m] EXCEPT !.kind = k] = [kind |-> k, fp |-> fate[m].fp]
    BY <1>1 DEF Fate
  <1>3. [kind |-> k, fp |-> fate[m].fp] \in Fate
    BY MessageTyped DEF Fate
  <1> QED BY <1>1, <1>2, <1>3

LEMMA PushTyped == ASSUME TypeInv, PushDlq PROVE TypeInv'
  <1>1. PICK m \in OfKind("unfetched") :
          /\ fate' = [fate EXCEPT ![m].kind = "parked"]
          /\ \/ /\ Park(m)
                /\ metrics' = [metrics EXCEPT !.dlq =
                                  IF m \in dlqSeen THEN @ ELSE @ + 1]
                /\ UNCHANGED faults
             \/ /\ "push_dlq" \in Faulty /\ faults < MaxFaults
                /\ faults' = faults + 1
                /\ Park(m) \/ UNCHANGED <<dlqSeen, dlq>>
                /\ UNCHANGED metrics
    BY DEF PushDlq
  <1>2. m \in batch /\ m \in Ids /\ fate' \in [Ids -> Fate]
    <2>1. m \in batch /\ fate[m].kind = "unfetched"
      BY <1>1 DEF OfKind
    <2> QED BY <1>1, <2>1, FateKindTyped, MessageTyped DEF BareKinds
  <1>3. Ids' = Ids /\ pel' = pel
    BY DEF PushDlq, Ids
  <1>4. dlqSeen' \subseteq Ids /\ dlq' \in Seq(Ids)
    <2>1. dlqSeen \subseteq Ids /\ dlq \in Seq(Ids) /\ Append(dlq, m) \in Seq(Ids)
      BY <1>2, AppendElems DEF TypeInv, TypeOK, RedisTypeOK
    <2> QED BY <1>1, <1>2, <2>1 DEF Park
  <1>5. metrics' \in [stored: Nat, bySource: Nat, rejected: Nat, dlq: Nat]
    BY <1>1, SMTT(30) DEF TypeInv, TypeOK, RedisTypeOK
  <1>6. RedisTypeOK'
    BY <1>3, <1>4, <1>5 DEF PushDlq, TypeInv, TypeOK, RedisTypeOK
  <1>7. ProcessTypeOK' /\ Sane'
    BY <1>3 DEF PushDlq, procVars, TypeInv, TypeOK, ProcessTypeOK, Sane
  <1>8. faults' \in 0 .. MaxFaults
    BY <1>1, ConstantsAssumption DEF TypeInv, TypeOK
  <1> QED BY <1>2, <1>3, <1>6, <1>7, <1>8 DEF PushDlq, TypeInv, TypeOK

LEMMA AssessTyped == ASSUME TypeInv, Assess PROVE TypeInv'
  <1>1. PICK m \in OfKind("extracted") :
          \/ Returns("batch") /\ (Reject(m) \/ DropDuplicate(m) \/ AddRow(m))
          \/ Raises("smembers") /\ UNCHANGED fate
    BY DEF Assess
  <1>2. m \in batch /\ fate[m].kind = "extracted" /\ fate[m].fp \in Fps /\ log[m].url \in Urls
    BY MessageTyped DEF OfKind, ContentKinds
  <1>3. RedisTypeOK' /\ (db \subseteq Row)' /\ Ids' = Ids /\ pel' = pel
    BY StoresTyped DEF Assess, redisVars, Ids
  <1>4. CASE Returns("batch") /\ (Reject(m) \/ DropDuplicate(m) \/ AddRow(m))
    <2>1. (fate \in [Ids -> Fate])'
      <3>1. ASSUME NEW k \in {"rejected", "dup", "row"}
            PROVE  [fate EXCEPT ![m].kind = k] \in [Ids -> Fate]
        BY <1>2, FateKindTyped DEF ContentKinds
      <3> QED BY <1>3, <1>4, <3>1 DEF Reject, DropDuplicate, AddRow
    <2>2. rows' \in Seq(Row)
      <3>1. [url |-> log[m].url, fp |-> fate[m].fp] \in Row /\ rows \in Seq(Row)
        BY <1>2 DEF Row, TypeInv, TypeOK, ProcessTypeOK
      <3> QED BY <3>1, <1>4, AppendElems DEF Reject, DropDuplicate, AddRow, locals
    <2>3. seenHashes' \in Seq(Fps)
      <3>1. seenHashes \in Seq(Fps)
        BY DEF TypeInv, TypeOK, ProcessTypeOK
      <3> QED BY <3>1, <1>2, <1>4, DequeAppend DEF Reject, DropDuplicate, AddRow, locals
    <2>4. ProcessTypeOK'
      BY <1>3, <1>4, <2>2, <2>3
      DEF Returns, Reject, DropDuplicate, AddRow, locals, Locations,
          TypeInv, TypeOK, ProcessTypeOK
    <2>5. Sane'
      BY <1>4 DEF Assess, Returns, TypeInv, Sane
    <2> QED BY <1>3, <1>4, <2>1, <2>4, <2>5 DEF Returns, TypeInv, TypeOK
  <1>5. CASE Raises("smembers") /\ UNCHANGED fate
    <2>1. (fate \in [Ids -> Fate])'
      BY <1>3, <1>5 DEF TypeInv, TypeOK
    <2> QED BY <1>3, <1>5, <2>1, RaisesTypeInv
  <1> QED BY <1>1, <1>4, <1>5

LEMMA InsertTyped == ASSUME TypeInv, InsertArticles PROVE TypeInv'
  <1>1. RedisTypeOK' /\ (fate \in [Ids -> Fate])' /\ pel' = pel
    BY StoresTyped DEF InsertArticles, redisVars
  <1>2. NewRows(rows) \subseteq Row
    <2>1. rows \in Seq(Row)
      BY DEF TypeInv, TypeOK, ProcessTypeOK
    <2> QED BY <2>1, ElementOfSeq DEF NewRows, Fresh
  <1>3. (db \subseteq Row)'
    BY <1>2 DEF InsertArticles, TypeInv, TypeOK
  <1>4. Cardinality(Fresh(rows)) \in Nat
    <2>1. Len(rows) \in Nat /\ Fresh(rows) \subseteq 1 .. Len(rows)
      BY DEF Fresh, TypeInv, TypeOK, ProcessTypeOK
    <2> QED BY <2>1, IdsFinite
  <1>5. CASE /\ inserted' = Cardinality(Fresh(rows))
             /\ Returns(IF Fresh(rows) = {} THEN "index" ELSE "count")
             /\ UNCHANGED <<batch, rows, seenHashes>>
    <2>1. ProcessTypeOK'
      BY <1>1, <1>4, <1>5 DEF Returns, Locations, TypeInv, TypeOK, ProcessTypeOK
    <2>2. Sane'
      BY <1>5 DEF InsertArticles, Returns, TypeInv, Sane
    <2> QED BY <1>1, <1>3, <1>5, <2>1, <2>2 DEF Returns, TypeInv, TypeOK
  <1>6. CASE Raises("insert")
    BY <1>1, <1>3, <1>6, RaisesTypeInv
  <1> QED BY <1>5, <1>6 DEF InsertArticles

LEMMA CountTyped ==
    ASSUME TypeInv, CountStored \/ CountBySource \/ CountRejected PROVE TypeInv'
  <1>1. (db \subseteq Row)' /\ (fate \in [Ids -> Fate])' /\ pel' = pel /\ Ids' = Ids
    BY StoresTyped DEF CountStored, CountBySource, CountRejected, Ids
  <1>2. inserted \in Nat /\ Len(rows) \in Nat /\ Rejects \in Nat
    <2>1. Rejects \in Nat
      <3>1. last \in Nat /\ batch \subseteq 1 .. last
        BY DEF TypeInv, TypeOK, RedisTypeOK, ProcessTypeOK
      <3>2. {m \in batch : fate[m].kind \in Counted} \subseteq 1 .. last
        BY <3>1
      <3> QED BY <3>1, <3>2, IdsFinite DEF Rejects
    <2> QED BY <2>1 DEF TypeInv, TypeOK, ProcessTypeOK
  <1>3. metrics' \in [stored: Nat, bySource: Nat, rejected: Nat, dlq: Nat]
    <2>1. metrics \in [stored: Nat, bySource: Nat, rejected: Nat, dlq: Nat]
      BY DEF TypeInv, TypeOK, RedisTypeOK
    <2> QED BY <1>2, <2>1 DEF CountStored, CountBySource, CountRejected
  <1>4. RedisTypeOK'
    BY <1>1, <1>3
    DEF CountStored, CountBySource, CountRejected, TypeInv, TypeOK, RedisTypeOK
  <1>5. ASSUME NEW l \in {"bySource", "index", "xack"}, Returns(l), UNCHANGED locals,
               l \in {"bySource", "index"} => pc \in {"count", "bySource"},
               pc \notin {"down", "reopen", "warm", "mark"}
        PROVE  TypeInv'
    <2>1. ProcessTypeOK'
      BY <1>1, <1>5 DEF Returns, locals, Locations, TypeInv, TypeOK, ProcessTypeOK
    <2>2. Sane'
      BY <1>5 DEF Returns, locals, TypeInv, Sane
    <2> QED BY <1>1, <1>4, <1>5, <2>1, <2>2 DEF Returns, TypeInv, TypeOK
  <1>6. ASSUME NEW c, Raises(c) PROVE TypeInv'
    BY <1>1, <1>4, <1>6, RaisesTypeInv
  <1> QED BY <1>5, <1>6 DEF CountStored, CountBySource, CountRejected

LEMMA IndexTyped == ASSUME TypeInv, Index PROVE TypeInv'
  <1>1. (db \subseteq Row)' /\ (fate \in [Ids -> Fate])' /\ pel' = pel /\ Ids' = Ids
    BY StoresTyped DEF Index, Ids
  <1>2. rows \in Seq(Row) /\ rows # <<>>
    BY DEF Index, TypeInv, TypeOK, ProcessTypeOK, Sane
  <1>3. Head(rows).fp \in Fps /\ Tail(rows) \in Seq(Row) /\ (Len(rows) # 1 => Tail(rows) # <<>>)
    <2>1. Head(rows) \in Row /\ Tail(rows) \in Seq(Row) /\ (Len(rows) # 1 => Tail(rows) # <<>>)
      BY <1>2, TailElems
    <2> QED BY <2>1 DEF Row
  <1>4. lsh' \subseteq Fps
    BY <1>3 DEF Index, TypeInv, TypeOK, RedisTypeOK
  <1>5. RedisTypeOK'
    BY <1>1, <1>4 DEF Index, TypeInv, TypeOK, RedisTypeOK
  <1>6. CASE /\ rows' = Tail(rows)
             /\ Returns(IF Len(rows) = 1 THEN "stats" ELSE "index")
             /\ UNCHANGED <<batch, inserted, seenHashes>>
    <2>1. ProcessTypeOK'
      BY <1>1, <1>3, <1>6 DEF Returns, Locations, TypeInv, TypeOK, ProcessTypeOK
    <2>2. Sane'
      BY <1>3, <1>6 DEF Index, Returns, TypeInv, Sane
    <2> QED BY <1>1, <1>5, <1>6, <2>1, <2>2 DEF Returns, TypeInv, TypeOK
  <1>7. CASE Raises("index")
    BY <1>1, <1>5, <1>7, RaisesTypeInv
  <1> QED BY <1>6, <1>7 DEF Index

LEMMA AckTyped == ASSUME TypeInv, XAck PROVE TypeInv'
  <1>1. (db \subseteq Row)' /\ (fate \in [Ids -> Fate])' /\ Ids' = Ids
    BY StoresTyped DEF XAck, Ids
  <1>2. pel' \subseteq 1 .. last'
    BY DEF XAck, TypeInv, TypeOK, RedisTypeOK
  <1>3. RedisTypeOK'
    BY <1>1, <1>2 DEF XAck, TypeInv, TypeOK, RedisTypeOK
  <1>4. CASE /\ batch' = {} /\ inserted' = 0
             /\ Returns(IF mode = "main" THEN "idle" ELSE "drain")
             /\ UNCHANGED <<rows, seenHashes>>
    <2>1. ProcessTypeOK'
      BY <1>4 DEF Returns, Locations, TypeInv, TypeOK, ProcessTypeOK
    <2>2. Sane'
      BY <1>4 DEF XAck, Returns, TypeInv, Sane
    <2> QED BY <1>1, <1>3, <1>4, <2>1, <2>2 DEF Returns, TypeInv, TypeOK
  <1>5. CASE Raises("xack")
    BY <1>1, <1>3, <1>5, RaisesTypeInv
  <1> QED BY <1>4, <1>5 DEF XAck

LEMMA ReopenTyped == ASSUME TypeInv, Reopen PROVE TypeInv'
  <1>1. RedisTypeOK' /\ (db \subseteq Row)' /\ (fate \in [Ids -> Fate])' /\ pel' = pel
    BY StoresTyped DEF Reopen, redisVars
  <1>2. CASE /\ used < PoolMax /\ pc' = "drain" /\ used' = used + 1
             /\ UNCHANGED <<mode, locals, faults, crashes>>
    <2>1. ProcessTypeOK'
      BY <1>1, <1>2, ConstantsAssumption
      DEF locals, Locations, TypeInv, TypeOK, ProcessTypeOK
    <2>2. Sane'
      BY <1>2 DEF Reopen, TypeInv, TypeOK, ProcessTypeOK, Sane
    <2> QED BY <1>1, <1>2, <2>1, <2>2 DEF TypeInv, TypeOK
  <1>3. CASE UNCHANGED <<procVars, faults, crashes>>
    BY <1>1, <1>3 DEF procVars, TypeInv, TypeOK, ProcessTypeOK, Sane
  <1>4. CASE Raises("get_conn")
    BY <1>1, <1>4, RaisesTypeInv
  <1> QED BY <1>2, <1>3, <1>4 DEF Reopen

LEMMA CrashTyped == ASSUME TypeInv, Crash PROVE TypeInv'
  <1>1. RedisTypeOK' /\ (db \subseteq Row)' /\ (fate \in [Ids -> Fate])'
    BY StoresTyped DEF Crash, redisVars
  <1>2. ProcessTypeOK' /\ Sane'
    BY EmptySeq, ConstantsAssumption DEF Crash, Dead, Locations, ProcessTypeOK, Sane
  <1>3. crashes' \in 0 .. MaxCrashes
    BY ConstantsAssumption DEF Crash, TypeInv, TypeOK
  <1> QED BY <1>1, <1>2, <1>3 DEF Crash, TypeInv, TypeOK

LEMMA StutterTyped == ASSUME TypeInv, UNCHANGED vars PROVE TypeInv'
  <1>1. RedisTypeOK' /\ (db \subseteq Row)' /\ (fate \in [Ids -> Fate])' /\ pel' = pel
    BY StoresTyped DEF vars, redisVars
  <1> QED BY <1>1 DEF vars, procVars, TypeInv, TypeOK, ProcessTypeOK, Sane

\* Every step keeps the types.
LEMMA NextTyped == ASSUME TypeInv, [Next]_vars PROVE TypeInv'
  BY StartTyped, WarmTyped, RecoverTyped, ReadTyped, ReadEmptyTyped, FetchTyped,
     PushTyped, AssessTyped, InsertTyped, CountTyped, IndexTyped, AckTyped,
     ReopenTyped, CrashTyped, PublishTyped, StutterTyped
  DEF Next, Process

\* The processor's state keeps its types: in particular _drop_broken_conn
\* always finds a connection to give back and the pool is never overdrawn, and
\* the index loop never runs off the rows.
THEOREM TypeCorrect == Spec => []TypeOK
  <1>1. Spec => []TypeInv
    BY InitTyped, NextTyped, PTL DEF Spec
  <1>2. TypeInv => TypeOK
    BY DEF TypeInv
  <1> QED BY <1>1, <1>2, PTL
-----------------------------------------------------------------------------
(***************************************************************************)
(* No message is lost.  The invariant follows a message through the batch: *)
(* while the rows are being assembled, what backs a "row" or a "dup"       *)
(* verdict may still be a row that is not committed, and seen_hashes may   *)
(* hold its fingerprint.  InsertArticles makes all of it durable at once.  *)
(***************************************************************************)

\* The rows stored, and those assembled and not yet committed.
Visible == db \cup (IF pc = "batch" THEN Elems(rows) ELSE {})

\* Everything the processor handles is what its URL stands for.
Contents ==
    /\ \A m \in Ids : log[m].body \in Bodies[log[m].url]
    /\ \A r \in db : r.fp \in ContentOf(r.url)
    /\ \A r \in Elems(rows) : r.fp \in ContentOf(r.url)
    /\ \A m \in batch :
          fate[m].kind = "extracted" => fate[m].fp \in ContentOf(log[m].url)

\* A fingerprint that makes a later message a duplicate belongs to a row that
\* is stored, or will be before that message is acked.
Fingerprints ==
    /\ lsh \subseteq FpsOf(db)
    /\ Elems(seenHashes) \subseteq FpsOf(Visible)
    /\ pc \in {"count", "bySource", "index"} => FpsOf(Elems(rows)) \subseteq FpsOf(db)
    /\ pc \notin {"batch", "count", "bySource", "index"} => rows = <<>>

\* How far the attempt at a batch has come, by location.
Stages ==
    /\ pc = "fetch" => \A m \in batch : fate[m].kind \in {"read", "skipped"}
    /\ pc = "batch" => \A m \in batch : fate[m].kind \notin {"none", "read"}
    /\ pc \in {"count", "bySource", "index", "stats", "xack"} =>
          \A m \in batch : fate[m].kind \in Finished
    /\ pc \in {"down", "warm", "mark", "drain", "idle", "reopen"} => batch = {}

BatchBacked == \A m \in batch : Backed(m, Visible)

Unread == \A m \in Ids : m > last => fate[m].kind = "none"

LossInv ==
    /\ Contents
    /\ Fingerprints
    /\ Stages
    /\ BatchBacked
    /\ Unread
    /\ NoLoss

\* Fingerprints and URLs of sets of rows.
LEMMA RowSets ==
    ASSUME NEW R, NEW Q
    PROVE  /\ FpsOf(R \cup Q) = FpsOf(R) \cup FpsOf(Q)
           /\ UrlsOf(R \cup Q) = UrlsOf(R) \cup UrlsOf(Q)
           /\ R \subseteq Q => FpsOf(R) \subseteq FpsOf(Q) /\ UrlsOf(R) \subseteq UrlsOf(Q)
           /\ FpsOf({}) = {}
           /\ Elems(<<>>) = {}
           /\ \A r \in R : r.fp \in FpsOf(R) /\ r.url \in UrlsOf(R)
           /\ \A f \in FpsOf(R) : \E r \in R : r.fp = f
           /\ \A u \in UrlsOf(R) : \E r \in R : r.url = u
  BY DEF FpsOf, UrlsOf, Elems

\* Each row of a batch is in the table after the insert, under its URL and with
\* its fingerprint: added, or in conflict with a row of the same URL, which
\* then holds the same document.
LEMMA InsertCovers ==
    ASSUME TypeInv, Contents, StableContent, NEW r \in Elems(rows)
    PROVE  \E q \in db \cup NewRows(rows) : q.url = r.url /\ q.fp = r.fp
  <1>1. rows \in Seq(Row) /\ Len(rows) \in Nat
    BY DEF TypeInv, TypeOK, ProcessTypeOK
  <1>2. ASSUME NEW i \in 1 .. Len(rows) PROVE rows[i] \in Row /\ rows[i] \in Elems(rows)
    BY <1>1, ElementOfSeq DEF Elems
  <1>3. r \in Row
    BY <1>2 DEF Elems
  <1>4. ASSUME NEW q \in db \cup Elems(rows), q.url = r.url PROVE q.fp = r.fp
    BY <1>3, <1>4 DEF Contents, StableContent, Row
  <1>5. CASE r.url \in UrlsOf(db)
    <2>1. PICK q \in db : q.url = r.url
      BY <1>5 DEF UrlsOf
    <2> QED BY <2>1, <1>4
  <1>6. CASE r.url \notin UrlsOf(db)
    <2> DEFINE T == {k \in 1 .. Len(rows) : rows[k].url = r.url}
    <2>1. T \subseteq Nat /\ T # {}
      BY <1>1 DEF Elems
    <2>2. PICK k \in T : \A n \in T : k <= n
      <3> HIDE DEF T
      <3> QED BY <2>1, LeastNatural
    <2>3. k \in Fresh(rows)
      <3>1. ASSUME NEW j \in 1 .. (k - 1) PROVE rows[j].url # rows[k].url
        <4>1. j \in 1 .. Len(rows) /\ ~ (k <= j)
          BY <1>1
        <4> QED BY <4>1, <2>2
      <3> QED BY <3>1, <1>6 DEF Fresh
    <2>4. rows[k] \in NewRows(rows) /\ rows[k] \in Elems(rows) /\ rows[k].url = r.url
      BY <2>3, <1>2 DEF NewRows
    <2> QED BY <2>4, <1>4
  <1> QED BY <1>5, <1>6

\* What a settled message rests on is never taken away.
LEMMA AccountedStays ==
    ASSUME NEW m, Accounted(m), db \subseteq db', dlqSeen \subseteq dlqSeen',
           m \in Int, first \in Int, first' \in Int, first <= first',
           fate'[m] = fate[m], log'[m] = log[m]
    PROVE  Accounted(m)'
  BY DEF Accounted, Backed, UrlsOf

\* A step that changes fates within the batch only settles nothing.
LEMMA NothingSettled ==
    ASSUME TypeInv, NoLoss, Unread, UNCHANGED <<log, first, last, pel>>,
           db \subseteq db', dlqSeen \subseteq dlqSeen',
           \A m \in Ids \ batch : fate'[m] = fate[m]
    PROVE  NoLoss' /\ Unread'
  <1>1. Ids' = Ids /\ Ids \subseteq Int /\ first \in Int
    BY DEF Ids, TypeInv, TypeOK, RedisTypeOK
  <1>2. ASSUME NEW m \in Ids, Settled(m)' PROVE Accounted(m)'
    <2>1. Settled(m) /\ m \notin batch
      BY <1>2 DEF Settled, TypeInv, TypeOK, ProcessTypeOK
    <2>2. Accounted(m)
      BY <2>1 DEF NoLoss
    <2> QED BY <1>1, <2>1, <2>2, AccountedStays
  <1>3. NoLoss'
    BY <1>1, <1>2 DEF NoLoss
  <1>4. ASSUME NEW m \in Ids, m > last PROVE fate'[m].kind = "none"
    <2>1. m \notin batch
      BY <1>1, <1>4 DEF TypeInv, TypeOK, RedisTypeOK, ProcessTypeOK
    <2> QED BY <2>1, <1>4 DEF Unread
  <1> QED BY <1>1, <1>3, <1>4 DEF Unread

\* Between two batches the batch's part of the invariant says little.
LEMMA BatchOver ==
    ASSUME LossInv, UNCHANGED log, db' = db, batch' = {}, rows' = <<>>,
           pc' \in {"down", "warm", "mark", "drain", "idle", "reopen"},
           lsh' \subseteq FpsOf(db), Elems(seenHashes') \subseteq FpsOf(db)
    PROVE  Contents' /\ Fingerprints' /\ Stages' /\ BatchBacked'
  <1>1. Ids' = Ids
    BY DEF Ids
  <1>2. Contents'
    BY <1>1, RowSets DEF LossInv, Contents
  <1>3. Visible' = db
    BY DEF Visible
  <1>4. Fingerprints'
    BY <1>3 DEF Fingerprints
  <1> QED BY <1>2, <1>4 DEF Stages, BatchBacked

\* Outside the assembly of rows, and there as long as there are none, every
\* fingerprint in seen_hashes is stored.
LEMMA SeenStored ==
    ASSUME LossInv, pc # "batch" \/ rows = <<>>
    PROVE  Elems(seenHashes) \subseteq FpsOf(db)
  <1>1. Visible = db
    BY RowSets DEF Visible
  <1> QED BY <1>1 DEF LossInv, Fingerprints

\* An exception outside the assembly of rows loses nothing.
LEMMA RaisesLossInv ==
    ASSUME TypeInv, LossInv, NEW c, Raises(c), pc # "batch" \/ rows = <<>>,
           UNCHANGED <<log, first, db, dlqSeen>>, lsh' \subseteq FpsOf(db),
           NoLoss', Unread'
    PROVE  LossInv'
  <1>1. /\ pc' \in {"down", "reopen"} /\ batch' = {} /\ rows' = <<>>
        /\ seenHashes' \in {seenHashes, <<>>}
    BY RaisesTyped
  <1>2. Elems(seenHashes') \subseteq FpsOf(db)
    BY <1>1, SeenStored, RowSets
  <1> QED BY <1>1, <1>2, BatchOver DEF LossInv

LEMMA InitLossInv == ASSUME Init PROVE LossInv
  <1>1. Ids = {} /\ Elems(rows) = {} /\ Elems(seenHashes) = {}
    BY RowSets DEF Init, Ids
  <1>2. Contents
    BY <1>1 DEF Init, Contents, ContentOf
  <1> QED BY <1>1, <1>2
      DEF Init, LossInv, Fingerprints, Stages, BatchBacked, Unread, NoLoss

LEMMA PublishLossInv ==
    ASSUME TypeInv, LossInv, NEW u \in Urls, Publish(u) PROVE LossInv'
  <1>1. PICK b \in Bodies[u] : log' = Append(log, [url |-> u, body |-> b])
    BY DEF Publish
  <1>2. log \in Seq(Entry) /\ Len(log) \in Nat
    BY DEF TypeInv, TypeOK, RedisTypeOK
  <1>3. Ids' = Ids \cup {Len(log) + 1} /\ Ids = 1 .. Len(log)
    BY <1>1, <1>2 DEF Ids
  <1>4. \A m \in Ids : log'[m] = log[m] /\ fate'[m] = fate[m]
    BY <1>1, <1>2, <1>3 DEF Publish
  <1>5. log'[Len(log) + 1] = [url |-> u, body |-> b] /\ fate'[Len(log) + 1] = NoFate
    BY <1>1, <1>2, <1>3 DEF Publish
  <1>6. batch \subseteq Ids /\ last \in 0 .. Len(log) /\ first \in Nat
    BY <1>2, <1>3 DEF TypeInv, TypeOK, RedisTypeOK, ProcessTypeOK
  <1>7. first' \in Int /\ first <= first'
    BY <1>2, <1>6, ConstantsAssumption DEF Publish
  <1>8. Contents'
    BY <1>3, <1>4, <1>5, <1>6 DEF LossInv, Contents, Publish, procVars
  <1>9. Fingerprints'
    BY DEF LossInv, Fingerprints, Publish, procVars, Visible
  <1>10. Stages'
    BY <1>4, <1>6 DEF LossInv, Stages, Publish, procVars
  <1>11. BatchBacked'
    <2>1. Visible' = Visible /\ db' = db /\ batch' = batch /\ dlqSeen' = dlqSeen
      BY DEF Publish, procVars, Visible
    <2>2. ASSUME NEW m \in batch PROVE Backed(m, Visible)'
      <3>1. Backed(m, Visible)
        BY DEF LossInv, BatchBacked
      <3>2. m \in Int
        BY <1>3, <1>6
      <3>3. log'[m] = log[m] /\ fate'[m] = fate[m] /\ (m < first => m < first')
        BY <1>4, <1>6, <1>7, <3>2
      <3> QED BY <2>1, <3>1, <3>3 DEF Backed
    <2> QED BY <2>1, <2>2 DEF BatchBacked
  <1>12. Unread'
    BY <1>3, <1>4, <1>5 DEF LossInv, Unread, Publish, NoFate
  <1>13. NoLoss'
    <2>1. ASSUME NEW m \in Ids', Settled(m)' PROVE Accounted(m)'
      <3>1. m \in Ids /\ Settled(m)
        BY <1>2, <1>3, <1>6, <2>1 DEF Settled, Publish
      <3>2. Accounted(m)
        BY <3>1 DEF LossInv, NoLoss
      <3>3. /\ m \in Int /\ first \in Int /\ db \subseteq db' /\ dlqSeen \subseteq dlqSeen'
            /\ fate'[m] = fate[m] /\ log'[m] = log[m]
        BY <1>3, <1>4, <1>6, <3>1 DEF Publish
      <3> QED BY <1>7, <3>2, <3>3, AccountedStays
    <2> QED BY <2>1 DEF NoLoss
  <1> QED BY <1>8, <1>9, <1>10, <1>11, <1>12, <1>13 DEF LossInv

\* Startup, the reconnect loop and an empty read: no batch in hand before or
\* after.
LEMMA QuietLossInv ==
    ASSUME TypeInv, LossInv,
           \/ Start \/ WarmFromDb \/ MarkWarmed \/ XReadGroupEmpty \/ Reopen
    PROVE  LossInv'
  <1>1. /\ UNCHANGED <<log, first, last, pel, db, dlqSeen, fate>>
        /\ pc \in {"down", "warm", "mark", "idle", "reopen"}
    BY DEF Start, WarmFromDb, MarkWarmed, XReadGroupEmpty, Reopen, redisVars
  <1>2. NoLoss' /\ Unread'
    BY <1>1, NothingSettled DEF LossInv
  <1>3. lsh' \subseteq FpsOf(db)
    <2>1. lsh \subseteq FpsOf(db)
      BY DEF LossInv, Fingerprints
    <2> QED BY <2>1
        DEF Start, WarmFromDb, MarkWarmed, XReadGroupEmpty, Reopen, redisVars
  <1>4. ASSUME NEW c, Raises(c) PROVE LossInv'
    BY <1>1, <1>2, <1>3, <1>4, RaisesLossInv
  <1>5. CASE /\ pc' \in {"down", "warm", "mark", "drain", "idle", "reopen"}
             /\ UNCHANGED <<batch, rows, seenHashes>>
    <2>1. batch = {} /\ rows = <<>>
      BY <1>1 DEF LossInv, Stages, Fingerprints
    <2>2. Elems(seenHashes) \subseteq FpsOf(db)
      BY <1>1, SeenStored
    <2> QED BY <1>1, <1>2, <1>3, <1>5, <2>1, <2>2, BatchOver DEF LossInv
  <1> QED BY <1>4, <1>5
      DEF Start, WarmFromDb, MarkWarmed, XReadGroupEmpty, Reopen, Returns, locals, procVars

LEMMA CrashLossInv == ASSUME TypeInv, LossInv, Crash PROVE LossInv'
  <1>1. UNCHANGED <<log, first, last, pel, db, dlqSeen, fate, lsh>>
    BY DEF Crash, redisVars
  <1>2. NoLoss' /\ Unread'
    BY <1>1, NothingSettled DEF LossInv
  <1>3. pc' = "down" /\ batch' = {} /\ rows' = <<>> /\ Elems(seenHashes') = {}
    BY RowSets DEF Crash, Dead
  <1> QED BY <1>1, <1>2, <1>3, BatchOver DEF LossInv, Fingerprints

\* The entries just read, with what phase 1 makes of them.
LEMMA ParsedBacked ==
    ASSUME TypeInv, LossInv, NEW S, S \subseteq Ids, batch' = S, fate' = Parsed(S),
           rows = <<>>, pc' = "fetch",
           UNCHANGED <<log, first, db, lsh, rows, seenHashes>>,
           Elems(seenHashes) \subseteq FpsOf(db)
    PROVE  Contents' /\ Fingerprints' /\ Stages' /\ BatchBacked'
  <1>1. Ids' = Ids
    BY DEF Ids
  <1>2. \A m \in S : /\ fate'[m].kind \in {"read", "skipped"}
                     /\ fate'[m].kind = "skipped" => m < first
    BY DEF Parsed
  <1>3. Contents'
    BY <1>1, <1>2, RowSets DEF LossInv, Contents
  <1>4. Fingerprints'
    BY DEF LossInv, Fingerprints, Visible
  <1>5. Stages'
    BY <1>2 DEF Stages
  <1>6. BatchBacked'
    BY <1>2 DEF BatchBacked, Backed
  <1> QED BY <1>3, <1>4, <1>5, <1>6

LEMMA RecoverLossInv == ASSUME TypeInv, LossInv, RecoverPending PROVE LossInv'
  <1>1. UNCHANGED <<log, first, last, pel, db, dlqSeen, lsh>> /\ pc = "drain"
    BY DEF RecoverPending, redisVars
  <1>2. batch = {} /\ rows = <<>>
    BY <1>1 DEF LossInv, Stages, Fingerprints
  <1>3. Elems(seenHashes) \subseteq FpsOf(db) /\ lsh \subseteq FpsOf(db)
    BY <1>1, SeenStored DEF LossInv, Fingerprints
  <1>4. CASE /\ pc' = "idle" /\ UNCHANGED <<locals, fate>>
    <2>1. NoLoss' /\ Unread'
      BY <1>1, <1>4, NothingSettled DEF LossInv
    <2> QED BY <1>1, <1>2, <1>3, <1>4, <2>1, BatchOver DEF LossInv, locals
  <1>5. CASE /\ \E S \in SUBSET pel : batch' = S /\ fate' = Parsed(S)
             /\ Returns("fetch") /\ UNCHANGED <<rows, inserted, seenHashes>>
    <2>1. PICK S \in SUBSET pel : batch' = S /\ fate' = Parsed(S)
      BY <1>5
    <2>2. S \subseteq Ids /\ pel \subseteq Ids /\ \A m \in pel : m <= last
      BY DEF TypeInv, TypeOK, RedisTypeOK, Ids
    <2>3. Contents' /\ Fingerprints' /\ Stages' /\ BatchBacked'
      BY <1>1, <1>2, <1>3, <1>5, <2>1, <2>2, ParsedBacked DEF Returns
    <2>4. \A m \in Ids \ S : fate'[m] = fate[m]
      BY <2>1 DEF Parsed
    <2>5. Ids' = Ids /\ Ids \subseteq Int /\ first \in Int /\ last \in Int
      BY <1>1 DEF Ids, TypeInv, TypeOK, RedisTypeOK
    <2>6. NoLoss'
      <3>1. ASSUME NEW m \in Ids, Settled(m)' PROVE Accounted(m)'
        <4>1. Settled(m) /\ m \notin S
          BY <1>1, <2>1, <3>1 DEF Settled
        <4>2. Accounted(m)
          BY <4>1 DEF LossInv, NoLoss
        <4> QED BY <1>1, <2>4, <2>5, <4>1, <4>2, AccountedStays
      <3> QED BY <2>5, <3>1 DEF NoLoss
    <2>7. Unread'
      BY <1>1, <2>2, <2>4, <2>5 DEF LossInv, Unread
    <2> QED BY <2>3, <2>6, <2>7 DEF LossInv
  <1>6. CASE Raises("xread") /\ UNCHANGED fate
    <2>1. NoLoss' /\ Unread'
      BY <1>1, <1>6, NothingSettled DEF LossInv
    <2> QED BY <1>1, <1>3, <1>6, <2>1, RaisesLossInv
  <1> QED BY <1>4, <1>5, <1>6 DEF RecoverPending

LEMMA ReadLossInv == ASSUME TypeInv, LossInv, XReadGroup PROVE LossInv'
  <1>1. PICK S \in SUBSET Undelivered :
          /\ IsOldest(S, Undelivered, BatchSize)
          /\ \/ /\ batch' = S /\ fate' = Parsed(S)
                /\ Returns("fetch") /\ UNCHANGED <<rows, inserted, seenHashes>>
             \/ Raises("xread") /\ UNCHANGED fate
          /\ pel' = pel \cup S
          /\ last' \in S /\ \A m \in S : m <= last'
    BY DEF XReadGroup
  <1>2. UNCHANGED <<log, first, db, dlqSeen, lsh>> /\ pc = "idle"
    BY DEF XReadGroup
  <1>3. batch = {} /\ rows = <<>>
    BY <1>2 DEF LossInv, Stages, Fingerprints
  <1>4. Elems(seenHashes) \subseteq FpsOf(db) /\ lsh \subseteq FpsOf(db)
    BY <1>2, SeenStored DEF LossInv, Fingerprints
  <1>5. Ids' = Ids /\ Ids \subseteq Int /\ S \subseteq Ids /\ first \in Int /\ last \in Int
        /\ last' \in Int /\ last < last'
    BY <1>1, <1>2 DEF Ids, Undelivered, TypeInv, TypeOK, RedisTypeOK
  <1>6. \A m \in Ids \ S : fate'[m] = fate[m]
    BY <1>1 DEF Parsed
  <1>7. NoLoss'
    <2>1. ASSUME NEW m \in Ids, Settled(m)' PROVE Accounted(m)'
      <3>1. m <= last' /\ m \notin pel /\ m \notin S
        BY <1>1, <2>1 DEF Settled
      <3>2. CASE m <= last
        <4>1. Accounted(m)
          BY <3>1, <3>2 DEF Settled, LossInv, NoLoss
        <4> QED BY <1>2, <1>5, <1>6, <3>1, <4>1, AccountedStays
      <3>3. CASE m > last
        <4>1. m \notin Undelivered
          <5>1. SUFFICES ASSUME m \in Undelivered PROVE FALSE
            OBVIOUS
          <5>2. last' < m
            BY <1>1, <3>1, <5>1 DEF IsOldest
          <5> QED BY <1>5, <3>1, <5>2
        <4>2. m < first
          BY <1>5, <3>3, <4>1 DEF Undelivered
        <4>3. fate'[m].kind = "none"
          BY <1>6, <3>1, <3>3 DEF LossInv, Unread
        <4> QED BY <1>2, <4>2, <4>3 DEF Accounted, Backed, Finished
      <3> QED BY <1>5, <3>2, <3>3
    <2> QED BY <1>5, <2>1 DEF NoLoss
  <1>8. Unread'
    BY <1>1, <1>5, <1>6 DEF LossInv, Unread
  <1>9. CASE /\ batch' = S /\ fate' = Parsed(S)
             /\ Returns("fetch") /\ UNCHANGED <<rows, inserted, seenHashes>>
    <2>1. Contents' /\ Fingerprints' /\ Stages' /\ BatchBacked'
      BY <1>2, <1>3, <1>4, <1>5, <1>9, ParsedBacked DEF Returns
    <2> QED BY <1>7, <1>8, <2>1 DEF LossInv
  <1>10. CASE Raises("xread") /\ UNCHANGED fate
    BY <1>2, <1>4, <1>7, <1>8, <1>10, RaisesLossInv
  <1> QED BY <1>1, <1>9, <1>10

LEMMA FetchLossInv == ASSUME TypeInv, LossInv, FetchMany PROVE LossInv'
  <1>1. UNCHANGED <<log, first, last, pel, db, dlqSeen, lsh>> /\ pc = "fetch" /\ Ids' = Ids
    BY DEF FetchMany, redisVars, Ids
  <1>2. rows = <<>> /\ batch \subseteq Ids
    BY <1>1 DEF LossInv, Fingerprints, TypeInv, TypeOK, RedisTypeOK, ProcessTypeOK, Ids
  <1>3. Elems(seenHashes) \subseteq FpsOf(db) /\ lsh \subseteq FpsOf(db)
    BY <1>1, SeenStored DEF LossInv, Fingerprints
  <1>4. CASE /\ \E got \in [batch -> UNION {Extractions(m) : m \in batch}] :
                  /\ \A m \in batch : got[m] \in Extractions(m)
                  /\ fate' = [m \in Ids |-> IF m \in batch THEN got[m] ELSE fate[m]]
             /\ Returns("batch") /\ UNCHANGED locals
    <2>1. \A m \in Ids \ batch : fate'[m] = fate[m]
      BY <1>4
    <2>2. NoLoss' /\ Unread'
      BY <1>1, <2>1, NothingSettled DEF LossInv
    <2>3. ASSUME NEW m \in batch
          PROVE  /\ fate'[m].kind \in {"skipped", "extracted"} \cup MissKinds
                 /\ fate'[m].kind = "extracted" => fate'[m].fp \in ContentOf(log[m].url)
                 /\ fate'[m].kind = "skipped" => m < first
      <3>1. fate'[m] \in Extractions(m)
        BY <1>2, <1>4
      <3>2. fate[m].kind \in {"read", "skipped"} /\ (fate[m].kind = "skipped" => m < first)
        BY <1>1 DEF LossInv, Stages, BatchBacked, Backed
      <3>3. log[m].url \in Urls
        BY MessageTyped
      <3>4. CASE fate[m].kind = "skipped"
        BY <3>1, <3>2, <3>4 DEF Extractions
      <3>5. CASE fate[m].kind # "skipped" /\ Inline(m)
        <4>1. log[m].body \in Bodies[log[m].url] \ {None}
          BY <1>2, <3>5 DEF Inline, LossInv, Contents
        <4> QED BY <3>1, <3>5, <4>1 DEF Extractions, ContentOf
      <3>6. CASE fate[m].kind # "skipped" /\ ~ Inline(m)
        <4>1. \/ fate'[m] \in [kind: {"extracted"}, fp: Pages[log[m].url]]
              \/ fate'[m] \in [kind: Misses[log[m].url], fp: {None}]
          BY <3>1, <3>6 DEF Extractions
        <4>2. Misses[log[m].url] \subseteq MissKinds
          BY <3>3, ConstantsAssumption
        <4> QED BY <4>1, <4>2 DEF ContentOf, MissKinds
      <3> QED BY <3>4, <3>5, <3>6
    <2>4. UNCHANGED <<batch, rows, seenHashes>> /\ pc' = "batch"
      BY <1>4 DEF Returns, locals
    <2>5. Contents'
      BY <1>1, <1>2, <2>3, <2>4, RowSets DEF LossInv, Contents
    <2>6. Visible' = db
      BY <1>1, <1>2, <2>4, RowSets DEF Visible
    <2>7. Fingerprints'
      BY <1>1, <1>3, <2>4, <2>6 DEF Fingerprints
    <2>8. Stages'
      BY <2>3, <2>4 DEF Stages, MissKinds
    <2>9. BatchBacked'
      BY <1>1, <2>3, <2>4 DEF BatchBacked, Backed, MissKinds
    <2> QED BY <2>2, <2>5, <2>7, <2>8, <2>9 DEF LossInv
  <1>5. CASE Raises("fetch") /\ UNCHANGED fate
    <2>1. NoLoss' /\ Unread'
      BY <1>1, <1>5, NothingSettled DEF LossInv
    <2> QED BY <1>1, <1>3, <1>5, <2>1, RaisesLossInv
  <1> QED BY <1>4, <1>5 DEF FetchMany

LEMMA PushLossInv == ASSUME TypeInv, LossInv, NoRiskyFaults, PushDlq PROVE LossInv'
  <1>1. PICK m \in OfKind("unfetched") :
          fate' = [fate EXCEPT ![m].kind = "parked"] /\ Park(m)
    BY DEF PushDlq, NoRiskyFaults
  <1>2. m \in batch /\ fate[m].kind = "unfetched"
    BY DEF OfKind
  <1>3. /\ UNCHANGED <<log, first, last, pel, db, lsh, batch, rows, seenHashes>>
        /\ pc = "batch" /\ pc' = pc /\ Ids' = Ids
    BY DEF PushDlq, procVars, Ids
  <1>4. m \in dlqSeen' /\ dlqSeen \subseteq dlqSeen'
    BY <1>1 DEF Park
  <1>5. \A n \in Ids : fate'[n] = IF n = m THEN [kind |-> "parked", fp |-> fate[m].fp]
                                          ELSE fate[n]
    BY <1>1, <1>2, FateKindTyped DEF BareKinds
  <1>6. batch \subseteq Ids /\ m \in Ids
    BY <1>2, MessageTyped
  <1>7. NoLoss' /\ Unread'
    BY <1>2, <1>3, <1>4, <1>5, NothingSettled DEF LossInv
  <1>8. Contents'
    BY <1>3, <1>5, <1>6 DEF LossInv, Contents
  <1>9. Visible' = Visible
    BY <1>3 DEF Visible
  <1>10. Fingerprints'
    BY <1>3, <1>9 DEF LossInv, Fingerprints
  <1>11. Stages'
    BY <1>3, <1>5, <1>6 DEF LossInv, Stages
  <1>12. BatchBacked'
    <2>1. ASSUME NEW n \in batch PROVE Backed(n, Visible)'
      <3>1. Backed(n, Visible)
        BY DEF LossInv, BatchBacked
      <3> QED BY <1>3, <1>4, <1>5, <1>6, <1>9, <3>1 DEF Backed
    <2> QED BY <1>3, <2>1 DEF BatchBacked
  <1> QED BY <1>7, <1>8, <1>10, <1>11, <1>12 DEF LossInv

\* A duplicate has a near-duplicate among the rows stored or about to be.
LEMMA KnownBacked ==
    ASSUME TypeInv, LossInv, NEW f \in Fps, Known(f)
    PROVE  \E r \in Visible : <<f, r.fp>> \in Close
  <1>1. PICK g \in FpsOf(Visible) : <<f, g>> \in Close
    <2>1. CASE IsDuplicate(f)
      <3>1. lsh \subseteq FpsOf(Visible)
        BY DEF LossInv, Fingerprints, Visible, FpsOf
      <3> QED BY <2>1, <3>1 DEF IsDuplicate
    <2>2. CASE f \in Elems(seenHashes)
      BY <2>2, ConstantsAssumption DEF LossInv, Fingerprints
    <2> QED BY <2>1, <2>2 DEF Known
  <1> QED BY <1>1 DEF FpsOf

LEMMA AssessLossInv == ASSUME TypeInv, LossInv, NoRiskyFaults, Assess PROVE LossInv'
  <1>1. PICK m \in OfKind("extracted") :
          Returns("batch") /\ (Reject(m) \/ DropDuplicate(m) \/ AddRow(m))
    BY DEF Assess, Raises, NoRiskyFaults
  <1>2. m \in batch /\ fate[m].kind = "extracted"
    BY DEF OfKind
  <1>3. fate[m].fp \in Fps /\ log[m].url \in Urls /\ batch \subseteq Ids
    BY <1>2, MessageTyped DEF ContentKinds
  <1>4. /\ UNCHANGED <<log, first, last, pel, db, dlqSeen, lsh, batch>>
        /\ pc = "batch" /\ pc' = "batch" /\ Ids' = Ids
    BY <1>1 DEF Assess, Returns, Reject, DropDuplicate, AddRow, locals, redisVars, Ids
  <1>5. PICK k \in {"rejected", "dup", "row"} :
          /\ \A n \in Ids : fate'[n] = IF n = m THEN [kind |-> k, fp |-> fate[m].fp]
                                                ELSE fate[n]
          /\ k = "rejected" => UNCHANGED <<rows, seenHashes>>
          /\ k = "dup" => Known(fate[m].fp) /\ UNCHANGED <<rows, seenHashes>>
          /\ k = "row" => AddRow(m)
    <2>1. ASSUME NEW k \in {"rejected", "dup", "row"}
          PROVE  \A n \in Ids : [fate EXCEPT ![m].kind = k][n] =
                    IF n = m THEN [kind |-> k, fp |-> fate[m].fp] ELSE fate[n]
      BY <1>2, FateKindTyped DEF ContentKinds
    <2> QED BY <1>1, <2>1 DEF Reject, DropDuplicate, AddRow, locals
  <1> DEFINE new == [url |-> log[m].url, fp |-> fate[m].fp]
  <1>6. /\ Elems(rows') = IF k = "row" THEN Elems(rows) \cup {new} ELSE Elems(rows)
        /\ Elems(seenHashes') \subseteq Elems(seenHashes) \cup
              (IF k = "row" THEN {fate[m].fp} ELSE {})
    <2>1. rows \in Seq(Row) /\ new \in Row /\ seenHashes \in Seq(Fps)
      BY <1>3 DEF Row, TypeInv, TypeOK, ProcessTypeOK
    <2>2. Elems(Append(rows, new)) = Elems(rows) \cup {new}
      BY <2>1, AppendElems
    <2>3. Elems(AppendBounded(seenHashes, fate[m].fp)) \subseteq Elems(seenHashes) \cup {fate[m].fp}
      BY <1>3, <2>1, DequeAppend
    <2> QED BY <1>5, <2>2, <2>3 DEF AddRow
  <1>7. NoLoss' /\ Unread'
    BY <1>2, <1>4, <1>5, NothingSettled DEF LossInv
  <1>8. Visible \subseteq Visible' /\ (k = "row" => new \in Visible')
    BY <1>4, <1>6 DEF Visible
  <1>9. Contents'
    <2>1. fate[m].fp \in ContentOf(log[m].url)
      BY <1>2 DEF LossInv, Contents
    <2> QED BY <1>3, <1>4, <1>5, <1>6, <2>1 DEF LossInv, Contents
  <1>10. Fingerprints'
    <2>1. FpsOf(Visible) \subseteq FpsOf(Visible')
      BY <1>8 DEF FpsOf
    <2>2. k = "row" => fate[m].fp \in FpsOf(Visible')
      <3>1. new.fp = fate[m].fp
        OBVIOUS
      <3> HIDE DEF new
      <3> QED BY <1>8, <3>1 DEF FpsOf
    <2>3. Elems(seenHashes') \subseteq FpsOf(Visible')
      BY <1>6, <2>1, <2>2 DEF LossInv, Fingerprints
    <2> QED BY <1>4, <2>3 DEF LossInv, Fingerprints
  <1>11. Stages'
    BY <1>3, <1>4, <1>5 DEF LossInv, Stages
  <1>12. BatchBacked'
    <2>1. ASSUME NEW n \in batch, n # m PROVE Backed(n, Visible)'
      <3>1. Backed(n, Visible) /\ fate'[n] = fate[n]
        BY <1>3, <1>5, <2>1 DEF LossInv, BatchBacked
      <3>2. UrlsOf(Visible) \subseteq UrlsOf(Visible')
        BY <1>8 DEF UrlsOf
      <3> QED BY <1>4, <1>8, <3>1, <3>2 DEF Backed
    <2>2. Backed(m, Visible)'
      <3>1. fate'[m] = [kind |-> k, fp |-> fate[m].fp]
        BY <1>2, <1>3, <1>5
      <3>2. CASE k = "rejected"
        BY <3>1, <3>2 DEF Backed
      <3>3. CASE k = "dup"
        <4>1. \E r \in Visible : <<fate[m].fp, r.fp>> \in Close
          BY <1>3, <1>5, <3>3, KnownBacked
        <4> QED BY <1>4, <1>8, <3>1, <3>3, <4>1, SMTT(30) DEF Backed
      <3>4. CASE k = "row"
        <4>1. log[m].url \in UrlsOf(Visible')
          <5>1. new.url = log[m].url
            OBVIOUS
          <5> HIDE DEF new
          <5> QED BY <1>8, <3>4, <5>1 DEF UrlsOf
        <4> QED BY <1>4, <3>1, <3>4, <4>1 DEF Backed
      <3> QED BY <3>2, <3>3, <3>4
    <2> QED BY <1>4, <2>1, <2>2 DEF BatchBacked
  <1> QED BY <1>7, <1>9, <1>10, <1>11, <1>12 DEF LossInv

LEMMA InsertLossInv ==
    ASSUME TypeInv, LossInv, StableContent, NoRiskyFaults, InsertArticles
    PROVE  LossInv'
  <1>1. /\ db' = db \cup NewRows(rows)
        /\ pc = "batch" /\ pc' \in {"index", "count"} /\ Assessed
        /\ UNCHANGED <<log, first, last, pel, dlqSeen, lsh, fate, batch, rows, seenHashes>>
    BY DEF InsertArticles, Raises, NoRiskyFaults, Returns, redisVars
  <1>2. Ids' = Ids
    BY <1>1 DEF Ids
  <1>3. NoLoss' /\ Unread'
    BY <1>1, NothingSettled DEF LossInv
  <1>4. \A r \in Elems(rows) : \E q \in db' : q.url = r.url /\ q.fp = r.fp
    BY <1>1, InsertCovers DEF LossInv
  <1>5. \A r \in Visible : \E q \in db' : q.url = r.url /\ q.fp = r.fp
    BY <1>1, <1>4 DEF Visible
  <1>6. /\ FpsOf(Elems(rows)) \subseteq FpsOf(db')
        /\ FpsOf(Visible) \subseteq FpsOf(db')
        /\ UrlsOf(Visible) \subseteq UrlsOf(db')
        /\ FpsOf(db) \subseteq FpsOf(db')
    BY <1>1, <1>4, <1>5 DEF FpsOf, UrlsOf
  <1>7. Visible' = db'
    BY <1>1 DEF Visible
  <1>8. Contents'
    <2>1. NewRows(rows) \subseteq Elems(rows)
      BY DEF NewRows, Fresh, Elems
    <2> QED BY <1>1, <1>2, <2>1 DEF LossInv, Contents
  <1>9. Fingerprints'
    BY <1>1, <1>6, <1>7 DEF LossInv, Fingerprints
  <1>10. Stages'
    <2>1. ASSUME NEW m \in batch PROVE fate[m].kind \in Finished
      <3>1. fate[m] \in Fate /\ fate[m].kind \notin {"none", "read", "unfetched", "extracted"}
        BY <1>1, MessageTyped DEF LossInv, Stages, Assessed, OfKind
      <3> QED BY <3>1 DEF Fate, BareKinds, ContentKinds, Finished
    <2> QED BY <1>1, <2>1 DEF Stages
  <1>11. BatchBacked'
    <2>1. ASSUME NEW m \in batch PROVE Backed(m, Visible)'
      <3>1. Backed(m, Visible)
        BY DEF LossInv, BatchBacked
      <3>2. (\E r \in Visible : <<fate[m].fp, r.fp>> \in Close)
              => \E q \in db' : <<fate[m].fp, q.fp>> \in Close
        BY <1>5
      <3> QED BY <1>1, <1>6, <1>7, <3>1, <3>2 DEF Backed
    <2> QED BY <1>1, <2>1 DEF BatchBacked
  <1> QED BY <1>3, <1>8, <1>9, <1>10, <1>11 DEF LossInv

LEMMA CountLossInv ==
    ASSUME TypeInv, LossInv, CountStored \/ CountBySource \/ CountRejected
    PROVE  LossInv'
  <1>1. UNCHANGED <<log, first, last, pel, db, dlqSeen, lsh, fate>>
    BY DEF CountStored, CountBySource, CountRejected
  <1>2. NoLoss' /\ Unread'
    BY <1>1, NothingSettled DEF LossInv
  <1>3. pc # "batch" \/ rows = <<>>
    BY DEF CountStored, CountBySource, CountRejected
  <1>4. ASSUME NEW c, Raises(c) PROVE LossInv'
    <2>1. lsh' \subseteq FpsOf(db)
      BY <1>1 DEF LossInv, Fingerprints
    <2> QED BY <1>1, <1>2, <1>3, <1>4, <2>1, RaisesLossInv
  <1>5. CASE /\ UNCHANGED <<batch, rows, seenHashes>>
             /\ \/ pc \in {"count", "bySource"} /\ pc' \in {"bySource", "index"}
                \/ pc = "stats" /\ pc' = "xack"
                \/ pc = "batch" /\ Assessed /\ rows = <<>> /\ pc' = "xack"
    <2>1. Ids' = Ids /\ Visible' = Visible
      BY <1>1, <1>5, RowSets DEF Ids, Visible
    <2>2. Contents'
      BY <1>1, <1>5, <2>1 DEF LossInv, Contents
    <2>3. Fingerprints'
      BY <1>1, <1>5, <2>1 DEF LossInv, Fingerprints
    <2>4. Stages'
      <3>1. ASSUME NEW m \in batch PROVE fate[m].kind \in Finished
        <4>1. CASE pc = "batch"
          <5>1. fate[m] \in Fate /\ fate[m].kind \notin {"none", "read", "unfetched", "extracted"}
            BY <1>5, <4>1, MessageTyped DEF LossInv, Stages, Assessed, OfKind
          <5> QED BY <5>1 DEF Fate, BareKinds, ContentKinds, Finished
        <4>2. CASE pc \in {"count", "bySource", "stats"}
          BY <4>2 DEF LossInv, Stages
        <4> QED BY <1>5, <4>1, <4>2
      <3> QED BY <1>1, <1>5, <3>1 DEF Stages
    <2>5. BatchBacked'
      BY <1>1, <1>5, <2>1 DEF LossInv, BatchBacked, Backed
    <2> QED BY <1>2, <2>2, <2>3, <2>4, <2>5 DEF LossInv
  <1> QED BY <1>4, <1>5 DEF CountStored, CountBySource, CountRejected, Returns, locals

LEMMA IndexLossInv == ASSUME TypeInv, LossInv, Index PROVE LossInv'
  <1>1. UNCHANGED <<log, first, last, pel, db, dlqSeen, fate>> /\ pc = "index"
    BY DEF Index
  <1>2. NoLoss' /\ Unread'
    BY <1>1, NothingSettled DEF LossInv
  <1>3. rows \in Seq(Row) /\ rows # <<>>
    BY <1>1 DEF TypeInv, TypeOK, ProcessTypeOK, Sane
  <1>4. /\ Head(rows) \in Elems(rows)
        /\ Elems(Tail(rows)) \subseteq Elems(rows)
        /\ Len(rows) = 1 => Tail(rows) = <<>>
    BY <1>3, TailElems
  <1>5. lsh' \subseteq FpsOf(db)
    <2>1. Head(rows).fp \in FpsOf(db) /\ lsh \subseteq FpsOf(db)
      BY <1>1, <1>4 DEF LossInv, Fingerprints, FpsOf
    <2> QED BY <2>1 DEF Index
  <1>6. CASE Raises("index")
    BY <1>1, <1>2, <1>5, <1>6, RaisesLossInv
  <1>7. CASE /\ rows' = Tail(rows)
             /\ Returns(IF Len(rows) = 1 THEN "stats" ELSE "index")
             /\ UNCHANGED <<batch, inserted, seenHashes>>
    <2>1. Ids' = Ids /\ Visible' = db /\ Visible = db
      BY <1>1, <1>7 DEF Ids, Visible, Returns
    <2>2. Contents'
      BY <1>1, <1>4, <1>7, <2>1 DEF LossInv, Contents
    <2>3. Fingerprints'
      <3>1. FpsOf(Elems(rows')) \subseteq FpsOf(db)
        BY <1>1, <1>4, <1>7 DEF LossInv, Fingerprints, FpsOf
      <3> QED BY <1>1, <1>4, <1>5, <1>7, <2>1, <3>1 DEF LossInv, Fingerprints, Returns
    <2>4. Stages'
      BY <1>1, <1>7 DEF LossInv, Stages, Returns
    <2>5. BatchBacked'
      BY <1>1, <1>7, <2>1 DEF LossInv, BatchBacked, Backed
    <2> QED BY <1>2, <2>2, <2>3, <2>4, <2>5 DEF LossInv
  <1> QED BY <1>6, <1>7 DEF Index

LEMMA AckLossInv == ASSUME TypeInv, LossInv, XAck PROVE LossInv'
  <1>1. UNCHANGED <<log, first, last, db, dlqSeen, lsh, fate>> /\ pc = "xack"
    BY DEF XAck
  <1>2. pel' \in {pel, pel \ batch} /\ Ids' = Ids /\ first \in Int /\ Ids \subseteq Int
    BY <1>1 DEF XAck, Ids, TypeInv, TypeOK, RedisTypeOK
  <1>3. NoLoss'
    <2>1. ASSUME NEW m \in Ids, Settled(m)' PROVE Accounted(m)
      <3>1. Settled(m) \/ m \in batch
        BY <1>1, <1>2, <2>1 DEF Settled
      <3>2. CASE Settled(m)
        BY <3>2 DEF LossInv, NoLoss
      <3>3. CASE m \in batch
        <4>1. Visible = db
          BY <1>1 DEF Visible
        <4> QED BY <1>1, <3>3, <4>1 DEF LossInv, Stages, BatchBacked, Accounted
      <3> QED BY <3>1, <3>2, <3>3
    <2>2. ASSUME NEW m \in Ids, Accounted(m) PROVE Accounted(m)'
      BY <1>1, <1>2, <2>2, AccountedStays
    <2> QED BY <1>2, <2>1, <2>2 DEF NoLoss
  <1>4. Unread'
    BY <1>1, <1>2 DEF LossInv, Unread
  <1>5. lsh' \subseteq FpsOf(db) /\ rows = <<>>
    BY <1>1 DEF LossInv, Fingerprints
  <1>6. CASE Raises("xack")
    BY <1>1, <1>3, <1>4, <1>5, <1>6, RaisesLossInv
  <1>7. CASE /\ batch' = {} /\ pc' \in {"idle", "drain"}
             /\ UNCHANGED <<rows, seenHashes>>
    <2>1. Elems(seenHashes) \subseteq FpsOf(db)
      BY <1>5, SeenStored
    <2> QED BY <1>1, <1>3, <1>4, <1>5, <1>7, <2>1, BatchOver DEF LossInv
  <1> QED BY <1>6, <1>7 DEF XAck, Returns

LEMMA StutterLossInv == ASSUME TypeInv, LossInv, UNCHANGED vars PROVE LossInv'
  <1>1. /\ UNCHANGED <<log, first, last, pel, db, dlqSeen, lsh, fate>>
        /\ UNCHANGED <<pc, batch, rows, seenHashes>>
    BY DEF vars, redisVars, procVars
  <1>2. Ids' = Ids /\ Visible' = Visible
    BY <1>1 DEF Ids, Visible
  <1>3. NoLoss' /\ Unread'
    BY <1>1, NothingSettled DEF LossInv
  <1>4. Contents' /\ Fingerprints'
    BY <1>1, <1>2 DEF LossInv, Contents, Fingerprints
  <1>5. Stages' /\ BatchBacked'
    BY <1>1, <1>2 DEF LossInv, Stages, BatchBacked, Backed
  <1> QED BY <1>3, <1>4, <1>5 DEF LossInv

\* Every step keeps the invariant.
LEMMA NextLossInv ==
    ASSUME StableContent, NoRiskyFaults, TypeInv, LossInv, [Next]_vars
    PROVE  LossInv'
  <1>1. CASE Process
    BY <1>1, QuietLossInv, RecoverLossInv, ReadLossInv, FetchLossInv, PushLossInv,
       AssessLossInv, InsertLossInv, CountLossInv, IndexLossInv, AckLossInv
    DEF Process
  <1>2. CASE Crash
    BY <1>2, CrashLossInv
  <1>3. CASE \E u \in Urls : Publish(u)
    BY <1>3, PublishLossInv
  <1>4. CASE UNCHANGED vars
    BY <1>4, StutterLossInv
  <1> QED BY <1>1, <1>2, <1>3, <1>4 DEF Next

\* The failure policy of main.py, "no data loss": as long as a URL stands for
\* one document and no call raises between the first append to seen_hashes
\* and the commit or inside push_dlq, a message leaves the queue only when it
\* is accounted for, whatever crashes and other exceptions interrupt the
\* attempts at it, and every indexed fingerprint belongs to a stored row.
THEOREM NothingLost ==
    ASSUME StableContent, NoRiskyFaults
    PROVE  Spec => [](NoLoss /\ IndexBackedByRows)
  <1>1. Init => TypeInv /\ LossInv
    BY InitTyped, InitLossInv
  <1>2. TypeInv /\ LossInv /\ [Next]_vars => (TypeInv /\ LossInv)'
    BY NextTyped, NextLossInv
  <1>3. TypeInv /\ LossInv => NoLoss /\ IndexBackedByRows
    BY DEF LossInv, Fingerprints, IndexBackedByRows
  <1> QED BY <1>1, <1>2, <1>3, PTL DEF Spec

-----------------------------------------------------------------------------
(***************************************************************************)
(* The processor has one batch in hand at a time, and it implements the    *)
(* delivery contract.                                                      *)
(***************************************************************************)

\* The locations inside process_batch.
InBatch == {"fetch", "batch", "count", "bySource", "index", "stats", "xack"}

\* While a batch is processed it is the whole pending list; the main loop
\* reads only when the list is empty.
InHand ==
    /\ Cardinality(pel) <= BatchSize
    /\ pc = "idle" => pel = {}
    /\ pc \in InBatch => batch = pel

\* A step that neither reads nor acks, and does not leave the batch it is in.
LEMMA SameBatch ==
    ASSUME InHand, pel' = pel, pc' = "idle" => pel = {} \/ pc = "idle",
           pc' \in InBatch => pc \in InBatch /\ batch' = batch
    PROVE  InHand'
  BY DEF InHand

\* The pending list fits in one batch, so recovery reads all of it.
LEMMA OldestIsAll ==
    ASSUME TypeInv, InHand, NEW S \in SUBSET pel, IsOldest(S, pel, BatchSize)
    PROVE  S = pel
  <1>1. IsFiniteSet(pel) /\ Cardinality(pel) \in Nat
    <2>1. last \in Nat /\ pel \subseteq 1 .. last
      BY DEF TypeInv, TypeOK, RedisTypeOK
    <2> QED BY <2>1, IdsFinite
  <1>2. Cardinality(S) <= Cardinality(pel) /\ (Cardinality(pel) = Cardinality(S) => S = pel)
    BY <1>1, FS_Subset
  <1>3. Cardinality(S) \in Nat
    BY <1>1, FS_Subset, FS_CardinalityType
  <1>4. BatchSize \in Nat /\ Cardinality(pel) <= BatchSize
    BY ConstantsAssumption DEF InHand
  <1>5. S = pel \/ Cardinality(S) = BatchSize
    BY DEF IsOldest
  <1> QED BY <1>1, <1>2, <1>3, <1>4, <1>5

LEMMA RaisesInHand ==
    ASSUME TypeInv, InHand, NEW c, Raises(c), Cardinality(pel') <= BatchSize
    PROVE  InHand'
  <1>1. pc' \in {"down", "reopen"}
    BY RaisesTyped
  <1> QED BY <1>1 DEF InHand, InBatch

LEMMA InitInHand == Init => InHand
  BY FS_EmptySet, ConstantsAssumption DEF Init, InHand, InBatch

LEMMA ReadInHand == ASSUME TypeInv, InHand, XReadGroup PROVE InHand' /\ pel = {}
  <1>1. PICK S \in SUBSET Undelivered :
          /\ IsOldest(S, Undelivered, BatchSize)
          /\ (batch' = S /\ Returns("fetch")) \/ Raises("xread")
          /\ pel' = pel \cup S
    BY DEF XReadGroup
  <1>2. pel = {} /\ pel' = S /\ Cardinality(S) <= BatchSize
    BY <1>1 DEF XReadGroup, InHand, IsOldest
  <1>3. CASE batch' = S /\ Returns("fetch")
    BY <1>2, <1>3 DEF Returns, InHand
  <1>4. CASE Raises("xread")
    BY <1>2, <1>4, RaisesInHand
  <1> QED BY <1>1, <1>2, <1>3, <1>4

LEMMA RecoverInHand == ASSUME TypeInv, InHand, RecoverPending PROVE InHand' /\ pel' = pel
  <1>1. pel' = pel /\ Cardinality(pel') <= BatchSize
    BY DEF RecoverPending, redisVars, InHand
  <1>2. CASE pel = {} /\ pc' = "idle"
    BY <1>1, <1>2 DEF InHand, InBatch
  <1>3. CASE /\ \E S \in SUBSET pel : IsOldest(S, pel, BatchSize) /\ batch' = S
             /\ Returns("fetch")
    <2>1. batch' = pel
      BY <1>3, OldestIsAll
    <2> QED BY <1>1, <1>3, <2>1 DEF InHand, Returns
  <1>4. CASE Raises("xread")
    BY <1>1, <1>4, RaisesInHand
  <1> QED BY <1>1, <1>2, <1>3, <1>4 DEF RecoverPending

LEMMA AckInHand == ASSUME TypeInv, InHand, XAck PROVE InHand' /\ pel' \in {pel, {}}
  <1>1. pc = "xack" /\ batch = pel /\ pel' \in {pel, {}}
    <2>1. pc = "xack" /\ pel' \in {pel, pel \ batch}
      BY DEF XAck
    <2>2. batch = pel
      BY <2>1 DEF InHand, InBatch
    <2> QED BY <2>1, <2>2
  <1>2. Cardinality(pel') <= BatchSize
    <2>1. Cardinality({}) <= BatchSize
      BY FS_EmptySet, ConstantsAssumption
    <2> QED BY <1>1, <2>1 DEF InHand
  <1>3. CASE pel' = pel \ batch /\ Returns(IF mode = "main" THEN "idle" ELSE "drain")
    <2>1. pel' = {} /\ pc' \notin InBatch
      BY <1>1, <1>3 DEF Returns, InBatch
    <2> QED BY <1>1, <1>2, <2>1 DEF InHand
  <1>4. CASE Raises("xack")
    BY <1>1, <1>2, <1>4, RaisesInHand
  <1> QED BY <1>1, <1>3, <1>4 DEF XAck

\* Steps that leave the pending list alone.
Others ==
    \/ Start \/ WarmFromDb \/ MarkWarmed \/ XReadGroupEmpty \/ FetchMany
    \/ PushDlq \/ Assess \/ InsertArticles \/ CountStored \/ CountBySource
    \/ Index \/ CountRejected \/ Reopen \/ Crash

LEMMA OthersInHand ==
    ASSUME TypeInv, InHand, Others
    PROVE  InHand' /\ UNCHANGED <<log, last, pel>>
  <1>1. UNCHANGED <<log, last, pel>>
    BY DEF Others, Start, WarmFromDb, MarkWarmed, XReadGroupEmpty, FetchMany, PushDlq,
       Assess, InsertArticles, CountStored, CountBySource, Index, CountRejected,
       Reopen, Crash, redisVars
  <1>2. ASSUME NEW c, Raises(c) PROVE InHand'
    BY <1>1, <1>2, RaisesInHand DEF InHand
  <1>3. CASE Start \/ WarmFromDb \/ MarkWarmed \/ Reopen \/ Crash
    <2>1. \/ \E c \in Calls : Raises(c)
          \/ pc' \in {"warm", "drain", "mark", "reopen", "down"}
      BY <1>3 DEF Start, WarmFromDb, MarkWarmed, Reopen, Crash, Dead, Returns, procVars, Calls
    <2> QED BY <1>1, <1>2, <2>1, SameBatch DEF InBatch
  <1>4. CASE XReadGroupEmpty
    <2>1. Raises("xread") \/ (pc' = pc /\ batch' = batch)
      BY <1>4 DEF XReadGroupEmpty, procVars
    <2> QED BY <1>1, <1>2, <2>1, SameBatch DEF InBatch
  <1>5. CASE FetchMany \/ PushDlq \/ Assess
    <2>1. \/ \E c \in Calls : Raises(c)
          \/ pc \in InBatch /\ pc' = "batch" /\ batch' = batch
      BY <1>5
      DEF FetchMany, PushDlq, Assess, Reject, DropDuplicate, AddRow, Returns,
          locals, procVars, Calls, InBatch
    <2> QED BY <1>1, <1>2, <2>1, SameBatch
  <1>6. CASE InsertArticles \/ CountStored \/ CountBySource \/ Index \/ CountRejected
    <2>1. \/ \E c \in Calls : Raises(c)
          \/ pc \in InBatch /\ pc' \in InBatch \ {"idle"} /\ batch' = batch
      BY <1>6
      DEF InsertArticles, CountStored, CountBySource, Index, CountRejected, Returns,
          locals, Calls, InBatch
    <2> QED BY <1>1, <1>2, <2>1, SameBatch
  <1> QED BY <1>1, <1>3, <1>4, <1>5, <1>6 DEF Others

LEMMA NextInHand == ASSUME TypeInv, InHand, [Next]_vars PROVE InHand'
  <1>1. CASE \E u \in Urls : Publish(u)
    BY <1>1, SameBatch DEF Publish, procVars
  <1>2. CASE UNCHANGED vars
    BY <1>2, SameBatch DEF vars, redisVars, procVars
  <1> QED BY <1>1, <1>2, ReadInHand, RecoverInHand, AckInHand, OthersInHand
      DEF Next, Process, Others

\* Every batch is acked or recovered before the next one is read, for any
\* combination of crashes and exceptions.
THEOREM OneBatch == Spec => []OneBatchOutstanding
  <1>1. Init => TypeInv /\ InHand
    BY InitTyped, InitInHand
  <1>2. TypeInv /\ InHand /\ [Next]_vars => (TypeInv /\ InHand)'
    BY NextTyped, NextInHand
  <1>3. InHand => OneBatchOutstanding
    BY DEF InHand, OneBatchOutstanding
  <1> QED BY <1>1, <1>2, <1>3, PTL DEF Spec
-----------------------------------------------------------------------------
(***************************************************************************)
(* Refinement.                                                             *)
(***************************************************************************)

\* The contract's settled messages are the processor's.
LEMMA SettledKept ==
    TypeInv /\ NoLoss => Contract!Settled \subseteq {m \in Ids : Accounted(m)}
  <1> SUFFICES ASSUME TypeInv, NoLoss
               PROVE  Contract!Settled \subseteq {m \in Ids : Accounted(m)}
    OBVIOUS
  <1>1. last \in 0 .. Len(log) /\ Len(log) \in Nat
    BY DEF TypeInv, TypeOK, RedisTypeOK
  <1>2. ASSUME NEW m \in Contract!Settled PROVE m \in Ids /\ Settled(m)
    BY <1>1, <1>2 DEF Contract!Settled, Ids, Settled
  <1> QED BY <1>2 DEF NoLoss

LEMMA InitContract == Init => Contract!Init
  BY EmptySeq DEF Init, Contract!Init, Ids

LEMMA NextContract ==
    ASSUME TypeInv, InHand, TypeInv', NoLoss', [Next]_vars
    PROVE  [Contract!Next]_(Contract!vars)
  <1>1. (Contract!Settled)' \subseteq {m \in Ids : Accounted(m)}'
    <2>1. (TypeInv /\ NoLoss)' => (Contract!Settled \subseteq {m \in Ids : Accounted(m)})'
      BY SettledKept, PTL
    <2> QED BY <2>1
  <1>2. ASSUME UNCHANGED <<log, last, pel>> PROVE Contract!Attempt
    BY <1>2 DEF Contract!Attempt
  <1>3. CASE \E u \in Urls : Publish(u)
    <2>1. Len(log') = Len(log) + 1 /\ UNCHANGED <<last, pel>>
      BY <1>3 DEF Publish, TypeInv, TypeOK, RedisTypeOK
    <2>2. Contract!Publish
      BY <2>1 DEF Contract!Publish
    <2> QED BY <1>1, <2>2 DEF Contract!Next
  <1>4. CASE XReadGroup
    <2>1. PICK S \in SUBSET Undelivered :
            /\ pel' = pel \cup S
            /\ last' \in S /\ \A m \in S : m <= last'
      BY <1>4 DEF XReadGroup
    <2>2. pel = {} /\ InHand' /\ log' = log
      BY <1>4, ReadInHand DEF XReadGroup
    <2>3. S \subseteq (last + 1) .. Len(log) /\ last \in Nat /\ Len(log) \in Nat
      <3>1. last \in Nat /\ Len(log) \in Nat
        BY DEF TypeInv, TypeOK, RedisTypeOK
      <3> QED BY <3>1 DEF Undelivered, Ids
    <2>4. last' \in (last + 1) .. Len(log)
      BY <2>1, <2>3
    <2>5. ASSUME NEW m \in S PROVE m \in (last + 1) .. last'
      <3>1. m \in (last + 1) .. Len(log) /\ m <= last'
        BY <2>1, <2>3
      <3> QED BY <3>1, <2>3, <2>4
    <2>6. Contract!Deliver
      <3>1. pel' = S /\ Cardinality(pel') <= BatchSize /\ Len(log') = Len(log)
        BY <2>1, <2>2 DEF InHand
      <3>2. pel' \subseteq (last + 1) .. last'
        BY <2>5, <3>1
      <3>3. last' \in pel'
        BY <2>1, <3>1
      <3>4. Contract!Cardinality(pel') = Cardinality(pel')
        BY DEF Contract!Cardinality, Cardinality
      <3> QED BY <2>2, <2>4, <3>1, <3>2, <3>3, <3>4 DEF Contract!Deliver
    <2> QED BY <1>1, <2>6 DEF Contract!Next
  <1>5. CASE XAck
    <2>1. pel' \in {pel, {}} /\ UNCHANGED <<log, last>>
      BY <1>5, AckInHand DEF XAck
    <2>2. CASE pel' = pel
      BY <1>1, <1>2, <2>1, <2>2 DEF Contract!Next
    <2>3. CASE pel' = {} /\ pel # {}
      BY <1>1, <2>1, <2>3 DEF Contract!Next, Contract!Settle
    <2> QED BY <2>1, <2>2, <2>3
  <1>6. CASE RecoverPending
    <2>1. UNCHANGED <<log, last, pel>>
      BY <1>6 DEF RecoverPending, redisVars
    <2> QED BY <1>1, <1>2, <2>1 DEF Contract!Next
  <1>7. CASE Others
    BY <1>1, <1>2, <1>7, OthersInHand DEF Contract!Next
  <1>8. CASE UNCHANGED vars
    <2>1. UNCHANGED <<log, last, pel>>
      BY <1>8 DEF vars, redisVars
    <2> QED BY <1>1, <1>2, <2>1 DEF Contract!Next
  <1> QED BY <1>3, <1>4, <1>5, <1>6, <1>7, <1>8 DEF Next, Process, Others

\* Under the assumptions of NothingLost the processor implements the delivery
\* contract: in order, one batch at a time, settled together and only when
\* every message of the batch is accounted for.
THEOREM Refinement ==
    ASSUME StableContent, NoRiskyFaults
    PROVE  Spec => ImplementsDelivery
  <1>1. Init => TypeInv /\ InHand /\ LossInv /\ Contract!Init
    BY InitTyped, InitInHand, InitLossInv, InitContract
  <1>2. TypeInv /\ InHand /\ LossInv /\ [Next]_vars => (TypeInv /\ InHand /\ LossInv)'
    BY NextTyped, NextInHand, NextLossInv
  <1>3. TypeInv /\ InHand /\ (TypeInv /\ LossInv)' /\ [Next]_vars
          => [Contract!Next]_(Contract!vars)
    BY NextContract DEF LossInv
  <1> QED BY <1>1, <1>2, <1>3, PTL DEF Spec, ImplementsDelivery, Contract!Spec
=============================================================================
