----------------------------- MODULE LSHProofs -----------------------------
(***************************************************************************)
(* Proofs about LSH, for every number of bands, band width and threshold:  *)
(* the recall that neardup.py claims from the pigeonhole principle, the    *)
(* precision of its exact check, and what the one warm-up covers.          *)
(***************************************************************************)
EXTENDS LSH, FiniteSetTheorems, FunctionTheorems, TLAPS

\* A fingerprint that counts as indexed is in the bucket of each of its bands,
\* and none of these keys expires before it does.
Kept(g) ==
    \A i \in BandIds :
       /\ Member(g, i) \in buckets
       /\ life[Key(g, i)] = 0 \/ life[Key(g, i)] >= fresh[g]

\* Every stored hash is indexed or known to be missed: after the warm-up in the
\* index itself, during it in what it has read.
Accounted ==
    /\ phase = "up" => warmed
    /\ phase = "warming" => rows \subseteq snapshot \cup missed
    /\ warmed => rows \subseteq Indexed \cup missed

Inv ==
    /\ TypeOK
    /\ \A g \in Indexed : Kept(g)
    /\ Accounted

LEMMA Parameters == Bands \in Nat \ {0} /\ Width \in Nat \ {0} /\ Threshold \in Nat
  BY LSHAssumption DEF LSHAssumption

\* Two bands have no position in common.
LEMMA BandsDisjoint ==
    ASSUME NEW i \in BandIds, NEW j \in BandIds, NEW p, p \in Band(i), p \in Band(j)
    PROVE  i = j
  <1>1. i \in Nat /\ j \in Nat /\ p \in Int /\ Width \in Nat
    BY Parameters DEF BandIds, Band
  <1>2. /\ i * Width <= p /\ p < i * Width + Width
        /\ j * Width <= p /\ p < j * Width + Width
    BY <1>1 DEF Band
  <1>3. ASSUME NEW a \in Nat, NEW b \in Nat, a < b
        PROVE  a * Width + Width <= b * Width
    <2>1. a + 1 <= b /\ a + 1 \in Nat
      BY <1>3
    <2>2. PICK d \in Nat : b = (a + 1) + d
      <3>1. b - (a + 1) \in Nat
        BY <2>1
      <3> QED BY <3>1
    <2>3. b * Width = a * Width + Width + d * Width
      BY <1>1, <2>2
    <2>4. d * Width \in Nat /\ a * Width \in Nat
      BY <1>1
    <2> QED BY <1>1, <2>3, <2>4
  <1>4. ~ (i < j)
    <2> SUFFICES ASSUME i < j PROVE FALSE
      OBVIOUS
    <2>1. i * Width + Width <= j * Width
      BY <1>1, <1>3
    <2>2. i * Width \in Nat /\ j * Width \in Nat
      BY <1>1
    <2> QED BY <1>1, <1>2, <2>1, <2>2
  <1>5. ~ (j < i)
    <2> SUFFICES ASSUME j < i PROVE FALSE
      OBVIOUS
    <2>1. j * Width + Width <= i * Width
      BY <1>1, <1>3
    <2>2. i * Width \in Nat /\ j * Width \in Nat
      BY <1>1
    <2> QED BY <1>1, <1>2, <2>1, <2>2
  <1> QED BY <1>1, <1>4, <1>5

LEMMA FiniteDifference ==
    ASSUME NEW f \in Fingerprints, NEW g \in Fingerprints
    PROVE  IsFiniteSet(Difference(f, g)) /\ Hamming(f, g) \in Nat
  <1>1. IsFiniteSet(Positions)
    <2>1. Bands * Width - 1 \in Int
      BY Parameters
    <2> QED BY <2>1, FS_Interval DEF Positions
  <1>2. Difference(f, g) \subseteq Positions
    BY DEF Difference, Fingerprints
  <1>3. IsFiniteSet(Difference(f, g))
    BY <1>1, <1>2, FS_Subset
  <1> QED BY <1>3, FS_CardinalityType DEF Hamming

\* The pigeonhole argument: fewer flips than bands leave a band without flips.
LEMMA FlipFreeBand ==
    ASSUME NEW f \in Fingerprints, NEW g \in Fingerprints, Hamming(f, g) < Bands
    PROVE  \E i \in BandIds : BucketKey(f, i) = BucketKey(g, i)
  <1> SUFFICES ASSUME \A i \in BandIds : BucketKey(f, i) # BucketKey(g, i)
               PROVE  FALSE
    OBVIOUS
  <1> DEFINE D == Difference(f, g)
             flip == [i \in BandIds |-> CHOOSE p : p \in D /\ p \in Band(i)]
  <1>1. ASSUME NEW i \in BandIds PROVE \E p : p \in D /\ p \in Band(i)
    BY <1>1 DEF BucketKey, Difference
  <1>2. ASSUME NEW i \in BandIds PROVE flip[i] \in D /\ flip[i] \in Band(i)
    BY <1>1, <1>2
  <1>3. flip \in [BandIds -> D]
    BY <1>2
  <1>4. \A i, j \in BandIds : flip[i] = flip[j] => i = j
    <2> HIDE DEF flip, D
    <2> QED BY <1>2, BandsDisjoint
  <1>5. IsFiniteSet(BandIds) /\ Cardinality(BandIds) = Bands
    <2>1. 0 \in Int /\ Bands - 1 \in Int /\ Bands \in Nat /\ Bands > 0
      BY Parameters
    <2>2. IsFiniteSet(0 .. (Bands - 1))
      BY <2>1, FS_Interval
    <2>3. Cardinality(0 .. (Bands - 1)) = IF 0 > Bands - 1 THEN 0 ELSE (Bands - 1) - 0 + 1
      BY <2>1, FS_Interval
    <2> QED BY <2>1, <2>2, <2>3 DEF BandIds
  <1>6. IsFiniteSet(D) /\ Cardinality(D) < Bands
    BY FiniteDifference DEF Hamming
  <1> HIDE DEF flip, D
  <1>7. \E i, j \in BandIds : i # j /\ flip[i] = flip[j]
    BY <1>3, <1>5, <1>6, FS_PigeonHole
  <1> QED BY <1>4, <1>7

LEMMA SpanType ==
    ASSUME ttl \in Lifetimes
    PROVE  ttl \in Nat /\ Span \in Nat \ {0} /\ Span >= ttl /\ (ttl # 0 => Span = ttl)
  BY LSHAssumption DEF LSHAssumption, Span

LEMMA DocsType == Docs \subseteq Fingerprints
  BY LSHAssumption, Zenon DEF LSHAssumption, Fingerprints, Positions

LEMMA KeyType == ASSUME NEW f \in Docs, NEW i \in BandIds PROVE Key(f, i) \in Keys
  <1>1. f \in Fingerprints
    BY DocsType
  <1> QED BY <1>1 DEF Keys

\* What every pipeline does, cut off or not: it adds members, starts the TTL of
\* some keys anew, and S gets all of its bands.
LEMMA Pipeline ==
    ASSUME Inv, NEW S, S \subseteq Docs,
           buckets \subseteq buckets', ttl' = ttl,
           NEW K, life' = Expire(K), Renew(S),
           \A g \in S, i \in BandIds : Member(g, i) \in buckets' /\ Key(g, i) \in K
    PROVE  /\ life' \in [Keys -> 0 .. ttl'] /\ fresh' \in [Docs -> 0 .. Span']
           /\ \A g \in Indexed' : Kept(g)'
           /\ Indexed \cup S \subseteq Indexed'
  <1>1. ttl \in Nat /\ Span \in Nat \ {0} /\ Span >= ttl /\ (ttl # 0 => Span = ttl)
    BY SpanType DEF Inv, TypeOK
  <1>2. Span' = Span
    BY DEF Span
  <1>3. life \in [Keys -> 0 .. ttl] /\ fresh \in [Docs -> 0 .. Span]
    BY DEF Inv, TypeOK
  <1>4. life' \in [Keys -> 0 .. ttl] /\ \A k \in Keys : life'[k] = IF k \in K THEN ttl ELSE life[k]
    BY <1>1, <1>3 DEF Expire
  <1>5. fresh' \in [Docs -> 0 .. Span] /\ \A f \in Docs : fresh'[f] = IF f \in S THEN Span ELSE fresh[f]
    BY <1>1, <1>3 DEF Renew
  <1>6. Indexed \cup S \subseteq Indexed'
    BY <1>1, <1>5 DEF Indexed
  <1>7. ASSUME NEW g \in Indexed' PROVE Kept(g)'
    <2>1. g \in Docs /\ fresh'[g] > 0
      BY <1>7 DEF Indexed
    <2>2. CASE g \in S
      <3>1. ASSUME NEW i \in BandIds
            PROVE  Member(g, i) \in buckets' /\ (life'[Key(g, i)] = 0 \/ life'[Key(g, i)] >= fresh'[g])
        <4>1. Key(g, i) \in Keys /\ Key(g, i) \in K /\ Member(g, i) \in buckets'
          BY <2>1, <2>2, KeyType
        <4> HIDE DEF Key, Member
        <4>2. life'[Key(g, i)] = ttl /\ fresh'[g] = Span
          BY <1>4, <1>5, <2>1, <2>2, <4>1
        <4> QED BY <1>1, <4>1, <4>2
      <3> QED BY <3>1 DEF Kept, Member, Key, BucketKey, Band
    <2>3. CASE g \notin S
      <3>1. fresh'[g] = fresh[g] /\ g \in Indexed /\ fresh[g] \in 0 .. Span
        BY <1>3, <1>5, <2>1, <2>3 DEF Indexed
      <3>2. Kept(g)
        BY <3>1 DEF Inv
      <3>3. ASSUME NEW i \in BandIds
            PROVE  Member(g, i) \in buckets' /\ (life'[Key(g, i)] = 0 \/ life'[Key(g, i)] >= fresh'[g])
        <4>1. /\ Key(g, i) \in Keys /\ Member(g, i) \in buckets'
              /\ life[Key(g, i)] = 0 \/ life[Key(g, i)] >= fresh[g]
          BY <2>1, <3>2, KeyType DEF Kept
        <4>2. life'[Key(g, i)] = ttl \/ life'[Key(g, i)] = life[Key(g, i)]
          BY <1>4, <4>1
        <4> QED BY <1>1, <3>1, <4>1, <4>2
      <3> QED BY <3>3 DEF Kept, Member, Key, BucketKey, Band
    <2> QED BY <2>2, <2>3
  <1> QED BY <1>2, <1>4, <1>5, <1>6, <1>7

LEMMA WriteInv ==
    ASSUME Inv, NEW S, S \subseteq Docs, ttl' = ttl, Write(S)
    PROVE  /\ \A m \in buckets' : \E g \in touched', i \in BandIds : m = Member(g, i)
           /\ touched' \subseteq Docs
           /\ life' \in [Keys -> 0 .. ttl'] /\ fresh' \in [Docs -> 0 .. Span']
           /\ \A g \in Indexed' : Kept(g)'
           /\ Indexed \cup S \subseteq Indexed'
  <1> DEFINE K == {Key(f, i) : f \in S, i \in BandIds}
  <1>1. /\ buckets' = buckets \cup {Member(f, i) : f \in S, i \in BandIds}
        /\ touched' = touched \cup S
    BY DEF Write
  <1>2. life' = Expire(K) /\ Renew(S)
    BY DEF Write
  <1>3. \A m \in buckets' : \E g \in touched', i \in BandIds : m = Member(g, i)
    BY <1>1 DEF Inv, TypeOK
  <1>4. \A g \in S, i \in BandIds : Member(g, i) \in buckets' /\ Key(g, i) \in K
    BY <1>1
  <1>5. touched' \subseteq Docs
    BY <1>1 DEF Inv, TypeOK
  <1> HIDE DEF K
  <1> QED BY <1>1, <1>2, <1>3, <1>4, <1>5, Pipeline

LEMMA WriteCutOffInv ==
    ASSUME Inv, NEW S, S \subseteq Docs, ttl' = ttl, NEW f \in Docs, WriteCutOff(S, f)
    PROVE  /\ \A m \in buckets' : \E g \in touched', i \in BandIds : m = Member(g, i)
           /\ touched' \subseteq Docs
           /\ life' \in [Keys -> 0 .. ttl'] /\ fresh' \in [Docs -> 0 .. Span']
           /\ \A g \in Indexed' : Kept(g)'
           /\ Indexed \cup S \subseteq Indexed'
  <1>1. PICK n \in BandIds :
          \E added \in {0 .. (n - 1), 0 .. n} : WritePart(S, f, added, 0 .. (n - 1))
    BY DEF WriteCutOff
  <1>2. PICK B \in {0 .. (n - 1), 0 .. n} : WritePart(S, f, B, 0 .. (n - 1))
    BY <1>1
  <1> DEFINE K == {Key(g, i) : g \in S, i \in BandIds} \cup {Key(f, i) : i \in 0 .. (n - 1)}
  <1>3. B \subseteq BandIds
    BY <1>2, Parameters DEF BandIds
  <1>4. /\ buckets' = buckets \cup {Member(g, i) : g \in S, i \in BandIds}
                              \cup {Member(f, i) : i \in B}
        /\ life' = Expire(K) /\ Renew(S)
        /\ touched' = touched \cup S \cup {f}
    BY <1>2 DEF WritePart
  <1>5. \A g \in S, i \in BandIds : Key(g, i) \in K
    OBVIOUS
  <1> HIDE DEF K
  <1>6. ASSUME NEW m \in buckets'
        PROVE  \E g \in touched', i \in BandIds : m = Member(g, i)
    <2>1. CASE m \in buckets
      <3>1. PICK g \in touched, i \in BandIds : m = Member(g, i)
        BY <2>1 DEF Inv, TypeOK
      <3>2. g \in touched'
        BY <1>4
      <3> QED BY <3>1, <3>2
    <2>2. CASE \E g \in S, i \in BandIds : m = Member(g, i)
      BY <1>4, <2>2
    <2>3. CASE \E i \in B : m = Member(f, i)
      BY <1>3, <1>4, <2>3
    <2> QED BY <1>4, <2>1, <2>2, <2>3
  <1>7. \A g \in S, i \in BandIds : Member(g, i) \in buckets'
    BY <1>4
  <1>8. touched' \subseteq Docs
    BY <1>4 DEF Inv, TypeOK
  <1> QED BY <1>4, <1>5, <1>6, <1>7, <1>8, Pipeline

LEMMA InitInv == Init => Inv
  <1> SUFFICES ASSUME Init PROVE Inv
    OBVIOUS
  <1>1. ttl \in Nat /\ Span \in Nat
    BY SpanType DEF Init
  <1>2. Indexed = {}
    BY DEF Init, Indexed
  <1>3. life \in [Keys -> 0 .. ttl] /\ fresh \in [Docs -> 0 .. Span]
    BY <1>1 DEF Init
  <1> QED BY <1>2, <1>3 DEF Init, Inv, TypeOK, Accounted

LEMMA IndexInv == ASSUME Inv, NEW f \in Docs, Index(f) PROVE Inv'
  <1>1. /\ phase = "up" /\ rows' \in {rows, rows \cup {f}} /\ Write({f}) /\ missed' = missed \ {f}
        /\ UNCHANGED <<warmed, unhashed, phase, snapshot, ttl>>
    BY DEF Index
  <1>2. rows' \subseteq Docs /\ {f} \subseteq Docs /\ rows \subseteq rows'
    BY <1>1 DEF Inv, TypeOK
  <1>3. /\ \A m \in buckets' : \E g \in touched', i \in BandIds : m = Member(g, i)
        /\ touched' \subseteq Docs
        /\ life' \in [Keys -> 0 .. ttl'] /\ fresh' \in [Docs -> 0 .. Span']
        /\ \A g \in Indexed' : Kept(g)'
        /\ Indexed \cup {f} \subseteq Indexed'
    BY <1>1, <1>2, WriteInv
  <1>4. TypeOK'
    BY <1>1, <1>2, <1>3 DEF Inv, TypeOK, Member, BucketKey, Band
  <1>5. Accounted'
    BY <1>1, <1>3 DEF Inv, Accounted
  <1> QED BY <1>3, <1>4, <1>5 DEF Inv

LEMMA IndexInterruptedInv == ASSUME Inv, NEW f \in Docs, IndexInterrupted(f) PROVE Inv'
  <1>1. /\ phase = "up" /\ rows' \in {rows, rows \cup {f}} /\ WriteCutOff({}, f)
        /\ missed' = missed \cup ({f} \ Indexed) /\ phase' \in {"up", "down"}
        /\ UNCHANGED <<warmed, unhashed, snapshot, ttl>>
    BY DEF IndexInterrupted
  <1>2. rows' \subseteq Docs /\ rows \subseteq rows' /\ {} \subseteq Docs
    BY <1>1 DEF Inv, TypeOK
  <1>3. /\ \A m \in buckets' : \E g \in touched', i \in BandIds : m = Member(g, i)
        /\ touched' \subseteq Docs
        /\ life' \in [Keys -> 0 .. ttl'] /\ fresh' \in [Docs -> 0 .. Span']
        /\ \A g \in Indexed' : Kept(g)'
        /\ Indexed \cup {} \subseteq Indexed'
    BY <1>1, <1>2, WriteCutOffInv
  <1>4. TypeOK'
    BY <1>1, <1>2, <1>3 DEF Inv, TypeOK, Member, BucketKey, Band
  <1>5. Accounted'
    BY <1>1, <1>3 DEF Inv, Accounted
  <1> QED BY <1>3, <1>4, <1>5 DEF Inv

LEMMA WarmEndInv == ASSUME Inv, WarmEnd PROVE Inv'
  <1>1. /\ phase = "warming" /\ Write(snapshot) /\ warmed' = TRUE /\ phase' = "up"
        /\ snapshot' = {} /\ missed' = missed \ snapshot
        /\ rows' = rows /\ unhashed' = unhashed /\ ttl' = ttl
    BY DEF WarmEnd, store
  <1>2. rows' \subseteq Docs /\ snapshot \subseteq Docs
    BY <1>1 DEF Inv, TypeOK
  <1>3. /\ \A m \in buckets' : \E g \in touched', i \in BandIds : m = Member(g, i)
        /\ touched' \subseteq Docs
        /\ life' \in [Keys -> 0 .. ttl'] /\ fresh' \in [Docs -> 0 .. Span']
        /\ \A g \in Indexed' : Kept(g)'
        /\ Indexed \cup snapshot \subseteq Indexed'
    BY <1>1, <1>2, WriteInv
  <1>4. TypeOK'
    BY <1>1, <1>2, <1>3 DEF Inv, TypeOK, Member, BucketKey, Band
  <1>5. Accounted'
    BY <1>1, <1>3 DEF Inv, Accounted
  <1> QED BY <1>3, <1>4, <1>5 DEF Inv

LEMMA WarmInterruptedInv == ASSUME Inv, WarmInterrupted PROVE Inv'
  <1>1. PICK S \in SUBSET snapshot, f \in snapshot : WriteCutOff(S, f)
    BY DEF WarmInterrupted
  <1>2. /\ phase = "warming" /\ phase' = "down" /\ snapshot' = {} /\ warmed' = warmed
        /\ missed' = missed /\ rows' = rows /\ unhashed' = unhashed /\ ttl' = ttl
    BY DEF WarmInterrupted, store
  <1>3. rows' \subseteq Docs /\ S \subseteq Docs /\ f \in Docs
    BY <1>1, <1>2 DEF Inv, TypeOK
  <1>4. /\ \A m \in buckets' : \E g \in touched', i \in BandIds : m = Member(g, i)
        /\ touched' \subseteq Docs
        /\ life' \in [Keys -> 0 .. ttl'] /\ fresh' \in [Docs -> 0 .. Span']
        /\ \A g \in Indexed' : Kept(g)'
        /\ Indexed \cup S \subseteq Indexed'
    BY <1>1, <1>2, <1>3, WriteCutOffInv
  <1>5. TypeOK'
    BY <1>2, <1>3, <1>4 DEF Inv, TypeOK, Member, BucketKey, Band
  <1>6. Accounted'
    BY <1>2, <1>4 DEF Inv, Accounted
  <1> QED BY <1>4, <1>5, <1>6 DEF Inv

\* The actions that leave the index alone.
LEMMA OutsideInv ==
    ASSUME Inv, WarmStart \/ Stop \/ Backfill
    PROVE  Inv'
  <1>1. UNCHANGED <<buckets, life, warmed, ttl, fresh, touched>>
    BY DEF WarmStart, Stop, Backfill
  <1>2. rows \subseteq rows' /\ rows' \subseteq Docs /\ Indexed' = Indexed /\ Span' = Span
    BY <1>1 DEF WarmStart, Stop, Backfill, store, Inv, TypeOK, Indexed, Span
  <1>3. \A g \in Indexed' : Kept(g)'
    <2> SUFFICES ASSUME NEW g \in Indexed PROVE Kept(g)'
      BY <1>2
    <2>1. Kept(g)
      BY DEF Inv
    <2> QED BY <1>1, <1>2, <2>1 DEF Kept, Member, Key, BucketKey, Band
  <1>4. \A m \in buckets' : \E g \in touched', i \in BandIds : m = Member(g, i)
    BY <1>1, <1>2 DEF Inv, TypeOK
  <1>5. TypeOK'
    <2>1. unhashed' \subseteq Docs /\ missed' \subseteq Docs /\ snapshot' \subseteq rows'
      BY <1>2 DEF WarmStart, Stop, Backfill, store, Inv, TypeOK
    <2>2. phase' \in {"down", "warming", "up"}
      BY DEF WarmStart, Stop, Backfill, Inv, TypeOK
    <2> QED BY <1>1, <1>2, <1>4, <2>1, <2>2 DEF Inv, TypeOK, Member, BucketKey, Band
  <1>6. Accounted'
    BY <1>1, <1>2 DEF WarmStart, Stop, Backfill, store, Inv, Accounted
  <1> QED BY <1>3, <1>5, <1>6 DEF Inv

LEMMA TickInv == ASSUME Inv, Tick PROVE Inv'
  <1>1. /\ buckets' = {m \in buckets : life[<<m.band, m.key>>] # 1}
        /\ life' = [k \in Keys |-> IF life[k] = 0 THEN 0 ELSE life[k] - 1]
        /\ fresh' = [f \in Docs |-> IF fresh[f] = 0 THEN 0 ELSE fresh[f] - 1]
        /\ missed' = missed \cup {f \in Docs : fresh[f] = 1}
        /\ rows' = rows /\ unhashed' = unhashed /\ warmed' = warmed /\ phase' = phase
        /\ snapshot' = snapshot /\ ttl' = ttl /\ touched' = touched
    BY DEF Tick, store
  <1>2. life \in [Keys -> 0 .. ttl] /\ fresh \in [Docs -> 0 .. Span] /\ ttl \in Nat /\ Span \in Nat
    BY SpanType DEF Inv, TypeOK
  <1>3. Span' = Span
    BY <1>1 DEF Span
  <1>4. life' \in [Keys -> 0 .. ttl'] /\ fresh' \in [Docs -> 0 .. Span']
    BY <1>1, <1>2, <1>3
  <1>5. \A g \in Indexed' : Kept(g)'
    <2> SUFFICES ASSUME NEW g \in Indexed' PROVE Kept(g)'
      OBVIOUS
    <2>1. g \in Docs /\ fresh[g] \in Nat /\ fresh[g] >= 2 /\ fresh'[g] = fresh[g] - 1
      BY <1>1, <1>2 DEF Indexed
    <2>2. Kept(g)
      BY <2>1 DEF Indexed, Inv
    <2>3. ASSUME NEW i \in BandIds
          PROVE  Member(g, i) \in buckets' /\ (life'[Key(g, i)] = 0 \/ life'[Key(g, i)] >= fresh'[g])
      <3>1. Key(g, i) \in Keys /\ Member(g, i) \in buckets
        BY <2>1, <2>2, KeyType DEF Kept
      <3>2. life[Key(g, i)] \in Nat /\ (life[Key(g, i)] = 0 \/ life[Key(g, i)] >= fresh[g])
        BY <1>2, <2>2, <3>1 DEF Kept
      <3>3. <<Member(g, i).band, Member(g, i).key>> = Key(g, i)
        BY DEF Member, Key
      <3>4. Member(g, i) \in buckets'
        BY <1>1, <2>1, <3>1, <3>2, <3>3
      <3>5. life'[Key(g, i)] = IF life[Key(g, i)] = 0 THEN 0 ELSE life[Key(g, i)] - 1
        BY <1>1, <3>1
      <3> QED BY <2>1, <3>2, <3>4, <3>5
    <2> QED BY <2>3 DEF Kept, Member, Key, BucketKey, Band
  <1>6. \A m \in buckets' : \E g \in touched', i \in BandIds : m = Member(g, i)
    BY <1>1 DEF Inv, TypeOK
  <1>7. TypeOK'
    BY <1>1, <1>4, <1>6 DEF Inv, TypeOK, Member, BucketKey, Band
  <1>8. Indexed \subseteq Indexed' \cup {f \in Docs : fresh[f] = 1}
    BY <1>1, <1>2 DEF Indexed
  <1>9. Accounted'
    BY <1>1, <1>8 DEF Inv, Accounted
  <1> QED BY <1>5, <1>7, <1>9 DEF Inv

LEMMA NextInv == Inv /\ [Next]_vars => Inv'
  <1> SUFFICES ASSUME Inv, [Next]_vars PROVE Inv'
    OBVIOUS
  <1>1. CASE UNCHANGED vars
    <2>1. UNCHANGED <<buckets, life, warmed, rows, unhashed, phase, snapshot, ttl, fresh, missed,
                    touched>>
      BY <1>1 DEF vars, store
    <2> QED BY <2>1 DEF Inv, TypeOK, Accounted, Kept, Indexed, Span, Member, Key, BucketKey, Band
  <1>2. CASE Next
    BY <1>2, IndexInv, IndexInterruptedInv, WarmEndInv, WarmInterruptedInv, OutsideInv, TickInv
    DEF Next
  <1> QED BY <1>1, <1>2

\* A fingerprint is found by every probe within the threshold of it.
LEMMA Found ==
    ASSUME Inv, Threshold < Bands, NEW f \in Fingerprints, NEW g \in Indexed,
           Hamming(f, g) <= Threshold
    PROVE  IsDuplicate(f)
  <1>1. g \in Fingerprints
    BY DocsType DEF Indexed
  <1>2. Hamming(f, g) < Bands
    BY <1>1, FiniteDifference, Parameters
  <1>3. PICK i \in BandIds : BucketKey(f, i) = BucketKey(g, i)
    BY <1>1, <1>2, FlipFreeBand
  <1>4. Member(g, i) \in buckets
    BY DEF Inv, Kept
  <1> QED BY <1>3, <1>4 DEF IsDuplicate, Member

\* The index keeps its type: every member is a fingerprint that was
\* handed to it, under the key of one of its bands.
THEOREM TypeCorrect == Spec => []TypeOK
  <1>1. Inv => TypeOK
    BY DEF Inv
  <1> QED BY <1>1, InitInv, NextInv, PTL DEF Spec

\* Recall within the threshold is certain when it is smaller than the number
\* of bands, whatever was indexed, however often a pipeline was cut off, and
\* for as long as the document's own TTL whatever else expires.
THEOREM RecallCertain == Spec => []Recall
  <1>1. Inv => Recall
    BY Found DEF Recall, Near
  <1> QED BY <1>1, InitInv, NextInv, PTL DEF Spec

\* A positive answer is never wrong: a document within the threshold
\* was handed to the index.
THEOREM PrecisionCertain == Spec => []Precision
  <1>1. Inv => Precision
    <2> SUFFICES ASSUME Inv, NEW f \in Fingerprints, IsDuplicate(f)
                 PROVE  Near(f, touched)
      BY DEF Precision
    <2>1. PICK m \in buckets : Hamming(f, m.fp) <= Threshold
      BY DEF IsDuplicate
    <2>2. PICK g \in touched, i \in BandIds : m = Member(g, i)
      BY DEF Inv, TypeOK
    <2>3. m.fp = g
      BY <2>2 DEF Member
    <2> QED BY <2>1, <2>3 DEF Near
  <1> QED BY <1>1, InitInv, NextInv, PTL DEF Spec

\* The one warm-up covers what it should, for any interruptions, restarts and
\* backfills: a stored hash that was not missed is in the index.
THEOREM WarmUpSuffices == Spec => []WarmCovers
  <1>1. Inv => WarmCovers
    <2> SUFFICES ASSUME Inv, phase = "up", NEW f \in rows, f \notin missed
                 PROVE  IsDuplicate(f)
      BY DEF WarmCovers
    <2>1. f \in Indexed
      BY DEF Inv, Accounted
    <2>2. Member(f, 0) \in buckets /\ 0 \in BandIds
      BY <2>1, Parameters DEF Inv, Kept, BandIds
    <2>3. Hamming(f, f) <= Threshold
      <3>1. Difference(f, f) = {}
        BY DEF Difference
      <3> QED BY <3>1, FS_EmptySet, Parameters DEF Hamming
    <2> QED BY <2>2, <2>3 DEF IsDuplicate, Member
  <1> QED BY <1>1, InitInv, NextInv, PTL DEF Spec
=============================================================================
