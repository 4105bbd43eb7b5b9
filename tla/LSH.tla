-------------------------------- MODULE LSH --------------------------------
(***************************************************************************)
(* The near-duplicate index of py-processor/neardup.py over the SimHash    *)
(* fingerprints of dedupe.py.  A fingerprint is the set of positions of    *)
(* its one bits, 0 being the most significant.  The index is the Redis     *)
(* sets simhash:band:<band>:<key>: a fingerprint is in one set per band.   *)
(*                                                                         *)
(* Around it: the rows it is built from, warm_from_db at the start of the  *)
(* processor, backfill_simhash.py, which may run at any time, and          *)
(* NEARDUP_TTL, counted in ticks.  A warm-up is short beside a tick.       *)
(***************************************************************************)
EXTENDS Integers, FiniteSets

CONSTANTS
    Bands,      \* SIMHASH_BANDS
    Width,      \* bits of a band: SIMHASH_BITS / SIMHASH_BANDS
    Threshold,  \* SIMHASH_HAMMING
    Docs,       \* the fingerprints of the documents
    Lifetimes   \* values of NEARDUP_TTL, 0: the index does not expire

ASSUME LSHAssumption ==
    /\ Bands \in Nat \ {0}
    /\ Width \in Nat \ {0}
    /\ Threshold \in Nat
    /\ Docs \subseteq SUBSET (0 .. (Bands * Width - 1))
    /\ Lifetimes \subseteq Nat

Positions == 0 .. (Bands * Width - 1)
Fingerprints == SUBSET Positions
BandIds == 0 .. (Bands - 1)

\* hamming: the number of positions in which two fingerprints differ.
Difference(f, g) == (f \ g) \cup (g \ f)
Hamming(f, g) == Cardinality(Difference(f, g))

\* bucket_keys: the bits of band i, as the value of its Width top bits after
\* i left shifts by Width.
Band(i) == (i * Width) .. (i * Width + Width - 1)
BucketKey(f, i) == f \cap Band(i)

Member(f, i) == [band |-> i, key |-> BucketKey(f, i), fp |-> f]

\* _band_key, and the keys there may be.
Key(f, i) == <<i, BucketKey(f, i)>>
Keys == {Key(f, i) : f \in Fingerprints, i \in BandIds}

VARIABLES
    buckets,   \* members of the Redis sets: [band, key, fp]
    life,      \* ticks until a key expires, 0: it does not
    warmed,    \* simhash:warmed:v1
    rows,      \* articles.content_hash
    unhashed,  \* fingerprints of the texts in rows whose content_hash is NULL
    phase,     \* the processor: down, warming (in warm_from_db) or up
    snapshot,  \* the hashes warm_from_db has read
    ttl,       \* NEARDUP_TTL
    \* History.
    fresh,     \* ticks for which a fingerprint stays indexed, 0: none
    missed,    \* backfilled, cut off or expired and not indexed since
    touched    \* fingerprints handed to index or to warm_from_db

store == <<rows, unhashed>>
vars == <<buckets, life, warmed, store, phase, snapshot, ttl, fresh, missed, touched>>

\* Mutant: the Hamming distance of a member is not checked.
IsDuplicateUnchecked(f) ==
    \E m \in buckets : m.band \in BandIds /\ m.key = BucketKey(f, m.band)

\* is_duplicate: a member of one of f's buckets within the threshold.
IsDuplicate(f) ==
    \E m \in buckets :
       /\ m.band \in BandIds
       /\ m.key = BucketKey(f, m.band)
       /\ Hamming(f, m.fp) <= Threshold

\* The rows of earlier versions: with a hash, or without.
Init ==
    /\ rows \in SUBSET Docs /\ unhashed \in SUBSET (Docs \ rows)
    /\ ttl \in Lifetimes
    /\ buckets = {} /\ life = [k \in Keys |-> 0] /\ warmed = FALSE
    /\ phase = "down" /\ snapshot = {}
    /\ fresh = [f \in Docs |-> 0] /\ missed = {} /\ touched = {}

\* How long a fingerprint stays indexed: time does not pass without a TTL.
Span == IF ttl = 0 THEN 1 ELSE ttl
Indexed == {g \in Docs : fresh[g] > 0}
Renew(S) == fresh' = [f \in Docs |-> IF f \in S THEN Span ELSE fresh[f]]

\* Mutant: only a key that has no EXPIRE gets one.
ExpireNew(keys) == [k \in Keys |-> IF k \in keys /\ life[k] = 0 THEN ttl ELSE life[k]]

\* EXPIRE of the keys, which starts the TTL of the whole set anew.
Expire(keys) == [k \in Keys |-> IF k \in keys THEN ttl ELSE life[k]]

\* A pipeline: SADD and EXPIRE for every band of the fingerprints in S.
Write(S) ==
    /\ buckets' = buckets \cup {Member(f, i) : f \in S, i \in BandIds}
    /\ life' = Expire({Key(f, i) : f \in S, i \in BandIds})
    /\ Renew(S)
    /\ touched' = touched \cup S

\* The pipeline is not a transaction: when it is cut off, S is written and of
\* f the first n bands, and perhaps the next one without its EXPIRE.
WritePart(S, f, added, expired) ==
    /\ buckets' = buckets \cup {Member(g, i) : g \in S, i \in BandIds}
                          \cup {Member(f, i) : i \in added}
    /\ life' = Expire({Key(g, i) : g \in S, i \in BandIds} \cup {Key(f, i) : i \in expired})
    /\ Renew(S)
    /\ touched' = touched \cup S \cup {f}

WriteCutOff(S, f) ==
    \E n \in BandIds : \E added \in {0 .. (n - 1), 0 .. n} : WritePart(S, f, added, 0 .. (n - 1))
-----------------------------------------------------------------------------
\* The processor inserts a document and indexes it; it does the latter also when
\* the URL is taken and ON CONFLICT leaves the row out.  is_duplicate said no
\* before, for the whole batch and while other processors were indexing: what
\* is indexed may have near-duplicates in the index by now.
Index(f) ==
    /\ phase = "up"
    /\ rows' \in {rows, rows \cup {f}}
    /\ Write({f})
    /\ missed' = missed \ {f}
    /\ UNCHANGED <<warmed, unhashed, phase, snapshot, ttl>>

\* The insert is committed and index raises, or the processor dies in it.
IndexInterrupted(f) ==
    /\ phase = "up"
    /\ rows' \in {rows, rows \cup {f}}
    /\ WriteCutOff({}, f)
    /\ missed' = missed \cup ({f} \ Indexed)
    /\ phase' \in {"up", "down"}
    /\ UNCHANGED <<warmed, unhashed, snapshot, ttl>>

\* warm_from_db looks at the sentinel and reads the hashes.
WarmStart ==
    /\ phase = "down"
    /\ IF warmed THEN phase' = "up" /\ UNCHANGED snapshot
                 ELSE phase' = "warming" /\ snapshot' = rows
    /\ UNCHANGED <<buckets, life, warmed, store, ttl, fresh, missed, touched>>

\* It has written them all and sets the sentinel.
WarmEnd ==
    /\ phase = "warming"
    /\ Write(snapshot)
    /\ warmed' = TRUE
    /\ phase' = "up" /\ snapshot' = {}
    /\ missed' = missed \ snapshot
    /\ UNCHANGED <<store, ttl>>

\* Mutant: the sentinel is set before the hashes are written.
WarmInterruptedMarked ==
    /\ phase = "warming"
    /\ \E S \in SUBSET snapshot, f \in snapshot : WriteCutOff(S, f)
    /\ phase' = "down" /\ snapshot' = {} /\ warmed' = TRUE
    /\ UNCHANGED <<store, ttl, missed>>

\* It is interrupted after some of them, and the processor with it.
WarmInterrupted ==
    /\ phase = "warming"
    /\ \E S \in SUBSET snapshot, f \in snapshot : WriteCutOff(S, f)
    /\ phase' = "down" /\ snapshot' = {}
    /\ UNCHANGED <<warmed, store, ttl, missed>>

\* The processor is stopped or killed between two batches.
Stop ==
    /\ phase = "up"
    /\ phase' = "down"
    /\ UNCHANGED <<buckets, life, warmed, store, snapshot, ttl, fresh, missed, touched>>

\* backfill: one transaction over all rows that have a text and no hash.
Backfill ==
    /\ unhashed # {}
    /\ rows' = rows \cup unhashed
    /\ unhashed' = {}
    /\ missed' = missed \cup (unhashed \ rows)
    /\ UNCHANGED <<buckets, life, warmed, phase, snapshot, ttl, fresh, touched>>

\* Time passes; Redis drops the sets whose TTL is over.
Tick ==
    /\ ttl > 0
    /\ buckets' = {m \in buckets : life[<<m.band, m.key>>] # 1}
    /\ life' = [k \in Keys |-> IF life[k] = 0 THEN 0 ELSE life[k] - 1]
    /\ fresh' = [f \in Docs |-> IF fresh[f] = 0 THEN 0 ELSE fresh[f] - 1]
    /\ missed' = missed \cup {f \in Docs : fresh[f] = 1}
    /\ UNCHANGED <<warmed, store, phase, snapshot, ttl, touched>>

Next ==
    \/ \E f \in Docs : Index(f) \/ IndexInterrupted(f)
    \/ WarmStart \/ WarmEnd \/ WarmInterrupted \/ Stop
    \/ Backfill
    \/ Tick

Spec == Init /\ [][Next]_vars
-----------------------------------------------------------------------------
Near(f, S) == \E g \in S : Hamming(f, g) <= Threshold

\* The buckets hold fingerprints under their own keys.
TypeOK ==
    /\ \A m \in buckets : \E g \in touched, i \in BandIds : m = Member(g, i)
    /\ life \in [Keys -> 0 .. ttl] /\ fresh \in [Docs -> 0 .. Span]
    /\ rows \subseteq Docs /\ unhashed \subseteq Docs /\ missed \subseteq Docs
    /\ touched \subseteq Docs
    /\ snapshot \subseteq rows
    /\ warmed \in BOOLEAN /\ phase \in {"down", "warming", "up"}
    /\ ttl \in Lifetimes

\* "pigeonhole guarantees at least one band is flip-free, so recall within
\* SIMHASH_HAMMING is certain": with fewer flips than bands, is_duplicate
\* finds every document within the threshold of one that was indexed within
\* NEARDUP_TTL, whatever other documents shared its buckets.
Recall == Threshold < Bands => \A f \in Fingerprints : Near(f, Indexed) => IsDuplicate(f)

\* Chance collisions in a band are filtered: is_duplicate answers yes only for
\* a document within the threshold of one that was handed to the index.
Precision == \A f \in Fingerprints : IsDuplicate(f) => Near(f, touched)

\* "If the warm-up is interrupted, the sentinel is not set and the next start
\* re-runs it": while the processor runs, every stored hash is found, but for
\* those backfilled after warm_from_db read the table, cut off in index, or
\* expired.  Only being indexed again brings these back.
WarmCovers == phase = "up" => \A f \in rows \ missed : IsDuplicate(f)
=============================================================================
