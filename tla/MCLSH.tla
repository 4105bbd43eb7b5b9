------------------------------- MODULE MCLSH -------------------------------
(***************************************************************************)
(* LSH for TLC, and bucket_keys on integers as dedupe.py computes it: the  *)
(* instance checks that two integers have the same key for a band exactly  *)
(* when their bit sets agree on it.                                        *)
(***************************************************************************)
EXTENDS LSH

\* The first two share no band, the third shares a band with each of them and is
\* a near-duplicate of the first.
SomeDocs == {{}, {0, 2}, {0}}

Bits == Bands * Width
Values == 0 .. (2 ^ Bits - 1)

\* Mutant: the shifted value is not masked.
ShiftedUnmasked(h) == [k \in 0 .. Bands |-> h * 2 ^ (k * Width)]

\* The loop of bucket_keys: h after k iterations.
Shifted(h) ==
    LET s[k \in 0 .. Bands] == IF k = 0 THEN h ELSE (s[k - 1] * 2 ^ Width) % 2 ^ Bits
    IN  s
BucketKeys(h) == [i \in BandIds |-> Shifted(h)[i] \div 2 ^ (Bits - Width)]

BitSet(h) == {p \in Positions : (h \div 2 ^ (Bits - 1 - p)) % 2 = 1}

\* The keys and the bits of every value, which TLC computes once.
KeysOf == [h \in Values |-> BucketKeys(h)]
BitsOf == [h \in Values |-> BitSet(h)]

\* bucket_keys splits an integer into the bands that LSH uses: a probe h meets
\* an indexed value g in a bucket exactly when their bits agree on its band.
KeysAreBands ==
    \A g \in {v \in Values : BitsOf[v] \in rows}, h \in Values :
       \A i \in BandIds :
          KeysOf[h][i] = KeysOf[g][i] <=> BucketKey(BitsOf[h], i) = BucketKey(BitsOf[g], i)
=============================================================================
