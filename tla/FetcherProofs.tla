--------------------------- MODULE FetcherProofs ---------------------------
(***************************************************************************)
(* The promises of the token buckets of module Fetcher, for any number of  *)
(* URLs, hosts, workers and retries, any rates and any penalties, negative *)
(* ones included.                                                          *)
(*                                                                         *)
(* RateBound is not inductive alone: a bucket is filled when it is         *)
(* created, so one must know that nothing was granted by it before.  Nor   *)
(* is HostRateBound: HostInv says who may still create a bucket.           *)
(***************************************************************************)
EXTENDS Fetcher, FiniteSetTheorems, TLAPS

\* Where a thread is before it has a bucket.
Early == {"queued", "lookup", "create"}

\* A thread that has looked up its bucket has one.
HasBucket == \A t \in Tasks : pc[t] \in {"global", "host", "get", "sleep"} => mine[t] \in Tasks

\* Nobody has the bucket that a thread is yet to create, and it is unused.
Unborn ==
    \A t \in Tasks : pc[t] \in Early =>
       /\ meter[t] = 0
       /\ \A u \in Tasks : mine[u] # t
       /\ \A h \in Hosts : hostBuckets[h] # t

Inv == TypeOK /\ HasBucket /\ Unborn /\ RateBound

LEMMA RateType == \A b \in Buckets : Rate(b) \in Nat \ {0}
  BY FetcherAssumption DEF Rate

LEMMA GlobalIsNoTask == Global \in Buckets /\ Tasks \subseteq Buckets /\ Global \notin Tasks
  BY FetcherAssumption DEF Buckets

LEMMA NumberTypes ==
  ASSUME NEW a \in Nat, NEW b \in Nat
  PROVE  /\ Larger(a, b) \in Nat
         /\ Less(a, b) \in Nat
         /\ Less(a, b) <= a
         /\ Smaller(a, b) \in Nat
         /\ Smaller(a, b) <= a /\ Smaller(a, b) <= b
         /\ Less(a, b) = 0 \/ Less(a, b) = a - b
  BY DEF Larger, Less, Smaller

\* A bucket may grant its capacity at once, and once more for each rewind.
LEMMA BurstType ==
  ASSUME NEW b \in Buckets
  PROVE  Burst(b) \in Nat /\ Rate(b) <= Burst(b)
  <1>1. IsFiniteSet(Rewound)
    <2>1. Rewound \subseteq Tasks
      BY DEF Rewound
    <2> QED
      BY <2>1, FS_Subset, FetcherAssumption
  <1>2. PICK k \in Nat : k = Cardinality(Rewound)
    BY <1>1, FS_CardinalityType
  <1>3. GlobalRate * (1 + k) = GlobalRate + GlobalRate * k /\ GlobalRate * k \in Nat /\ GlobalRate \in Nat
    BY FetcherAssumption
  <1>4. HostRate \in Nat
    BY FetcherAssumption
  <1> QED
    BY <1>2, <1>3, <1>4 DEF Burst, Rate

LEMMA SameBurst == Rewound' = Rewound => \A b : Burst(b)' = Burst(b)
  BY DEF Burst

LEMMA SameRewound ==
  ASSUME TypeOK, NEW t \in Tasks, NEW l, Goto(t, l), l # "rewound", pc[t] # "rewound"
  PROVE  Rewound' = Rewound
  BY DEF TypeOK, Goto, Rewound

LEMMA InitInv == Init => Inv
  <1> SUFFICES ASSUME Init PROVE Inv
    OBVIOUS
  <1>1. TypeOK
    BY RateType, FetcherAssumption DEF Init, TypeOK, Steps
  <1>2. HasBucket
    BY DEF Init, HasBucket
  <1>3. Unborn
    BY GlobalIsNoTask, FetcherAssumption DEF Init, Unborn
  <1>4. RateBound
    BY RateType, BurstType DEF Init, RateBound
  <1> QED
    BY <1>1, <1>2, <1>3, <1>4 DEF Inv

(***************************************************************************)
(* Preservation.                                                           *)
(***************************************************************************)

\* What a token granted by b leaves of the four parts.
LEMMA GrantInv ==
  ASSUME Inv, NEW b \in Buckets, Grant(b), b \in Tasks => pc[b] \notin Early
  PROVE  /\ tokens' \in [Buckets -> Nat]
         /\ \A c \in Buckets : tokens'[c] <= Rate(c)
         /\ meter' \in [Buckets -> Nat]
         /\ \A c \in Buckets : meter'[c] + tokens'[c] <= Burst(c)
         /\ \A t \in Tasks : pc[t] \in Early => meter'[t] = 0
  <1> USE RateType
  <1>1. tokens \in [Buckets -> Nat] /\ meter \in [Buckets -> Nat]
    BY DEF Inv, TypeOK
  <1>2. \A c \in Buckets : tokens[c] <= Rate(c)
    BY DEF Inv, TypeOK
  <1>3. tokens' \in [Buckets -> Nat] /\ meter' \in [Buckets -> Nat]
    BY <1>1 DEF Grant
  <1>4. \A c \in Buckets : tokens'[c] <= Rate(c)
    BY <1>1, <1>2 DEF Grant
  <1>5. \A c \in Buckets : meter'[c] + tokens'[c] <= Burst(c)
    <2>1. \A c \in Buckets : meter[c] + tokens[c] <= Burst(c)
      BY DEF Inv, RateBound
    <2>2. \A c \in Buckets : meter'[c] + tokens'[c] = meter[c] + tokens[c]
      BY <1>1 DEF Grant
    <2> QED
      BY <2>1, <2>2
  <1>6. \A t \in Tasks : pc[t] \in Early => meter'[t] = 0
    BY <1>1, GlobalIsNoTask DEF Grant, Inv, Unborn
  <1> QED
    BY <1>3, <1>4, <1>5, <1>6

\* A penalty takes tokens away.
LEMMA PenaliseInv ==
  ASSUME Inv, NEW b \in Buckets, NEW s \in Nat, Penalise(b, s), UNCHANGED meter
  PROVE  /\ tokens' \in [Buckets -> Nat]
         /\ \A c \in Buckets : tokens'[c] <= Rate(c)
         /\ penalty' \in [Buckets -> Nat]
         /\ \A c \in Buckets : meter'[c] + tokens'[c] <= Burst(c)
  <1>1. /\ tokens \in [Buckets -> Nat] /\ meter \in [Buckets -> Nat]
        /\ penalty \in [Buckets -> Nat]
        /\ \A c \in Buckets : tokens[c] <= Rate(c)
    BY DEF Inv, TypeOK
  <1>2. tokens' = [tokens EXCEPT ![b] = 0] /\ penalty' = [penalty EXCEPT ![b] = s]
    <2>1. ~ (s < 0) /\ Larger(s, 0) = s
      BY DEF Larger
    <2>2. tokens' = [tokens EXCEPT ![b] = 0]
      BY <2>1 DEF Penalise
    <2>3. penalty' = [penalty EXCEPT ![b] = s]
      BY <2>1 DEF Penalise
    <2> QED
      BY <2>2, <2>3
  <1>3. tokens' \in [Buckets -> Nat] /\ penalty' \in [Buckets -> Nat]
    BY <1>1, <1>2
  <1>4. \A c \in Buckets : tokens'[c] <= tokens[c]
    BY <1>1, <1>2
  <1>5. \A c \in Buckets : Burst(c) \in Nat /\ Rate(c) \in Nat /\ meter[c] + tokens[c] <= Burst(c)
    BY BurstType, RateType DEF Inv, RateBound
  <1>6. \A c \in Buckets : meter'[c] + tokens'[c] <= Burst(c)
    BY <1>1, <1>3, <1>4, <1>5
  <1>7. \A c \in Buckets : tokens'[c] <= Rate(c)
    BY <1>1, <1>3, <1>4, <1>5
  <1> QED
    BY <1>3, <1>6, <1>7

\* The steps of a thread that touch no bucket.
LEMMA QuietInv ==
  ASSUME Inv, NEW t \in Tasks,
         UNCHANGED <<hostBuckets, tokens, penalty, meterVars, mine>>,
         NEW l \in Steps \cup Outcomes, Goto(t, l),
         attempt' \in [Tasks -> 0 .. Retries], sleep' \in [Tasks -> Nat],
         l \in {"global", "host", "get", "sleep"} => mine[t] \in Tasks,
         l \in Early => pc[t] \in Early,
         l # "rewound", pc[t] # "rewound"
  PROVE  Inv'
  <1>1. TypeOK'
    BY DEF Inv, TypeOK, Goto, meterVars, Rate
  <1>2. HasBucket'
    BY DEF Inv, TypeOK, HasBucket, Goto
  <1>3. Unborn'
    BY DEF Inv, TypeOK, Unborn, Goto, meterVars, Early
  <1>4. RateBound'
    BY SameRewound, SameBurst DEF Inv, RateBound, meterVars
  <1> QED
    BY <1>1, <1>2, <1>3, <1>4 DEF Inv

LEMMA LookUpInv == ASSUME Inv, NEW t \in Tasks, LookUp(t) PROVE Inv'
  <1> DEFINE b == hostBuckets[HostOf[t]]
  <1>1. b \in Tasks \cup {Nil} /\ Nil \notin Tasks
    BY FetcherAssumption DEF Inv, TypeOK
  <1>2. TypeOK'
    BY <1>1 DEF Inv, TypeOK, LookUp, Goto, meterVars, Rate, Steps
  <1>3. HasBucket'
    BY <1>1 DEF Inv, TypeOK, HasBucket, LookUp, Goto
  <1>4. Unborn'
    <2> SUFFICES ASSUME NEW u \in Tasks, pc'[u] \in Early
                 PROVE  /\ meter'[u] = 0
                        /\ \A v \in Tasks : mine'[v] # u
                        /\ \A h \in Hosts : hostBuckets'[h] # u
      BY DEF Unborn
    <2>1. pc[u] \in Early
      BY DEF Inv, TypeOK, LookUp, Goto, Early
    <2>2. b # u
      BY <2>1, FetcherAssumption DEF Inv, Unborn
    <2> QED
      BY <2>1, <2>2 DEF Inv, TypeOK, Unborn, LookUp, meterVars
  <1>5. RateBound'
    <2>1. Rewound' = Rewound
      BY SameRewound DEF LookUp, Inv
    <2> QED
      BY <2>1, SameBurst DEF Inv, RateBound, LookUp, meterVars
  <1> QED
    BY <1>2, <1>3, <1>4, <1>5 DEF Inv

LEMMA CreateInv == ASSUME Inv, NEW t \in Tasks, CreateBucket(t) PROVE Inv'
  <1> USE RateType, GlobalIsNoTask
  <1>1. pc[t] \in Early /\ meter[t] = 0
    BY DEF Inv, Unborn, CreateBucket, Early
  <1>2. TypeOK'
    <2>1. tokens' \in [Buckets -> Nat] /\ \A b \in Buckets : tokens'[b] <= Rate(b)
      BY DEF Inv, TypeOK, CreateBucket
    <2> QED
      BY <2>1 DEF Inv, TypeOK, CreateBucket, Goto, meterVars, Rate, Steps
  <1>3. HasBucket'
    BY DEF Inv, TypeOK, HasBucket, CreateBucket, Goto
  <1>4. Unborn'
    BY DEF Inv, TypeOK, Unborn, CreateBucket, Goto, meterVars, Early
  <1>5. RateBound'
    <2>1. Rewound' = Rewound
      BY SameRewound DEF CreateBucket, Inv
    <2>2. ASSUME NEW b \in Buckets PROVE meter'[b] + tokens'[b] <= Burst(b)
      <3>1. CASE b = t
        <4>1. meter'[b] = 0 /\ tokens'[b] = Rate(b)
          BY <1>1, <3>1 DEF CreateBucket, meterVars, Inv, TypeOK
        <4> QED
          BY <4>1, BurstType
      <3>2. CASE b # t
        BY <3>2 DEF Inv, TypeOK, RateBound, CreateBucket, meterVars
      <3> QED
        BY <3>1, <3>2
    <2> QED
      BY <2>1, <2>2, SameBurst DEF RateBound
  <1> QED
    BY <1>2, <1>3, <1>4, <1>5 DEF Inv

LEMMA AcquireInv ==
  ASSUME Inv, NEW t \in Tasks, AcquireGlobal(t) \/ AcquireHost(t)
  PROVE  Inv'
  <1> DEFINE b == IF AcquireGlobal(t) THEN Global ELSE mine[t]
  <1>1. Grant(b) /\ mine[t] \in Tasks
    BY DEF Inv, HasBucket, AcquireGlobal, AcquireHost
  <1>2. b \in Buckets
    BY <1>1, GlobalIsNoTask
  <1>3. b \in Tasks => pc[b] \notin Early
    BY <1>1, GlobalIsNoTask DEF Inv, Unborn
  <1>4. /\ tokens' \in [Buckets -> Nat]
        /\ \A c \in Buckets : tokens'[c] <= Rate(c)
        /\ meter' \in [Buckets -> Nat]
        /\ \A c \in Buckets : meter'[c] + tokens'[c] <= Burst(c)
        /\ \A u \in Tasks : pc[u] \in Early => meter'[u] = 0
    BY <1>1, <1>2, <1>3, GrantInv
  <1>5. hostMeter' \in [Hosts -> Nat]
    BY FetcherAssumption DEF Inv, TypeOK, AcquireGlobal, AcquireHost
  <1>6. pc' \in [Tasks -> Steps \cup Outcomes] /\ \A u \in Tasks : pc'[u] = pc[u] \/ (u = t /\ pc'[u] \in {"host", "get"})
    BY DEF Inv, TypeOK, AcquireGlobal, AcquireHost, Goto, Steps
  <1>7. UNCHANGED <<attempt, sleep, mine, hostBuckets, penalty>>
    BY DEF AcquireGlobal, AcquireHost
  <1>8. TypeOK'
    BY <1>4, <1>5, <1>6, <1>7 DEF Inv, TypeOK, Rate
  <1>9. HasBucket'
    BY <1>1, <1>6, <1>7 DEF Inv, HasBucket
  <1>10. Unborn'
    BY <1>4, <1>6, <1>7 DEF Inv, Unborn, Early
  <1>11. Rewound' = Rewound
    BY SameRewound DEF AcquireGlobal, AcquireHost, Inv
  <1>12. RateBound'
    BY <1>4, <1>11, SameBurst DEF RateBound
  <1> QED
    BY <1>8, <1>9, <1>10, <1>12 DEF Inv

\* An answer that penalises a bucket and puts the thread to sleep.
LEMMA PenalisedInv ==
  ASSUME Inv, NEW t \in Tasks, NEW b \in Buckets, NEW s \in Nat, NEW d \in Nat,
         Retry(t, d), Penalise(b, s)
  PROVE  Inv'
  <1>1. UNCHANGED <<attempt, mine, hostBuckets, meter, hostMeter>> /\ pc[t] = "get"
    BY DEF Retry
  <1>2. /\ tokens' \in [Buckets -> Nat]
        /\ \A c \in Buckets : tokens'[c] <= Rate(c)
        /\ penalty' \in [Buckets -> Nat]
        /\ \A c \in Buckets : meter'[c] + tokens'[c] <= Burst(c)
    BY <1>1, PenaliseInv
  <1>3. pc' = [pc EXCEPT ![t] = "sleep"] /\ sleep' = [sleep EXCEPT ![t] = d]
    BY DEF Retry, Goto
  <1>4. TypeOK'
    BY <1>1, <1>2, <1>3 DEF Inv, TypeOK, Steps, Rate
  <1>5. HasBucket'
    BY <1>1, <1>3 DEF Inv, TypeOK, HasBucket
  <1>6. Unborn'
    BY <1>1, <1>3 DEF Inv, TypeOK, Unborn, Early
  <1>7. Rewound' = Rewound
    BY SameRewound DEF Retry, Inv
  <1>8. RateBound'
    BY <1>2, <1>7, SameBurst DEF RateBound
  <1> QED
    BY <1>4, <1>5, <1>6, <1>8 DEF Inv

\* A negative Retry-After: the global bucket may be full again, for the price
\* of a fetch.
LEMMA RewindInv ==
  ASSUME Inv, NEW t \in Tasks, NEW s \in Int, s < 0,
         Leave(t, "rewound"), Penalise(Global, s)
  PROVE  Inv'
  <1>0. Rate(Global) \in Nat /\ Global \in Buckets /\ Tasks \subseteq Buckets /\ Global \notin Tasks
    BY RateType, GlobalIsNoTask
  <1>1. /\ tokens \in [Buckets -> Nat] /\ meter \in [Buckets -> Nat]
        /\ penalty \in [Buckets -> Nat] /\ pc \in [Tasks -> Steps \cup Outcomes]
        /\ pc[t] = "get" /\ pc' = [pc EXCEPT ![t] = "rewound"]
        /\ UNCHANGED <<sleep, mine, hostBuckets, meter, hostMeter>>
    BY DEF Inv, TypeOK, Leave, Goto, meterVars
  <1>2. PICK n \in Nat : tokens' = [tokens EXCEPT ![Global] = n] /\ n <= Rate(Global)
    <2>1. Rate(Global) * (0 - s) \in Nat
      BY <1>0
    <2>2. /\ Smaller(Rate(Global), Rate(Global) * (0 - s)) \in Nat
          /\ Smaller(Rate(Global), Rate(Global) * (0 - s)) <= Rate(Global)
      BY <1>0, <2>1, NumberTypes
    <2> QED
      BY <2>2 DEF Penalise
  <1>3. penalty' = [penalty EXCEPT ![Global] = 0]
    <2>1. Larger(s, 0) = 0
      BY DEF Larger
    <2> QED
      BY <2>1 DEF Penalise
  <1>4. TypeOK'
    <2>1. tokens' \in [Buckets -> Nat] /\ penalty' \in [Buckets -> Nat]
      BY <1>1, <1>2, <1>3
    <2>2. \A b \in Buckets : tokens'[b] <= Rate(b)
      BY <1>0, <1>1, <1>2 DEF Inv, TypeOK
    <2>3. pc' \in [Tasks -> Steps \cup Outcomes]
      BY <1>1 DEF Outcomes
    <2>4. attempt' \in [Tasks -> 0 .. Retries]
      BY FetcherAssumption DEF Leave, Inv, TypeOK
    <2> QED
      BY <1>1, <2>1, <2>2, <2>3, <2>4 DEF Inv, TypeOK, Rate
  <1>5. HasBucket'
    BY <1>1 DEF Inv, HasBucket
  <1>6. Unborn'
    BY <1>1 DEF Inv, Unborn, Early
  <1>7. RateBound'
    <2>1. IsFiniteSet(Rewound) /\ t \notin Rewound /\ Rewound' = Rewound \cup {t}
      <3>1. Rewound \subseteq Tasks
        BY DEF Rewound
      <3> QED
        BY <1>1, <3>1, FS_Subset, FetcherAssumption DEF Rewound
    <2>2. Cardinality(Rewound') = Cardinality(Rewound) + 1 /\ Cardinality(Rewound) \in Nat
      BY <2>1, FS_AddElement, FS_CardinalityType
    <2>3. PICK k \in Nat : k = Cardinality(Rewound)
      BY <2>2
    <2>4. Burst(Global) = GlobalRate * (1 + k) /\ Burst(Global)' = GlobalRate * (1 + (k + 1))
      BY <2>2, <2>3 DEF Burst
    <2>5. GlobalRate * (1 + (k + 1)) = GlobalRate * (1 + k) + GlobalRate /\ GlobalRate \in Nat
      BY FetcherAssumption
    <2>6. Burst(Global)' = Burst(Global) + Rate(Global) /\ Burst(Global) \in Nat
      BY <1>0, <2>4, <2>5, BurstType DEF Rate
    <2>7. meter'[Global] + tokens'[Global] <= Burst(Global)'
      <3>1. meter[Global] + tokens[Global] <= Burst(Global) /\ meter[Global] \in Nat /\ tokens[Global] \in Nat
        BY <1>0, <1>1 DEF Inv, RateBound
      <3>2. meter'[Global] = meter[Global] /\ tokens'[Global] = n
        BY <1>0, <1>1, <1>2
      <3> QED
        BY <1>0, <1>2, <2>6, <3>1, <3>2
    <2>8. \A b \in Buckets : b # Global => meter'[b] + tokens'[b] <= Burst(b)'
      BY <1>1, <1>2 DEF Inv, RateBound, Burst
    <2> QED
      BY <2>7, <2>8 DEF RateBound
  <1> QED
    BY <1>4, <1>5, <1>6, <1>7 DEF Inv

LEMMA TickInv == ASSUME Inv, Tick PROVE Inv'
  <1> USE RateType
  <1>1. /\ tokens \in [Buckets -> Nat] /\ meter \in [Buckets -> Nat]
        /\ penalty \in [Buckets -> Nat]
        /\ sleep \in [Tasks -> Nat] /\ hostMeter \in [Hosts -> Nat]
    BY DEF Inv, TypeOK
  <1>2. ASSUME NEW b \in Buckets
        PROVE  /\ tokens'[b] \in Nat /\ tokens'[b] <= Rate(b)
               /\ meter'[b] \in Nat /\ (meter[b] = 0 => meter'[b] = 0)
               /\ meter'[b] + tokens'[b] <= Burst(b)
    <2>1. tokens'[b] = IF penalty[b] > 0 THEN tokens[b]
                       ELSE Smaller(Rate(b), tokens[b] + Rate(b))
      BY DEF Tick
    <2>2. meter'[b] = Less(meter[b], Rate(b))
      BY DEF Tick
    <2>3. /\ tokens[b] \in Nat /\ meter[b] \in Nat /\ Rate(b) \in Nat
          /\ tokens[b] <= Rate(b) /\ meter[b] + tokens[b] <= Burst(b)
          /\ Burst(b) \in Nat /\ Rate(b) <= Burst(b)
      BY <1>1, BurstType DEF Inv, TypeOK, RateBound
    <2>4. meter'[b] \in Nat /\ (meter'[b] = 0 \/ meter'[b] = meter[b] - Rate(b)) /\ meter'[b] <= meter[b]
      BY <2>2, <2>3, NumberTypes
    <2>5. tokens'[b] = tokens[b] \/ tokens'[b] = Rate(b)
      BY <2>1, <2>3 DEF Smaller
    <2> QED
      BY <2>3, <2>4, <2>5
  <1>3. /\ tokens' \in [Buckets -> Nat] /\ meter' \in [Buckets -> Nat]
        /\ \A b \in Buckets : tokens'[b] <= Rate(b)
    BY <1>2 DEF Tick
  <1>4. /\ penalty' \in [Buckets -> Nat]
        /\ sleep' \in [Tasks -> Nat] /\ hostMeter' \in [Hosts -> Nat]
    BY <1>1, NumberTypes, FetcherAssumption DEF Tick
  <1>5. TypeOK'
    BY <1>3, <1>4 DEF Inv, TypeOK, Tick, Rate
  <1>6. HasBucket'
    BY DEF Inv, HasBucket, Tick
  <1>7. Unborn'
    BY <1>2, GlobalIsNoTask DEF Inv, Unborn, Tick
  <1>8. RateBound'
    <2>1. Rewound' = Rewound
      BY DEF Tick, Rewound
    <2> QED
      BY <1>2, <2>1, SameBurst DEF RateBound
  <1> QED
    BY <1>5, <1>6, <1>7, <1>8 DEF Inv

LEMMA ThreadInv == ASSUME Inv, NEW t \in Tasks, Thread(t) PROVE Inv'
  <1>0. /\ attempt \in [Tasks -> 0 .. Retries] /\ sleep \in [Tasks -> Nat]
        /\ Retries \in Nat /\ BlockedSleep \in Nat /\ Unasked \in Nat /\ Cooldown \in Nat
        /\ pc[t] \in {"global", "host", "get", "sleep"} => mine[t] \in Tasks
    BY FetcherAssumption DEF Inv, TypeOK, HasBucket
  <1>1. CASE StartTask(t)
    BY <1>0, <1>1, QuietInv, "lookup" \in Steps DEF StartTask, Early, Steps
  <1>2. CASE LookUp(t)
    BY <1>2, LookUpInv
  <1>3. CASE CreateBucket(t)
    BY <1>3, CreateInv
  <1>4. CASE AcquireGlobal(t) \/ AcquireHost(t)
    BY <1>4, AcquireInv
  <1>5. CASE Ok(t) \/ Gone(t) \/ Other(t) \/ Raise(t)
    <2>1. PICK l \in Outcomes \ {"rewound"} : Finish(t, l)
      BY <1>5 DEF Ok, Gone, Other, Raise, Outcomes
    <2>2. l \in Steps \cup Outcomes /\ l \notin {"global", "host", "get", "sleep"} \cup Early
      BY DEF Outcomes, Early
    <2> QED
      BY <1>0, <2>1, <2>2, QuietInv DEF Finish, Leave
  <1>6. CASE Transient(t)
    <2>1. sleep' \in [Tasks -> Nat] /\ attempt' = attempt /\ Goto(t, "sleep")
      BY <1>0, <1>6 DEF Transient, Retry
    <2>2. UNCHANGED <<hostBuckets, tokens, penalty, meterVars, mine>> /\ pc[t] = "get"
      BY <1>6 DEF Transient, Retry, meterVars
    <2>3. "sleep" \in Steps \cup Outcomes /\ "sleep" \notin Early
      BY DEF Steps, Early
    <2> QED
      BY <1>0, <2>1, <2>2, <2>3, QuietInv
  <1>7. CASE TooMany(t)
    <2>1. CASE \E s \in Nat, d \in Nat : Retry(t, d) /\ Penalise(Global, s)
      BY <2>1, PenalisedInv, GlobalIsNoTask
    <2>2. CASE \E s \in Int : s < 0 /\ Leave(t, "rewound") /\ Penalise(Global, s)
      BY <2>2, RewindInv
    <2>3. CASE Retry(t, 0) /\ Penalise(Global, Unasked)
      BY <1>0, <2>1, <2>3
    <2>4. CASE \E s \in RetryAfters : Penalise(Global, s) /\ IF s >= 0 THEN Retry(t, s) ELSE Leave(t, "rewound")
      <3>1. PICK s \in RetryAfters : Penalise(Global, s) /\ IF s >= 0 THEN Retry(t, s) ELSE Leave(t, "rewound")
        BY <2>4
      <3>2. s \in Int
        BY FetcherAssumption
      <3>3. CASE s >= 0
        BY <2>1, <3>1, <3>2, <3>3
      <3>4. CASE s < 0
        BY <2>2, <3>1, <3>2, <3>4
      <3> QED
        BY <3>2, <3>3, <3>4
    <2> QED
      BY <1>7, <2>3, <2>4 DEF TooMany
  <1>8. CASE Forbidden(t)
    <2>1. mine[t] \in Buckets
      BY <1>0, <1>8, GlobalIsNoTask DEF Forbidden, Retry
    <2>2. Cooldown * (attempt[t] + 1) \in Nat
      BY <1>0
    <2> QED
      BY <1>0, <1>8, <2>1, <2>2, PenalisedInv DEF Forbidden
  <1>9. CASE Wake(t)
    <2>1. PICK l \in {"global", "failed"} : Goto(t, l) /\ attempt' \in [Tasks -> 0 .. Retries]
      BY <1>0, <1>9 DEF Wake
    <2>2. l \in Steps \cup Outcomes /\ l \notin Early
      BY DEF Steps, Outcomes, Early
    <2>3. UNCHANGED <<sleep, mine, hostBuckets, tokens, penalty, meterVars>> /\ pc[t] = "sleep"
      BY <1>9 DEF Wake
    <2> QED
      BY <1>0, <2>1, <2>2, <2>3, QuietInv
  <1> QED
    BY <1>1, <1>2, <1>3, <1>4, <1>5, <1>6, <1>7, <1>8, <1>9 DEF Thread

LEMMA NextInv == Inv /\ [Next]_vars => Inv'
  <1> SUFFICES ASSUME Inv, [Next]_vars PROVE Inv'
    OBVIOUS
  <1>1. CASE UNCHANGED vars
    <2>1. Rewound' = Rewound
      BY <1>1 DEF Rewound, vars, threadVars
    <2>2. RateBound'
      BY <1>1, <2>1, SameBurst DEF Inv, RateBound, vars, meterVars
    <2> QED
      BY <1>1, <2>2 DEF Inv, TypeOK, HasBucket, Unborn, Rate, vars, threadVars, meterVars
  <1> QED
    BY <1>1, ThreadInv, TickInv DEF Next

(***************************************************************************)
(* The results.                                                            *)
(***************************************************************************)

\* TokenBucket, acquire, penalise and the host buckets: a bucket grants at
\* most its capacity and its rate times the span over any span of time,
\* whatever the threads' interleaving, the answers and the penalties; the
\* global one its capacity once more for every fetch that dies of a negative
\* Retry-After.
THEOREM RateHolds == Spec => []RateBound
  <1>1. Inv => RateBound
    BY DEF Inv
  <1> QED
    BY <1>1, InitInv, NextInv, PTL DEF Spec
-----------------------------------------------------------------------------
(***************************************************************************)
(* The rate of a host.  _get_host_bucket reads and writes the dictionary   *)
(* without a lock, so every worker that has found no bucket makes one: but *)
(* they all found none before the first was made, and were running then.   *)
(***************************************************************************)

\* Those who have made a bucket for h or are about to.
Creators(h) == {t \in Tasks : HostOf[t] = h /\ (pc[t] = "create" \/ mine[t] = t)}

WithinPool(S) == IsFiniteSet(S) /\ Cardinality(S) <= Workers

\* A bucket in use was made for the host it is used for.
OwnHost ==
    /\ \A t \in Tasks : mine[t] \in Tasks => mine[t] \in BucketsFor(HostOf[t])
    /\ \A h \in Hosts : hostBuckets[h] \in Tasks => hostBuckets[h] \in BucketsFor(h)

\* A host's first bucket is in the dictionary.
FirstIsKnown == \A h \in Hosts : hostBuckets[h] = Nil => BucketsFor(h) = {}

\* The only bucket of a host has granted all of the host's tokens.
OneMeter ==
    \A h \in Hosts :
       /\ BucketsFor(h) = {} => hostMeter[h] = 0
       /\ \A b \in Tasks : BucketsFor(h) = {b} => hostMeter[h] = meter[b]

HostInv ==
    /\ WithinPool(Running)
    /\ \A h \in Hosts : WithinPool(Creators(h))
    /\ OwnHost
    /\ FirstIsKnown
    /\ OneMeter

LEMMA FewerWithinPool ==
  ASSUME NEW S, NEW T, WithinPool(S), T \subseteq S
  PROVE  WithinPool(T)
  <1>1. IsFiniteSet(T) /\ Cardinality(T) <= Cardinality(S)
    BY FS_Subset DEF WithinPool
  <1>2. Cardinality(T) \in Nat /\ Cardinality(S) \in Nat
    BY <1>1, FS_CardinalityType DEF WithinPool
  <1> QED
    BY <1>1, <1>2, FetcherAssumption DEF WithinPool

LEMMA InitHost == Init => HostInv
  <1> SUFFICES ASSUME Init PROVE HostInv
    OBVIOUS
  <1> USE DEF Init
  <1>1. Nil \notin Tasks
    BY FetcherAssumption
  <1>2. \A h \in Hosts : BucketsFor(h) = {} /\ Creators(h) = {}
    BY <1>1 DEF BucketsFor, Creators
  <1>3. Running = {}
    BY DEF Running
  <1>4. WithinPool({})
    BY FS_EmptySet, FetcherAssumption DEF WithinPool
  <1>5. OwnHost /\ FirstIsKnown /\ OneMeter
    BY <1>1, <1>2 DEF OwnHost, FirstIsKnown, OneMeter
  <1> QED
    BY <1>2, <1>3, <1>4, <1>5 DEF HostInv

\* A step of t that creates no bucket and leaves the meters in step.
LEMMA SettledHost ==
  ASSUME HostInv, UNCHANGED <<mine, hostBuckets>>,
         WithinPool(Running'), \A h \in Hosts : Creators(h)' \subseteq Creators(h), OneMeter'
  PROVE  HostInv'
  <1>1. \A h : BucketsFor(h)' = BucketsFor(h)
    BY DEF BucketsFor
  <1>2. OwnHost' /\ FirstIsKnown'
    BY <1>1 DEF HostInv, OwnHost, FirstIsKnown
  <1>3. \A h \in Hosts : WithinPool(Creators(h)')
    BY FewerWithinPool DEF HostInv
  <1>4. WithinPool(Running)' /\ \A h \in Hosts : WithinPool(Creators(h))'
    BY <1>3 DEF WithinPool
  <1> QED
    BY <1>2, <1>4 DEF HostInv

\* A step of t that goes on without creating, from where it runs already.
LEMMA GoOnHost ==
  ASSUME Inv, HostInv, NEW t \in Tasks, NEW l, Goto(t, l), l # "create",
         t \in Running, UNCHANGED <<mine, hostBuckets>>, OneMeter'
  PROVE  HostInv'
  <1>1. pc' = [pc EXCEPT ![t] = l] /\ pc \in [Tasks -> Steps \cup Outcomes]
    BY DEF Goto, Inv, TypeOK
  <1>2. Running' \subseteq Running
    BY <1>1 DEF Running
  <1>3. \A h \in Hosts : Creators(h)' \subseteq Creators(h)
    BY <1>1 DEF Creators
  <1>4. WithinPool(Running')
    BY <1>2, FewerWithinPool DEF HostInv
  <1> QED
    BY <1>3, <1>4, SettledHost

LEMMA StartHost == ASSUME Inv, HostInv, NEW t \in Tasks, StartTask(t) PROVE HostInv'
  <1>1. pc' = [pc EXCEPT ![t] = "lookup"] /\ pc \in [Tasks -> Steps \cup Outcomes]
    BY DEF Goto, Inv, TypeOK, StartTask
  <1>2. Running' = Running \cup {t} /\ t \notin Running
    BY <1>1 DEF Running, StartTask, Outcomes
  <1>3. IsFiniteSet(Running') /\ Cardinality(Running') = Cardinality(Running) + 1
    BY <1>2, FS_AddElement DEF HostInv, WithinPool
  <1>4. WithinPool(Running')
    BY <1>3, FS_CardinalityType, FetcherAssumption DEF HostInv, WithinPool, StartTask
  <1>5. \A h \in Hosts : Creators(h)' \subseteq Creators(h)
    BY <1>1 DEF Creators, StartTask
  <1>6. OneMeter'
    BY DEF HostInv, OneMeter, StartTask, BucketsFor, meterVars
  <1> QED
    BY <1>4, <1>5, <1>6, SettledHost DEF StartTask

LEMMA LookUpHost == ASSUME Inv, HostInv, NEW t \in Tasks, LookUp(t) PROVE HostInv'
  <1> DEFINE b == hostBuckets[HostOf[t]]
  <1>0. HostOf[t] \in Hosts /\ Nil \notin Tasks /\ b \in Tasks \cup {Nil}
    BY FetcherAssumption DEF Inv, TypeOK
  <1>1. /\ pc' = [pc EXCEPT ![t] = IF b = Nil THEN "create" ELSE "global"]
        /\ pc \in [Tasks -> Steps \cup Outcomes] /\ pc[t] = "lookup"
        /\ mine' = [mine EXCEPT ![t] = b] /\ mine \in [Tasks -> Tasks \cup {Nil}]
        /\ UNCHANGED <<hostBuckets, meter, hostMeter>>
    BY DEF Goto, Inv, TypeOK, LookUp, meterVars
  <1>2. b # t /\ \A u \in Tasks : mine[u] # t
    BY <1>0, <1>1 DEF Inv, Unborn, Early
  <1>3. \A h : BucketsFor(h)' = BucketsFor(h)
    BY <1>1, <1>2 DEF BucketsFor
  <1>4. Running' = Running
    BY <1>1 DEF Running, Outcomes
  <1>5. ASSUME NEW h \in Hosts PROVE WithinPool(Creators(h)')
    <2>1. CASE h = HostOf[t] /\ b = Nil
      <3>1. BucketsFor(h) = {}
        BY <2>1 DEF HostInv, FirstIsKnown
      <3>2. Creators(h)' \subseteq Running
        <4> SUFFICES ASSUME NEW u \in Tasks, HostOf[u] = h, pc'[u] = "create" \/ mine'[u] = u
                     PROVE  u \in Running
          BY DEF Creators
        <4>1. mine'[u] # u
          BY <1>3, <3>1 DEF BucketsFor
        <4> QED
          BY <1>1, <4>1 DEF Running, Outcomes
      <3> QED
        BY <3>2, FewerWithinPool DEF HostInv
    <2>2. CASE h # HostOf[t] \/ b # Nil
      <3>1. Creators(h)' \subseteq Creators(h)
        BY <1>1, <1>2, <2>2 DEF Creators
      <3> QED
        BY <3>1, FewerWithinPool DEF HostInv
    <2> QED
      BY <2>1, <2>2
  <1>6. WithinPool(Running)' /\ \A h \in Hosts : WithinPool(Creators(h))'
    BY <1>4, <1>5 DEF HostInv, WithinPool
  <1>7. OwnHost'
    BY <1>0, <1>1, <1>3 DEF HostInv, OwnHost
  <1>8. FirstIsKnown' /\ OneMeter'
    BY <1>1, <1>3 DEF HostInv, FirstIsKnown, OneMeter
  <1> QED
    BY <1>6, <1>7, <1>8 DEF HostInv

LEMMA CreateHost == ASSUME Inv, HostInv, NEW t \in Tasks, CreateBucket(t) PROVE HostInv'
  <1>0. HostOf \in [Tasks -> Hosts] /\ HostOf[t] \in Hosts /\ Nil \notin Tasks
    BY FetcherAssumption
  <1>1. /\ pc' = [pc EXCEPT ![t] = "global"]
        /\ pc \in [Tasks -> Steps \cup Outcomes] /\ pc[t] = "create"
        /\ mine' = [mine EXCEPT ![t] = t] /\ mine \in [Tasks -> Tasks \cup {Nil}]
        /\ hostBuckets' = [hostBuckets EXCEPT ![HostOf[t]] = t]
        /\ hostBuckets \in [Hosts -> Tasks \cup {Nil}]
        /\ UNCHANGED <<meter, hostMeter>>
    BY DEF Goto, Inv, TypeOK, CreateBucket, meterVars
  <1>2. meter[t] = 0 /\ mine[t] # t
    BY <1>1 DEF Inv, Unborn, Early
  <1>3. \A h \in Hosts : BucketsFor(h)' = IF h = HostOf[t] THEN BucketsFor(h) \cup {t} ELSE BucketsFor(h)
    BY <1>0, <1>1 DEF BucketsFor
  <1>4. Running' \subseteq Running /\ \A h \in Hosts : Creators(h)' \subseteq Creators(h)
    BY <1>1 DEF Running, Creators, Outcomes
  <1>5. WithinPool(Running)' /\ \A h \in Hosts : WithinPool(Creators(h))'
    <2>1. WithinPool(Running') /\ \A h \in Hosts : WithinPool(Creators(h)')
      BY <1>4, FewerWithinPool DEF HostInv
    <2> QED
      BY <2>1 DEF WithinPool
  <1>6. OwnHost'
    BY <1>0, <1>1, <1>3 DEF HostInv, OwnHost
  <1>7. FirstIsKnown'
    BY <1>0, <1>1, <1>3 DEF HostInv, FirstIsKnown
  <1>8. OneMeter'
    <2> SUFFICES ASSUME NEW h \in Hosts
                 PROVE  /\ BucketsFor(h)' = {} => hostMeter'[h] = 0
                        /\ \A b \in Tasks : BucketsFor(h)' = {b} => hostMeter'[h] = meter'[b]
      BY DEF OneMeter
    <2>1. CASE h # HostOf[t]
      BY <1>1, <1>3, <2>1 DEF HostInv, OneMeter
    <2>2. CASE h = HostOf[t]
      <3>1. BucketsFor(h)' = BucketsFor(h) \cup {t} /\ t \notin BucketsFor(h)
        BY <1>2, <1>3, <2>2 DEF BucketsFor
      <3>2. \A b \in Tasks : BucketsFor(h)' = {b} => b = t /\ BucketsFor(h) = {}
        BY <3>1
      <3> QED
        BY <1>1, <1>2, <3>1, <3>2 DEF HostInv, OneMeter
    <2> QED
      BY <2>1, <2>2
  <1> QED
    BY <1>5, <1>6, <1>7, <1>8 DEF HostInv

LEMMA AcquireHostHost == ASSUME Inv, HostInv, NEW t \in Tasks, AcquireHost(t) PROVE HostInv'
  <1>0. /\ mine[t] \in BucketsFor(HostOf[t]) /\ mine[t] \in Tasks /\ HostOf[t] \in Hosts
        /\ t \in Running
    BY FetcherAssumption DEF Inv, HasBucket, AcquireHost, HostInv, OwnHost, Running, Outcomes
  <1>1. /\ meter' = [meter EXCEPT ![mine[t]] = @ + 1] /\ meter \in [Buckets -> Nat]
        /\ hostMeter' = [hostMeter EXCEPT ![HostOf[t]] = @ + 1] /\ hostMeter \in [Hosts -> Nat]
        /\ UNCHANGED <<mine, hostBuckets>> /\ Tasks \subseteq Buckets
    BY GlobalIsNoTask DEF AcquireHost, Grant, Inv, TypeOK
  <1>2. \A h : BucketsFor(h)' = BucketsFor(h)
    BY <1>1 DEF BucketsFor
  <1>3. OneMeter'
    <2> SUFFICES ASSUME NEW h \in Hosts
                 PROVE  /\ BucketsFor(h) = {} => hostMeter'[h] = 0
                        /\ \A b \in Tasks : BucketsFor(h) = {b} => hostMeter'[h] = meter'[b]
      BY <1>2 DEF OneMeter
    <2>1. CASE h = HostOf[t]
      <3>1. BucketsFor(h) # {} /\ \A b \in Tasks : BucketsFor(h) = {b} => b = mine[t]
        BY <1>0, <2>1
      <3> QED
        BY <1>0, <1>1, <2>1, <3>1 DEF HostInv, OneMeter
    <2>2. CASE h # HostOf[t]
      <3>1. mine[t] \notin BucketsFor(h)
        BY <1>0, <2>2 DEF BucketsFor
      <3> QED
        BY <1>0, <1>1, <2>2, <3>1 DEF HostInv, OneMeter
    <2> QED
      BY <2>1, <2>2
  <1> QED
    BY <1>0, <1>1, <1>3, GoOnHost DEF AcquireHost

LEMMA TickHost == ASSUME Inv, HostInv, Tick PROVE HostInv'
  <1>1. UNCHANGED <<pc, mine, hostBuckets>>
    BY DEF Tick
  <1>2. Running' = Running /\ \A h : Creators(h)' = Creators(h) /\ BucketsFor(h)' = BucketsFor(h)
    BY <1>1 DEF Running, Creators, BucketsFor
  <1>3. \A b \in Tasks : meter'[b] = Less(meter[b], HostRate)
    BY GlobalIsNoTask DEF Tick, Rate
  <1>4. \A h \in Hosts : hostMeter'[h] = Less(hostMeter[h], HostRate)
    BY DEF Tick
  <1>5. Less(0, HostRate) = 0
    BY FetcherAssumption DEF Less, Larger
  <1>6. OneMeter'
    BY <1>2, <1>3, <1>4, <1>5 DEF HostInv, OneMeter
  <1> QED
    BY <1>1, <1>2, <1>6, SettledHost DEF HostInv

LEMMA ThreadHost == ASSUME Inv, HostInv, NEW t \in Tasks, Thread(t) PROVE HostInv'
  <1>1. CASE StartTask(t)
    BY <1>1, StartHost
  <1>2. CASE LookUp(t)
    BY <1>2, LookUpHost
  <1>3. CASE CreateBucket(t)
    BY <1>3, CreateHost
  <1>4. CASE AcquireHost(t)
    BY <1>4, AcquireHostHost
  <1>5. ASSUME NEW l, Goto(t, l), l # "create", pc[t] \in {"global", "get", "sleep"},
               UNCHANGED <<mine, hostBuckets, hostMeter>>, \A b \in Tasks : meter'[b] = meter[b]
        PROVE  HostInv'
    <2>1. OneMeter'
      BY <1>5 DEF HostInv, OneMeter, BucketsFor
    <2>2. t \in Running
      BY <1>5 DEF Running, Outcomes
    <2> QED
      BY <1>5, <2>1, <2>2, GoOnHost
  <1>6. CASE AcquireGlobal(t)
    <2>1. \A b \in Tasks : meter'[b] = meter[b]
      BY <1>6, GlobalIsNoTask DEF AcquireGlobal, Grant, Inv, TypeOK
    <2> QED
      BY <1>5, <1>6, <2>1 DEF AcquireGlobal
  <1>7. CASE Ok(t) \/ Gone(t) \/ Other(t) \/ Raise(t)
    BY <1>5, <1>7 DEF Ok, Gone, Other, Raise, Finish, Leave, meterVars
  <1>8. CASE Transient(t) \/ TooMany(t) \/ Forbidden(t)
    <2>1. \/ \E s : Retry(t, s)
          \/ Leave(t, "rewound")
      BY <1>8 DEF Transient, TooMany, Forbidden
    <2> QED
      BY <1>5, <2>1 DEF Retry, Leave, meterVars
  <1>9. CASE Wake(t)
    BY <1>5, <1>9 DEF Wake, meterVars
  <1> QED
    BY <1>1, <1>2, <1>3, <1>4, <1>6, <1>7, <1>8, <1>9 DEF Thread

LEMMA NextHost == Inv /\ HostInv /\ [Next]_vars => HostInv'
  <1> SUFFICES ASSUME Inv, HostInv, [Next]_vars PROVE HostInv'
    OBVIOUS
  <1>1. CASE UNCHANGED vars
    BY <1>1 DEF HostInv, WithinPool, Running, Creators, BucketsFor, OwnHost, FirstIsKnown,
                OneMeter, vars, threadVars, meterVars
  <1> QED
    BY <1>1, ThreadHost, TickHost DEF Next

LEMMA HostInvSuffices == Inv /\ HostInv => HostRateBound
  <1> SUFFICES ASSUME Inv, HostInv, NEW h \in Hosts
               PROVE  /\ Cardinality(BucketsFor(h)) <= Workers
                      /\ Cardinality(BucketsFor(h)) <= 1 => hostMeter[h] <= HostRate
    BY DEF HostRateBound
  <1>1. WithinPool(BucketsFor(h))
    <2>1. BucketsFor(h) \subseteq Creators(h)
      BY DEF BucketsFor, Creators
    <2> QED
      BY <2>1, FewerWithinPool DEF HostInv
  <1>2. ASSUME Cardinality(BucketsFor(h)) <= 1 PROVE hostMeter[h] <= HostRate
    <2>1. CASE BucketsFor(h) = {}
      BY <2>1, FetcherAssumption DEF HostInv, OneMeter
    <2>2. CASE BucketsFor(h) # {}
      <3>1. PICK b \in BucketsFor(h) : TRUE
        BY <2>2
      <3>2. BucketsFor(h) = {b}
        BY <1>1, <1>2, <3>1, FS_CardinalityType, FS_EmptySet, FS_Singleton DEF WithinPool
      <3>3. b \in Tasks /\ b \in Buckets /\ Rate(b) = HostRate
        BY <3>1, GlobalIsNoTask DEF BucketsFor, Rate
      <3>4. meter[b] + tokens[b] <= HostRate /\ meter[b] \in Nat /\ tokens[b] \in Nat
        BY <3>3, GlobalIsNoTask DEF Inv, TypeOK, RateBound, Burst
      <3>5. hostMeter[h] = meter[b]
        BY <3>2, <3>3 DEF HostInv, OneMeter
      <3> QED
        BY <3>4, <3>5, FetcherAssumption
    <2> QED
      BY <2>1, <2>2
  <1> QED
    BY <1>1, <1>2 DEF WithinPool

\* _get_host_bucket: however the unlocked reads and writes of the dictionary
\* interleave, a host never has more buckets than there are workers, and while
\* it has one it is asked no faster than FETCH_HOST_QPS.
THEOREM HostRateHolds == Spec => []HostRateBound
  BY InitInv, NextInv, InitHost, NextHost, HostInvSuffices, PTL DEF Spec
=============================================================================
