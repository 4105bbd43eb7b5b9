--------------------------- MODULE CrawlerProofs ---------------------------
(***************************************************************************)
(* The incremental window of module Crawler, for any window, page size,    *)
(* page limit, concurrency, resolution of the clock and number of articles.*)
(*                                                                         *)
(* The argument for CompleteRunsLeaveNone: pages shift under the run when  *)
(* articles are listed meanwhile, but only away from the front, so as long *)
(* as the pages read are the first ones, what the run has still to publish *)
(* stays on a page still to be read.  And what it has passed by was listed *)
(* during the run, when the cursor was not yet later than the clock: the   *)
(* overlap covers it, and goes on covering it while only pages behind it   *)
(* move the cursor.                                                        *)
(***************************************************************************)
EXTENDS Crawler, FiniteSetTheorems, WellFoundedInduction, TLAPS

Article == [id : Nat, time : Nat]

TypeInv ==
    /\ sinceWindow \in Nat /\ now \in Nat
    /\ listed \subseteq Article /\ IsFiniteSet(listed)
    /\ \A a \in listed : 1 <= a.time /\ a.time <= now
    /\ cursor \in Nat /\ cursor <= now
    /\ since \in Int /\ page \in Nat \ {0}
    /\ flying \subseteq 1 .. page - 1
    /\ pc \in {"sleep", "run", "drain", "wait"}
    /\ pc = "sleep" => flying = {} /\ results = {} /\ page = 1
    /\ complete \in BOOLEAN /\ shifted \in BOOLEAN
    /\ \A r \in results : r.kind = "failed" => ~ complete
    /\ failed \in Nat /\ (failed > 0 => ~ complete)

\* The page an article is on.
Page(a) == Cardinality(Ahead(a)) \div PerPage + 1

\* The next run's window holds a, or a is older than the configured one.
Covered(a) ==
    cursor = 0 \/ ~ UseCursor \/ a.time >= cursor - Overlap \/ a.time < Base

\* The pages the run has still to read, and whether it has seen the end.
Unread == flying \cup (IF pc \in {"run", "drain"} THEN {q \in Nat : q >= page} ELSE {})
Ended == pc = "wait" \/ \E r \in results : r.kind = "empty"

\* An article the run passes by: no page still to be read lies before it.
Safe(a) == Covered(a) /\ \A q \in Unread : Page(a) <= q

\* An article the run will still publish.
Due(a) == Page(a) \in Unread /\ (Ended => Page(a) \in flying)

\* What the run may rely on.
RunInv ==
    /\ since <= Base \/ since <= now - Overlap
    /\ complete /\ ~ shifted =>
          \A a \in Missed : a.time < Base \/ (a.time >= since /\ (Safe(a) \/ Due(a)))

SleepInv == complete /\ ~ shifted => \A a \in Missed : Covered(a)

Inv ==
    /\ TypeInv
    /\ pc = "sleep" => SleepInv
    /\ pc # "sleep" => RunInv
-----------------------------------------------------------------------------
(***************************************************************************)
(* Numbers.                                                                *)
(***************************************************************************)
LEMMA Least ==
  ASSUME NEW T, T \subseteq Nat, T # {}
  PROVE  \E x \in T : \A y \in T : x <= y
  <1> DEFINE R == {p \in Nat \X Nat : p[1] < p[2]}
  <1>1. IsWellFoundedOn(R, Nat)
    <2>1. IsWellFoundedOn(OpToRel(<, Nat), Nat)
      BY NatLessThanWellFounded
    <2>2. R = OpToRel(<, Nat)
      BY DEF OpToRel
    <2> QED
      BY <2>1, <2>2
  <1>2. PICK x \in T : \A y \in T : ~ (<<y, x>> \in R)
    <2> HIDE DEF R
    <2> QED
      BY <1>1, WFMin
  <1>3. ASSUME NEW y \in T PROVE x <= y
    <2>1. x \in Nat /\ y \in Nat
      OBVIOUS
    <2>2. y < x => <<y, x>> \in R
      BY <2>1
    <2> QED
      BY <1>2, <2>1, <2>2
  <1> QED
    BY <1>3

LEMMA Greatest ==
  ASSUME NEW T, NEW m \in Nat, T \subseteq 0 .. m, T # {}
  PROVE  \E x \in T : \A y \in T : x >= y
  <1> DEFINE U == {m - x : x \in T}
  <1>0. \A x \in T : x \in Nat /\ m - x \in Nat
    OBVIOUS
  <1>1. U \subseteq Nat /\ U # {}
    BY <1>0
  <1>2. PICK u \in U : \A v \in U : u <= v
    BY <1>1, Least
  <1>3. PICK x \in T : u = m - x
    BY <1>2
  <1>4. ASSUME NEW y \in T PROVE x >= y
    <2>1. m - y \in U
      OBVIOUS
    <2>2. m - x <= m - y /\ x \in Nat /\ y \in Nat
      BY <1>0, <1>2, <1>3, <2>1
    <2> QED
      BY <2>2
  <1> QED
    BY <1>4

LEMMA QuotientRange ==
  ASSUME NEW n \in Nat, NEW P \in Nat \ {0}, NEW q \in Nat, n \div P = q
  PROVE  q * P <= n /\ n < (q + 1) * P
  OBVIOUS

LEMMA RangeQuotient ==
  ASSUME NEW n \in Nat, NEW P \in Nat \ {0}, NEW q \in Nat, q * P <= n, n < (q + 1) * P
  PROVE  n \div P = q
  BY Z3

LEMMA ProductMonotone ==
  ASSUME NEW a \in Nat, NEW b \in Nat, NEW P \in Nat, a <= b
  PROVE  a * P <= b * P
  <1>1. PICK d \in Nat : b = a + d
    OBVIOUS
  <1>2. b * P = a * P + d * P /\ d * P \in Nat /\ a * P \in Nat
    BY <1>1
  <1> QED
    BY <1>2

LEMMA ProductOrder ==
  ASSUME NEW a \in Nat, NEW b \in Nat, NEW P \in Nat \ {0}, a * P < b * P
  PROVE  a < b
  <1>1. SUFFICES ASSUME a >= b PROVE FALSE
    OBVIOUS
  <1>2. b * P <= a * P
    BY <1>1, ProductMonotone
  <1> QED
    BY <1>2

LEMMA QuotientOrder ==
  ASSUME NEW n \in Nat, NEW k \in Nat, NEW P \in Nat \ {0}, n <= k
  PROVE  n \div P <= k \div P /\ n \div P \in Nat /\ k \div P \in Nat
  <1>1. PICK q \in Nat : q = n \div P
    OBVIOUS
  <1>2. PICK r \in Nat : r = k \div P
    OBVIOUS
  <1>3. q * P <= n /\ k < (r + 1) * P
    BY <1>1, <1>2, QuotientRange
  <1>4. q * P < (r + 1) * P
    BY <1>3
  <1>5. q < r + 1
    BY <1>4, ProductOrder
  <1> QED
    BY <1>1, <1>2, <1>5

(***************************************************************************)
(* The cursor: the strings are totally ordered, so of finitely many times  *)
(* one is the newest, and it lies in no earlier second than the others.    *)
(***************************************************************************)
LEMMA Resolution ==
  /\ TicksPerSecond \in Nat \ {0} /\ TicksPerSecond \in Units /\ 1 \in Units
  /\ \A u \in Units : u \in Nat \ {0} /\ u <= TicksPerSecond /\ TicksPerSecond % u = 0
  <1>1. TicksPerSecond \in Nat \ {0} /\ TicksPerSecond \in Units /\ 1 \in Units
    BY CrawlerAssumption
  <1>2. \A u \in Units : u \in Nat \ {0} /\ u <= TicksPerSecond
    BY CrawlerAssumption
  <1>3. \A u \in Units : TicksPerSecond % u = 0
    BY <1>1, <1>2, CrawlerAssumption
  <1> QED
    BY <1>1, <1>2, <1>3

LEMMA UnitType ==
  ASSUME NEW t \in Nat
  PROVE  Unit(t) \in Units /\ t % Unit(t) = 0
  <1> DEFINE D == {u \in Units : t % u = 0}
  <1>1. D \subseteq 0 .. TicksPerSecond /\ D # {} /\ TicksPerSecond \in Nat
    <2>1. 1 \in Units /\ t % 1 = 0
      BY Resolution
    <2>2. \A u \in Units : u \in 0 .. TicksPerSecond
      BY Resolution
    <2> QED
      BY <2>1, <2>2, Resolution
  <1>2. PICK u \in D : \A v \in D : u >= v
    <2> HIDE DEF D
    <2> QED
      BY <1>1, Greatest
  <1>3. \A v \in Units : v \in Nat
    BY Resolution
  <1>4. u \in Units /\ t % u = 0 /\ \A v \in Units : t % v = 0 => v <= u
    BY <1>2, <1>3
  <1> QED
    BY <1>4 DEF Unit

\* The next multiple of U after t is not past a multiple of U after t.
LEMMA NextMultiple ==
  ASSUME NEW U \in Nat \ {0}, NEW t \in Nat, NEW T \in Nat, NEW s \in Nat,
         t % U = 0, T % U = 0, t < s * T
  PROVE  t + U <= s * T
  <1>1. PICK k \in Nat : k = t \div U
    OBVIOUS
  <1>2. PICK n \in Nat : n = T \div U
    OBVIOUS
  <1>3. t = k * U /\ T = n * U
    BY <1>1, <1>2
  <1>4. PICK q \in Nat : q = s * n
    OBVIOUS
  <1>5. s * T = q * U
    BY <1>3, <1>4
  <1>6. k < q
    BY <1>3, <1>5, ProductOrder
  <1>7. (k + 1) * U <= q * U
    BY <1>6, ProductMonotone
  <1> QED
    BY <1>3, <1>5, <1>7

LEMMA EndBounds ==
  ASSUME NEW t \in Nat
  PROVE  /\ End(t) \in Nat /\ Second(t) \in Nat /\ t < End(t)
         /\ Second(t) * TicksPerSecond <= t
         /\ End(t) <= (Second(t) + 1) * TicksPerSecond
         /\ End(t) <= t + TicksPerSecond
  <1>1. TicksPerSecond \in Nat \ {0} /\ TicksPerSecond \in Units
    BY Resolution
  <1>2. Unit(t) \in Nat \ {0} /\ Unit(t) <= TicksPerSecond /\ t % Unit(t) = 0
    BY UnitType, Resolution
  <1>3. TicksPerSecond % Unit(t) = 0
    BY UnitType, Resolution
  <1>4. PICK s \in Nat : s = Second(t)
    BY <1>1 DEF Second
  <1>5. s * TicksPerSecond <= t /\ t < (s + 1) * TicksPerSecond
    BY <1>1, <1>4, QuotientRange DEF Second
  <1>6. t + Unit(t) <= (s + 1) * TicksPerSecond
    <2>1. s + 1 \in Nat
      OBVIOUS
    <2> QED
      BY <1>1, <1>2, <1>3, <1>5, <2>1, NextMultiple
  <1> QED
    BY <1>1, <1>2, <1>4, <1>5, <1>6 DEF End

LEMMA EndOrdersSeconds ==
  ASSUME NEW t \in Nat, NEW u \in Nat, End(t) >= End(u)
  PROVE  Second(t) >= Second(u)
  <1>1. TicksPerSecond \in Nat \ {0}
    BY CrawlerAssumption
  <1>2. /\ Second(t) \in Nat /\ Second(u) \in Nat /\ End(t) \in Nat /\ End(u) \in Nat
        /\ Second(u) * TicksPerSecond <= u /\ u < End(u)
        /\ End(t) <= (Second(t) + 1) * TicksPerSecond
    BY EndBounds
  <1>3. PICK r \in Nat : r = Second(t) + 1
    BY <1>2
  <1>4. Second(u) * TicksPerSecond < r * TicksPerSecond
    BY <1>1, <1>2, <1>3
  <1>5. Second(u) < r
    BY <1>1, <1>2, <1>4, ProductOrder
  <1> QED
    BY <1>2, <1>3, <1>5

LEMMA Newest ==
  ASSUME NEW C, NEW m \in Nat, C \subseteq 0 .. m, C # {}
  PROVE  \E t \in C : \A u \in C \ {t} : NewerString(t, u)
  <1>0. TicksPerSecond \in Nat /\ C \subseteq Nat /\ \A t \in C : t \in Nat /\ t <= m
    BY CrawlerAssumption
  <1> DEFINE S == {End(t) : t \in C}
  <1>1. S \subseteq 0 .. m + TicksPerSecond /\ S # {} /\ m + TicksPerSecond \in Nat
    <2>1. ASSUME NEW t \in C PROVE End(t) \in 0 .. m + TicksPerSecond
      <3>1. t \in Nat /\ t <= m
        BY <1>0
      <3>2. End(t) \in Nat /\ End(t) <= t + TicksPerSecond
        BY <3>1, EndBounds
      <3> QED
        BY <1>0, <3>1, <3>2
    <2>2. m + TicksPerSecond \in Nat
      BY <1>0
    <2> QED
      BY <2>1, <2>2
  <1>2. PICK e \in S : \A r \in S : e >= r
    <2> HIDE DEF S
    <2> QED
      BY <1>1, Greatest
  <1> DEFINE D == {t \in C : End(t) = e}
  <1>3. D \subseteq Nat /\ D # {}
    BY <1>0, <1>2
  <1>4. PICK t \in D : \A u \in D : t <= u
    <2> HIDE DEF D
    <2> QED
      BY <1>3, Least
  <1>5. ASSUME NEW u \in C, u # t PROVE NewerString(t, u)
    <2>0. t \in Nat /\ u \in Nat /\ End(t) = e /\ End(u) \in S
      BY <1>0, <1>4
    <2>1. End(t) \in Nat /\ End(u) \in Nat /\ End(t) >= End(u)
      BY <1>2, <2>0, EndBounds
    <2>2. CASE End(u) = End(t)
      <3>1. t <= u
        BY <1>4, <2>0, <2>2
      <3> QED
        BY <1>5, <2>0, <2>2, <3>1 DEF NewerString
    <2> QED
      BY <2>1, <2>2 DEF NewerString
  <1> QED
    BY <1>4, <1>5

\* The cursor is one of the times it is chosen from, and none of them lies in
\* a later second.
LEMMA AdvanceChooses ==
  ASSUME NEW T, NEW m \in Nat, T \subseteq 0 .. m, cursor \in 0 .. m
  PROVE  /\ AdvanceCursor(T) \in T \cup {cursor}
         /\ \A u \in T \cup {cursor} : Second(u) <= Second(AdvanceCursor(T))
  <1> DEFINE C == IF cursor = 0 THEN T ELSE T \cup {cursor}
             t == AdvanceCursor(T)
  <1>0. Second(0) = 0 /\ \A u \in T \cup {cursor} : u \in Nat /\ Second(u) \in Nat
    <2>1. Second(0) = 0
      BY Resolution DEF Second
    <2>2. \A u \in T \cup {cursor} : u \in Nat
      OBVIOUS
    <2> QED
      BY <2>1, <2>2, EndBounds
  <1>1. CASE C = {}
    <2>1. t = 0 /\ T = {} /\ cursor = 0
      BY <1>1 DEF AdvanceCursor
    <2> QED
      BY <1>0, <2>1
  <1>2. CASE C # {}
    <2>1. C \subseteq 0 .. m
      OBVIOUS
    <2>2. \E v \in C : \A u \in C \ {v} : NewerString(v, u)
      <3> HIDE DEF C
      <3> QED
        BY <1>2, <2>1, Newest
    <2>3. t = CHOOSE v \in C : \A u \in C \ {v} : NewerString(v, u)
      BY <1>2 DEF AdvanceCursor
    <2>4. t \in C /\ \A u \in C \ {t} : NewerString(t, u)
      <3> HIDE DEF C, t
      <3> QED
        BY <2>2, <2>3
    <2> HIDE DEF t
    <2>5. t \in T \cup {cursor} /\ t \in Nat
      BY <1>0, <2>4
    <2>6. ASSUME NEW u \in T \cup {cursor} PROVE Second(u) <= Second(t)
      <3>1. CASE u \in C \ {t}
        <4>1. End(t) >= End(u)
          BY <1>0, <2>4, <2>5, <3>1, EndBounds DEF NewerString
        <4> QED
          BY <1>0, <2>5, <4>1, EndOrdersSeconds
      <3>2. CASE u = t
        BY <1>0, <2>5, <3>2
      <3>3. CASE u = 0
        BY <1>0, <2>5, <3>3
      <3> QED
        BY <3>1, <3>2, <3>3
    <2> QED
      BY <2>5, <2>6 DEF t
  <1> QED
    BY <1>1, <1>2
-----------------------------------------------------------------------------
(***************************************************************************)
(* The order of the listing.                                               *)
(***************************************************************************)
LEMMA AheadOrder ==
  ASSUME TypeInv
  PROVE  /\ \A a \in listed : IsFiniteSet(Ahead(a)) /\ Cardinality(Ahead(a)) \in Nat
         /\ \A a \in listed : Cardinality(Ahead(a)) <= Cardinality(listed)
         /\ \A a, b \in listed : b \in Ahead(a) =>
               Ahead(b) \subseteq Ahead(a) /\ Cardinality(Ahead(b)) < Cardinality(Ahead(a))
         /\ \A a, b \in listed : a = b \/ a \in Ahead(b) \/ b \in Ahead(a)
  <1>0. \A a \in listed : a \in Article /\ a.id \in Nat /\ a.time \in Nat
    BY DEF TypeInv, Article
  <1>1. ASSUME NEW a \in listed
        PROVE  /\ IsFiniteSet(Ahead(a)) /\ Cardinality(Ahead(a)) \in Nat
               /\ Cardinality(Ahead(a)) <= Cardinality(listed)
    <2>1. Ahead(a) \subseteq listed
      BY DEF Ahead
    <2> QED
      BY <2>1, FS_Subset, FS_CardinalityType DEF TypeInv
  <1>2. ASSUME NEW a \in listed, NEW b \in listed, b \in Ahead(a)
        PROVE  Ahead(b) \subseteq Ahead(a) /\ Cardinality(Ahead(b)) < Cardinality(Ahead(a))
    <2>1. Ahead(b) \subseteq Ahead(a) /\ b \notin Ahead(b)
      BY <1>0, <1>2 DEF Ahead
    <2>2. IsFiniteSet(Ahead(b) \cup {b}) /\ Cardinality(Ahead(b) \cup {b}) = Cardinality(Ahead(b)) + 1
      BY <1>1, <2>1, FS_AddElement
    <2>3. Cardinality(Ahead(b) \cup {b}) <= Cardinality(Ahead(a))
      BY <1>1, <1>2, <2>1, FS_Subset
    <2> QED
      BY <1>1, <2>1, <2>2, <2>3
  <1>3. ASSUME NEW a \in listed, NEW b \in listed, a # b
        PROVE  a \in Ahead(b) \/ b \in Ahead(a)
    <2>1. a = [id |-> a.id, time |-> a.time] /\ b = [id |-> b.id, time |-> b.time]
      BY <1>0 DEF Article
    <2>2. a.id # b.id \/ a.time # b.time
      BY <1>3, <2>1
    <2> QED
      BY <1>0, <2>2 DEF Ahead
  <1> QED
    BY <1>1, <1>2, <1>3

\* No place of the listing is skipped: what lies n places down has an article
\* at each place before it.
LEMMA NoGaps ==
  ASSUME TypeInv, NEW a \in listed, NEW n \in Nat, Cardinality(Ahead(a)) >= n
  PROVE  \E b \in listed : Cardinality(Ahead(b)) = n /\ b.time >= a.time
  <1>0. \A b \in listed : b.id \in Nat /\ b.time \in Nat
    BY DEF TypeInv, Article
  <1>c. \A b \in listed : IsFiniteSet(Ahead(b)) /\ Cardinality(Ahead(b)) \in Nat
    BY AheadOrder
  <1> DEFINE Far == {b \in listed : b.time >= a.time /\ Cardinality(Ahead(b)) >= n}
             Places == {Cardinality(Ahead(b)) : b \in Far}
  <1>1. Places \subseteq Nat /\ Places # {}
    <2>1. a \in Far
      BY <1>0
    <2> QED
      BY <1>c, <2>1
  <1>2. PICK k \in Places : \A j \in Places : k <= j
    <2> HIDE DEF Places
    <2> QED
      BY <1>1, Least
  <1>3. PICK b \in Far : k = Cardinality(Ahead(b))
    BY <1>2
  <1>4. SUFFICES ASSUME Cardinality(Ahead(b)) # n PROVE FALSE
    BY <1>3
  <1>5. b \in listed /\ Cardinality(Ahead(b)) > n /\ b.time >= a.time
    BY <1>c, <1>4
  \* The article just ahead of b.
  <1> DEFINE Before == {Cardinality(Ahead(c)) : c \in Ahead(b)}
  <1>6. Before \subseteq 0 .. Cardinality(listed) /\ Before # {} /\ Cardinality(listed) \in Nat
    <2>1. Ahead(b) # {}
      BY <1>5, FS_EmptySet
    <2>2. Ahead(b) \subseteq listed
      BY DEF Ahead
    <2>3. Cardinality(listed) \in Nat
      BY FS_CardinalityType DEF TypeInv
    <2>4. \A c \in Ahead(b) : Cardinality(Ahead(c)) \in 0 .. Cardinality(listed)
      BY <2>2, <2>3, AheadOrder
    <2> QED
      BY <2>1, <2>3, <2>4
  <1>7. PICK j \in Before : \A i \in Before : j >= i
    <2> HIDE DEF Before
    <2> QED
      BY <1>6, Greatest
  <1>8. PICK c \in Ahead(b) : j = Cardinality(Ahead(c))
    BY <1>7
  <1>9. c \in listed /\ c.time >= b.time
    BY <1>0, <1>5 DEF Ahead
  <1>10. Ahead(b) = Ahead(c) \cup {c}
    <2>1. Ahead(c) \subseteq Ahead(b)
      BY <1>5, <1>8, <1>9, AheadOrder
    <2>2. ASSUME NEW d \in Ahead(b), d # c PROVE d \in Ahead(c)
      <3>1. d \in listed
        BY DEF Ahead
      <3>2. CASE c \in Ahead(d)
        <4>1. Cardinality(Ahead(c)) < Cardinality(Ahead(d))
          BY <1>9, <3>1, <3>2, AheadOrder
        <4>2. Cardinality(Ahead(d)) \in Before
          OBVIOUS
        <4> QED
          BY <1>c, <1>7, <1>8, <1>9, <3>1, <4>1, <4>2
      <3> QED
        BY <1>9, <2>2, <3>1, <3>2, AheadOrder
    <2> QED
      BY <1>8, <2>1, <2>2
  <1>11. Cardinality(Ahead(b)) = Cardinality(Ahead(c)) + 1
    <2>1. c \notin Ahead(c)
      BY <1>0, <1>9 DEF Ahead
    <2> QED
      BY <1>c, <1>9, <1>10, <2>1, FS_AddElement
  <1>12. c \in Far
    BY <1>0, <1>c, <1>5, <1>9, <1>11
  <1>13. Cardinality(Ahead(c)) \in Places
    BY <1>12
  <1> QED
    BY <1>2, <1>3, <1>c, <1>9, <1>11, <1>13

LEMMA PageType ==
  ASSUME TypeInv, NEW a \in listed
  PROVE  Page(a) \in Nat \ {0} /\ \A p \in Nat \ {0} : a \in PageOf(p) <=> Page(a) = p
  <1>1. Cardinality(Ahead(a)) \in Nat /\ PerPage \in Nat \ {0}
    BY CrawlerAssumption, AheadOrder
  <1>2. Cardinality(Ahead(a)) \div PerPage \in Nat
    BY <1>1
  <1> QED
    BY <1>2 DEF Page, PageOf

\* On an earlier page, an article is not older.
LEMMA EarlierPage ==
  ASSUME TypeInv, NEW a \in listed, NEW b \in listed, Page(a) < Page(b)
  PROVE  b.time <= a.time
  <1>1. /\ Cardinality(Ahead(a)) \in Nat /\ Cardinality(Ahead(b)) \in Nat /\ PerPage \in Nat \ {0}
        /\ a.time \in Nat /\ b.time \in Nat
    BY CrawlerAssumption, AheadOrder DEF TypeInv, Article
  <1>2. ~ (Cardinality(Ahead(b)) <= Cardinality(Ahead(a)))
    <2>1. SUFFICES ASSUME Cardinality(Ahead(b)) <= Cardinality(Ahead(a)) PROVE Page(b) <= Page(a)
      BY PageType
    <2> QED
      BY <1>1, <2>1, QuotientOrder DEF Page
  <1>3. b \notin Ahead(a)
    BY <1>1, <1>2, AheadOrder
  <1> QED
    BY <1>1, <1>3 DEF Ahead

\* A page before the one of an article in the window is not empty.
LEMMA NoEmptyBefore ==
  ASSUME TypeInv, NEW a \in listed, a.time >= since, NEW p \in Nat \ {0}, p < Page(a)
  PROVE  InWindow(p) # {}
  <1>1. Cardinality(Ahead(a)) \in Nat /\ PerPage \in Nat \ {0} /\ a.time \in Nat /\ since \in Int
    BY CrawlerAssumption, AheadOrder DEF TypeInv, Article
  <1>2. PICK q \in Nat : q = Cardinality(Ahead(a)) \div PerPage
    BY <1>1
  <1>3. PICK r \in Nat : r = p - 1
    OBVIOUS
  <1>4. r <= q
    BY <1>2, <1>3 DEF Page
  <1>5. r * PerPage <= q * PerPage /\ q * PerPage <= Cardinality(Ahead(a))
    BY <1>1, <1>2, <1>4, ProductMonotone, QuotientRange
  <1>6. PICK n \in Nat : n = r * PerPage
    BY <1>1
  <1>7. Cardinality(Ahead(a)) >= n
    <2>1. q * PerPage \in Nat
      BY <1>1
    <2> QED
      BY <1>1, <1>5, <1>6, <2>1
  <1>8. PICK b \in listed : Cardinality(Ahead(b)) = n /\ b.time >= a.time
    BY <1>7, NoGaps
  <1>9. n \div PerPage = r
    <2>1. n < (r + 1) * PerPage
      BY <1>1, <1>6
    <2> QED
      BY <1>1, <1>6, <2>1, RangeQuotient
  <1>10. b \in PageOf(p)
    BY <1>3, <1>8, <1>9 DEF PageOf
  <1>11. b.time >= since
    BY <1>1, <1>8 DEF TypeInv, Article
  <1> QED
    BY <1>10, <1>11 DEF InWindow
-----------------------------------------------------------------------------
(***************************************************************************)
(* Types.                                                                  *)
(***************************************************************************)
LEMMA BaseType == ASSUME TypeInv PROVE Base \in Int
  BY DEF TypeInv, Base

\* The cursor after a page: the old one or one from the page, and no later
\* second among those that moved it.
LEMMA FetchMoves ==
  ASSUME TypeInv, NEW p \in flying, FetchPage(p)
  PROVE  /\ cursor' = cursor \/ \E b \in InWindow(p) : cursor' = b.time
         /\ cursor' \in Nat /\ cursor' <= now
         /\ Second(cursor) <= Second(cursor')
         /\ \A a \in InWindow(p) :
               a.id \notin seen /\ a.id \in seen' \ unmoved' =>
                  \E b \in InWindow(p) : b.id = a.id /\ Second(b.time) <= Second(cursor')
  <1>1. PICK sent \in SUBSET InWindow(p), moved \in SUBSET InWindow(p) :
           /\ seen' = seen \cup {a.id : a \in sent}
           /\ cursor' = AdvanceCursor({a.time : a \in moved})
           /\ unmoved' = unmoved \cup {a.id : a \in {b \in sent : b.id \notin seen} \ moved}
    BY DEF FetchPage
  <1>2. InWindow(p) \subseteq listed
    BY DEF InWindow, PageOf
  <1> DEFINE T == {a.time : a \in moved}
  <1>3. T \subseteq 0 .. now /\ cursor \in 0 .. now /\ now \in Nat
    BY <1>2 DEF TypeInv, Article
  <1>4. /\ cursor' \in T \cup {cursor}
        /\ \A u \in T \cup {cursor} : Second(u) <= Second(cursor')
    <2>1. cursor' = AdvanceCursor(T)
      BY <1>1
    <2> HIDE DEF T
    <2> QED
      BY <1>3, <2>1, AdvanceChooses
  <1>5. ASSUME NEW a \in InWindow(p), a.id \notin seen, a.id \in seen' \ unmoved'
        PROVE  \E b \in InWindow(p) : b.id = a.id /\ Second(b.time) <= Second(cursor')
    <2>1. PICK b \in sent : b.id = a.id
      BY <1>1, <1>5
    <2>2. b \in moved
      BY <1>1, <1>5, <2>1
    <2> QED
      BY <1>4, <2>1, <2>2
  <1>6. cursor' = cursor \/ \E b \in InWindow(p) : cursor' = b.time
    BY <1>4
  <1>7. cursor' \in Nat /\ cursor' <= now
    BY <1>3, <1>4
  <1> QED
    BY <1>4, <1>5, <1>6, <1>7

LEMMA TypeInit == Init => TypeInv
  <1> SUFFICES ASSUME Init PROVE TypeInv
    OBVIOUS
  <1>1. sinceWindow \in Nat /\ now \in Nat
    BY CrawlerAssumption DEF Init
  <1>2. IsFiniteSet(listed) /\ listed = {}
    BY FS_EmptySet DEF Init
  <1>3. page = 1 /\ flying = {} /\ results = {} /\ failed = 0 /\ since = 0 /\ cursor = 0 /\ pc = "sleep"
    BY DEF Init
  <1>4. complete \in BOOLEAN /\ shifted \in BOOLEAN
    BY DEF Init
  <1>5. now \in Nat /\ 0 <= now
    BY <1>1
  <1> QED
    BY <1>1, <1>2, <1>3, <1>4, <1>5 DEF TypeInv

\* The new article of a listing.
LEMMA Lists ==
  ASSUME TypeInv, ListArticle
  PROVE  \E x \in Article : /\ listed' = listed \cup {x}
                            /\ x.id = Cardinality(listed) + 1
                            /\ 1 <= x.time /\ now - Lag <= x.time /\ x.time <= now
  <1>1. PICK t \in (now - Lag) .. now :
           /\ t >= 1
           /\ listed' = listed \cup {[id |-> Cardinality(listed) + 1, time |-> t]}
    BY DEF ListArticle
  <1>2. t \in Nat /\ now - Lag <= t /\ t <= now /\ Cardinality(listed) + 1 \in Nat
    BY <1>1, CrawlerAssumption, FS_CardinalityType DEF TypeInv
  <1>3. PICK x : x = [id |-> Cardinality(listed) + 1, time |-> t]
    OBVIOUS
  <1>4. x \in Article /\ x.id = Cardinality(listed) + 1 /\ x.time = t
    BY <1>2, <1>3 DEF Article
  <1> QED
    BY <1>1, <1>2, <1>3, <1>4

LEMMA NextType == TypeInv /\ [Next]_vars => TypeInv'
  <1> SUFFICES ASSUME TypeInv, [Next]_vars PROVE TypeInv'
    OBVIOUS
  <1>1. CASE Tick
    BY <1>1 DEF Tick, TypeInv, Article, run, published
  <1>2. CASE ListArticle
    <2>1. PICK x \in Article : listed' = listed \cup {x} /\ 1 <= x.time /\ x.time <= now
      BY <1>2, Lists
    <2>2. IsFiniteSet(listed')
      BY <2>1, FS_AddElement DEF TypeInv
    <2>3. listed' \subseteq Article /\ \A a \in listed' : 1 <= a.time /\ a.time <= now
      BY <2>1 DEF TypeInv
    <2>4. shifted' \in BOOLEAN
      BY <1>2 DEF ListArticle, TypeInv
    <2> QED
      BY <1>2, <2>2, <2>3, <2>4 DEF ListArticle, TypeInv, run, published
  <1>3. CASE StartRun
    <2>1. since' \in Int
      BY <1>3, BaseType, CrawlerAssumption DEF StartRun, ResolveSince, TypeInv
    <2> QED
      BY <1>3, <2>1 DEF StartRun, TypeInv, published
  <1>4. CASE LimitReached
    BY <1>4 DEF LimitReached, TypeInv, run, published
  <1>5. CASE StartPage
    <2>1. page' \in Nat \ {0} /\ flying' \subseteq 1 .. page' - 1
      <3>1. page \in Nat \ {0} /\ page' = page + 1
        BY <1>5 DEF StartPage, TypeInv
      <3>2. \A q \in flying' : q \in flying \/ q = page
        BY <1>5 DEF StartPage
      <3>3. \A q \in flying : q \in Nat /\ 1 <= q /\ q <= page - 1
        BY <3>1 DEF TypeInv
      <3> QED
        BY <3>1, <3>2, <3>3
    <2> QED
      BY <1>5, <2>1 DEF StartPage, TypeInv, published
  <1>6. CASE SelectDefault
    BY <1>6 DEF SelectDefault, TypeInv, run, published
  <1>7. CASE SelectResult
    <2>1. PICK r \in results :
             /\ results' = results \ {r}
             /\ failed' = failed + (IF r.kind = "failed" THEN 1 ELSE 0)
             /\ pc' = IF r.kind = "empty" \/ failed' >= MaxPageFailures THEN "wait" ELSE "run"
      BY <1>7 DEF SelectResult
    <2>2. failed' \in Nat /\ (failed' > 0 => ~ complete)
      BY <2>1 DEF TypeInv
    <2>3. pc' \in {"wait", "run"}
      BY <2>1
    <2> QED
      BY <1>7, <2>1, <2>2, <2>3 DEF SelectResult, TypeInv, published
  <1>8. CASE EndRun \/ Crash
    <2>1. page' = 1 /\ flying' = {} /\ results' = {} /\ pc' = "sleep" /\ since' = 0 /\ failed' = 0
      BY <1>8 DEF EndRun, Crash, RunOver
    <2>2. complete' \in BOOLEAN /\ UNCHANGED <<sinceWindow, now, listed, seen, cursor, shifted>>
      BY <1>8 DEF EndRun, Crash, published, TypeInv
    <2> QED
      BY <2>1, <2>2 DEF TypeInv
  <1>9. CASE Pages
    <2>1. PICK p \in flying : FetchPage(p) \/ FailPage(p)
      BY <1>9 DEF Pages
    <2>2. cursor' \in Nat /\ cursor' <= now
      BY <2>1, FetchMoves DEF FailPage, published, TypeInv
    <2>3. complete' \in BOOLEAN /\ (complete' => complete)
      BY <2>1 DEF FetchPage, FailPage, TypeInv
    <2>4. \A r \in results' : r \in results \/ r.kind # "failed" \/ ~ complete'
      BY <2>1 DEF FetchPage, FailPage, Read
    <2>5. flying' \subseteq flying /\ UNCHANGED <<sinceWindow, now, listed, pc, since, page, failed, shifted>>
      BY <2>1 DEF FetchPage, FailPage, Read
    <2>6. pc # "sleep"
      BY <2>1 DEF TypeInv
    <2> QED
      BY <2>2, <2>3, <2>4, <2>5, <2>6 DEF TypeInv
  <1>10. CASE UNCHANGED vars
    BY <1>10 DEF vars, TypeInv
  <1> QED
    BY <1>1, <1>2, <1>3, <1>4, <1>5, <1>6, <1>7, <1>8, <1>9, <1>10 DEF Next, Daemon
-----------------------------------------------------------------------------
(***************************************************************************)
(* Preservation.                                                           *)
(***************************************************************************)
LEMMA InitInv == Init => Inv
  BY TypeInit DEF Init, Inv, SleepInv, Missed

\* What an article listed by now is owed survives the passing of time.
LEMMA TickInv == ASSUME Inv, TypeInv', Tick PROVE Inv'
  <1>0. /\ now' = now + 1 /\ now \in Nat /\ Overlap \in Nat /\ since \in Int
        /\ UNCHANGED <<sinceWindow, listed, seen, cursor, pc, since, page, flying, results, complete, shifted>>
    BY CrawlerAssumption DEF Tick, Inv, TypeInv, run, published
  <1>1. Base \in Int /\ Base' \in Int /\ Base <= Base'
    BY <1>0 DEF Base, Inv, TypeInv
  <1>2. Missed' = Missed /\ Unread' = Unread /\ Ended' = Ended /\ \A a : Page(a)' = Page(a)
    BY <1>0 DEF Missed, Unread, Ended, Page, Ahead
  <1>3. \A a \in Missed : a.time \in Nat
    BY DEF Missed, Inv, TypeInv, Article
  <1>4. \A a \in Missed : (Covered(a) => Covered(a)') /\ (a.time < Base => a.time < Base')
    BY <1>0, <1>1, <1>3 DEF Covered
  <1>5. \A a \in Missed : (Safe(a) => Safe(a)') /\ (Due(a) => Due(a)')
    BY <1>0, <1>2, <1>4 DEF Safe, Due
  <1>6. pc = "sleep" => SleepInv'
    BY <1>0, <1>2, <1>4 DEF Inv, SleepInv
  <1>7. pc # "sleep" => RunInv'
    <2> SUFFICES ASSUME pc # "sleep" PROVE RunInv'
      OBVIOUS
    <2>1. since <= Base' \/ since <= now' - Overlap
      BY <1>0, <1>1 DEF Inv, RunInv
    <2> QED
      BY <1>0, <1>2, <1>4, <1>5, <2>1 DEF Inv, RunInv
  <1> QED
    BY <1>0, <1>6, <1>7 DEF Inv

\* While the pages are in order, what follows a page still to be read is
\* still to be read.
LEMMA UnreadClosed ==
  ASSUME TypeInv, pc \in {"run", "drain"}, ~ OutOfOrder,
         NEW q \in Unread, NEW r \in Nat, q <= r
  PROVE  r \in Unread
  <1>0. page \in Nat \ {0} /\ flying \subseteq 1 .. page - 1 /\ Unread = flying \cup {s \in Nat : s >= page}
    BY DEF TypeInv, Unread
  <1>1. \A s \in Unread : s \in Nat /\ s + 1 \in Unread
    <2>1. ASSUME NEW s \in Unread PROVE s \in Nat /\ s + 1 \in Unread
      <3>1. CASE s \in flying
        <4>1. s \in Nat /\ s + 1 \in Nat /\ s + 1 <= page
          BY <1>0, <3>1
        <4>2. s + 1 < page => s + 1 \in flying
          BY <3>1 DEF OutOfOrder
        <4> QED
          BY <1>0, <4>1, <4>2
      <3>2. CASE s \in Nat /\ s >= page
        BY <1>0, <3>2
      <3> QED
        BY <1>0, <3>1, <3>2
    <2> QED
      BY <2>1
  <1>2. SUFFICES ASSUME r \notin Unread PROVE FALSE
    OBVIOUS
  <1> DEFINE Gap == {s \in Nat : s >= q /\ s \notin Unread}
  <1>3. Gap \subseteq Nat /\ Gap # {}
    BY <1>1, <1>2
  <1>4. PICK m \in Gap : \A s \in Gap : m <= s
    <2> HIDE DEF Gap
    <2> QED
      BY <1>3, Least
  <1>5. m > q /\ m - 1 \in Nat /\ m - 1 >= q
    <2>1. m \in Nat /\ m >= q /\ m # q /\ q \in Nat
      BY <1>1, <1>4
    <2> QED
      BY <2>1
  <1>6. m - 1 \in Unread
    BY <1>4, <1>5
  <1>7. (m - 1) + 1 \in Unread
    BY <1>1, <1>6
  <1> QED
    BY <1>4, <1>7

\* A new article pushes others down, and is covered itself: it is listed at
\* most Lag after its time, and the cursor is not later than the clock.
LEMMA ListInv == ASSUME Inv, TypeInv', ListArticle, Lag <= Overlap PROVE Inv'
  <1>0. /\ now \in Nat /\ Overlap \in Nat /\ Lag \in Nat /\ since \in Int /\ cursor \in Nat
        /\ cursor <= now /\ listed \subseteq Article /\ IsFiniteSet(listed) /\ PerPage \in Nat \ {0}
        /\ UNCHANGED <<sinceWindow, now, seen, cursor, pc, since, page, flying, results, complete>>
        /\ shifted' = (shifted \/ OutOfOrder)
    BY CrawlerAssumption DEF ListArticle, Inv, TypeInv, run, published
  <1>1. PICK x \in Article :
           listed' = listed \cup {x} /\ now - Lag <= x.time /\ x.time <= now
    BY Lists DEF Inv
  <1>2. Base' = Base /\ Base \in Int /\ Unread' = Unread /\ Ended' = Ended /\ x.time \in Nat
    BY <1>0, <1>1, BaseType DEF Base, Unread, Ended, Inv, Article
  <1>3. Missed' \subseteq Missed \cup {x}
    BY <1>0, <1>1 DEF Missed
  <1>4. Covered(x)' /\ \A a \in Missed : Covered(a) => Covered(a)'
    <2>1. x.time >= cursor - Overlap
      BY <1>0, <1>1, <1>2
    <2> QED
      BY <1>0, <1>2, <2>1 DEF Covered
  <1>5. ASSUME NEW a \in listed
        PROVE  Page(a)' >= Page(a) /\ Page(a)' \in Nat /\ Page(a) \in Nat
    <2>1. Ahead(a) \subseteq Ahead(a)'
      BY <1>1 DEF Ahead
    <2>2. IsFiniteSet(Ahead(a)')
      <3>1. Ahead(a)' \subseteq listed'
        BY DEF Ahead
      <3> QED
        BY <3>1, FS_Subset DEF TypeInv
    <2>3. /\ Cardinality(Ahead(a)) <= Cardinality(Ahead(a)')
          /\ Cardinality(Ahead(a)) \in Nat /\ Cardinality(Ahead(a)') \in Nat
      BY <2>1, <2>2, FS_Subset, FS_CardinalityType
    <2>4. /\ Cardinality(Ahead(a)) \div PerPage <= Cardinality(Ahead(a)') \div PerPage
          /\ Cardinality(Ahead(a)) \div PerPage \in Nat /\ Cardinality(Ahead(a)') \div PerPage \in Nat
      BY <1>0, <2>3, QuotientOrder
    <2> QED
      BY <1>0, <2>4 DEF Page
  <1>6. Page(x)' \in Nat
    <2>1. IsFiniteSet(Ahead(x)')
      <3>1. Ahead(x)' \subseteq listed'
        BY DEF Ahead
      <3> QED
        BY <3>1, FS_Subset DEF TypeInv
    <2>2. Cardinality(Ahead(x)') \in Nat
      BY <2>1, FS_CardinalityType
    <2> QED
      BY <1>0, <2>2 DEF Page
  <1>7. pc = "sleep" => SleepInv'
    BY <1>0, <1>3, <1>4 DEF Inv, SleepInv
  <1>8. ASSUME pc # "sleep" PROVE RunInv'
    <2>1. since <= Base \/ since <= now - Overlap
      BY <1>8 DEF Inv, RunInv
    <2>2. x.time < Base \/ x.time >= since
      BY <1>0, <1>1, <1>2, <2>1
    <2>3. ASSUME complete, ~ shifted'
          PROVE  \A a \in Missed' : a.time < Base \/ (a.time >= since /\ (Safe(a)' \/ Due(a)'))
      <3>1. ~ OutOfOrder /\ ~ shifted
        BY <1>0, <2>3 DEF Inv, TypeInv
      <3>2. \A a \in Missed : a.time < Base \/ (a.time >= since /\ (Safe(a) \/ Due(a)))
        BY <1>8, <2>3, <3>1 DEF Inv, RunInv
      <3>3. \A a \in Missed : a \in listed
        BY DEF Missed
      <3>4. CASE pc = "wait"
        <4>1. Unread = {}
          BY <3>1, <3>4 DEF Unread, OutOfOrder
        <4>2. Safe(x)' /\ \A a \in Missed : ~ Due(a) /\ (Safe(a) => Safe(a)')
          BY <1>2, <1>4, <4>1 DEF Safe, Due
        <4> QED
          BY <1>3, <2>2, <3>2, <4>2
      <3>5. CASE pc \in {"run", "drain"}
        <4>1. ~ Ended
          BY <3>1, <3>5 DEF Ended, OutOfOrder
        <4>2. \A q \in Unread : q \in Nat /\ \A r \in Nat : q <= r => r \in Unread
          <5>1. \A q \in Unread : \A r \in Nat : q <= r => r \in Unread
            BY <3>1, <3>5, UnreadClosed DEF Inv
          <5>2. \A q \in Unread : q \in Nat
            BY DEF Unread, Inv, TypeInv
          <5> QED
            BY <5>1, <5>2
        \* What is covered is passed by, or still to come.
        <4>3. ASSUME NEW a, Covered(a)', Page(a)' \in Nat PROVE Safe(a)' \/ Due(a)'
          <5>1. SUFFICES ASSUME NEW q \in Unread, ~ (Page(a)' <= q) PROVE Page(a)' \in Unread
            BY <1>2, <4>1, <4>3 DEF Safe, Due
          <5>2. q \in Nat /\ q <= Page(a)'
            BY <4>2, <4>3, <5>1
          <5> QED
            BY <4>2, <4>3, <5>2
        <4>4. ASSUME NEW a \in Missed, Due(a) PROVE Due(a)'
          <5>1. Page(a) \in Unread /\ Page(a)' >= Page(a) /\ Page(a)' \in Nat /\ Page(a) \in Nat
            BY <1>5, <3>3, <4>4 DEF Due
          <5>2. Page(a)' \in Unread
            BY <4>2, <5>1
          <5> QED
            BY <1>2, <4>1, <5>2 DEF Due
        <4>5. \A a \in Missed : Safe(a) => Safe(a)' \/ Due(a)'
          BY <1>4, <1>5, <3>3, <4>3 DEF Safe
        <4>6. Safe(x)' \/ Due(x)'
          BY <1>4, <1>6, <4>3
        <4> QED
          BY <1>3, <2>2, <3>2, <4>4, <4>5, <4>6
      <3> QED
        BY <1>8, <3>4, <3>5 DEF Inv, TypeInv
    <2> QED
      BY <1>0, <1>2, <2>1, <2>3 DEF RunInv
  <1> QED
    BY <1>0, <1>7, <1>8 DEF Inv

LEMMA StartInv == ASSUME Inv, TypeInv', StartRun PROVE Inv'
  <1>0. /\ now \in Nat /\ Overlap \in Nat /\ cursor \in Nat /\ cursor <= now /\ sinceWindow \in Nat
        /\ Base \in Int /\ flying = {} /\ results = {} /\ page = 1
        /\ UNCHANGED <<sinceWindow, now, listed, seen, cursor, flying, results, page, complete, shifted>>
        /\ pc = "sleep" /\ pc' = "run"
    BY CrawlerAssumption, BaseType DEF StartRun, Inv, TypeInv, published
  <1>1. \/ since' = Base
        \/ since' = cursor - Overlap /\ UseCursor /\ cursor # 0 /\ (sinceWindow = 0 \/ cursor - Overlap > Base)
    BY CrawlerAssumption DEF StartRun, ResolveSince
  <1>2. Base' = Base /\ Missed' = Missed /\ \A a : Page(a)' = Page(a)
    BY <1>0 DEF Base, Missed, Page, Ahead
  <1>3. since' <= Base \/ since' <= now - Overlap
    BY <1>0, <1>1
  <1>4. ASSUME complete, ~ shifted, NEW a \in Missed
        PROVE  Due(a)' /\ (a.time >= since' \/ a.time < Base)
    <2>1. Covered(a) /\ a.time \in Nat /\ a \in listed
      BY <1>0, <1>4 DEF Inv, SleepInv, Missed, TypeInv, Article
    <2>2. Page(a) \in Nat \ {0}
      BY <2>1, PageType DEF Inv
    <2>3. Page(a)' \in Unread' /\ ~ Ended'
      BY <1>0, <1>2, <2>2 DEF Unread, Ended
    <2> QED
      BY <1>0, <1>1, <2>1, <2>3 DEF Covered, Due
  <1>6. RunInv'
    BY <1>0, <1>2, <1>3, <1>4 DEF RunInv
  <1> QED
    BY <1>0, <1>6 DEF Inv

\* Steps after which nothing is claimed: they end a run early or lose a page.
LEMMA LostInv ==
  ASSUME Inv, TypeInv', ~ complete', pc # "sleep",
         UNCHANGED <<sinceWindow, now>>, pc' = "sleep" \/ UNCHANGED since
  PROVE  Inv'
  <1>1. since <= Base \/ since <= now - Overlap
    BY DEF Inv, RunInv
  <1>2. Base' = Base
    BY DEF Base
  <1>3. SleepInv'
    BY DEF SleepInv
  <1>4. pc' # "sleep" => RunInv'
    BY <1>1, <1>2 DEF RunInv
  <1> QED
    BY <1>3, <1>4 DEF Inv

\* Steps of the loop: they start a page, take a result or see none.
LEMMA LoopInv ==
  ASSUME Inv, TypeInv', pc \in {"run", "drain"}, pc' \in {"run", "drain", "wait"},
         UNCHANGED <<sinceWindow, now, listed, seen, cursor, since, complete, shifted>>,
         Unread' \subseteq Unread, flying \subseteq flying',
         pc' # "wait" => Unread' = Unread /\ (Ended' => Ended),
         pc' = "wait" /\ complete => Ended
  PROVE  Inv'
  <1>1. Base' = Base /\ Missed' = Missed /\ \A a : Page(a)' = Page(a)
    BY DEF Base, Missed, Page, Ahead
  <1>2. \A a : Covered(a)' = Covered(a)
    BY <1>1 DEF Covered
  <1>3. \A a : Safe(a) => Safe(a)'
    BY <1>1, <1>2 DEF Safe
  <1>4. ASSUME NEW a, Due(a), complete PROVE Due(a)'
    <2>1. CASE pc' = "wait"
      <3>1. Page(a) \in flying
        BY <1>4, <2>1 DEF Due
      <3> QED
        BY <1>1, <3>1 DEF Due, Unread
    <2>2. CASE pc' # "wait"
      BY <1>1, <1>4, <2>2 DEF Due
    <2> QED
      BY <2>1, <2>2
  <1>5. RunInv
    BY DEF Inv
  <1>6. RunInv'
    BY <1>1, <1>3, <1>4, <1>5 DEF RunInv
  <1> QED
    BY <1>6 DEF Inv

LEMMA StepInv == ASSUME Inv, TypeInv', StartPage \/ SelectDefault \/ SelectResult PROVE Inv'
  <1>0. page \in Nat \ {0} /\ MaxPageFailures \in Nat \ {0} /\ failed \in Nat
    BY CrawlerAssumption DEF Inv, TypeInv
  <1>1. CASE StartPage
    <2>1. Unread' = Unread
      BY <1>0, <1>1 DEF StartPage, Unread
    <2>2. Ended' => Ended
      BY <1>1 DEF StartPage, Ended
    <2> QED
      BY <1>1, <2>1, <2>2, LoopInv DEF StartPage, published
  <1>2. CASE SelectDefault
    <2>1. Unread' = Unread
      BY <1>2 DEF SelectDefault, Unread, run
    <2>2. Ended' => Ended
      BY <1>2 DEF SelectDefault, Ended, run
    <2> QED
      BY <1>2, <2>1, <2>2, LoopInv DEF SelectDefault, published, run
  <1>3. CASE SelectResult
    <2>1. PICK r \in results :
             /\ results' = results \ {r}
             /\ failed' = failed + (IF r.kind = "failed" THEN 1 ELSE 0)
             /\ pc' = IF r.kind = "empty" \/ failed' >= MaxPageFailures THEN "wait" ELSE "run"
      BY <1>3 DEF SelectResult
    <2>2. pc = "drain" /\ flying' = flying /\ page' = page
      BY <1>3 DEF SelectResult
    <2>3. Unread' \subseteq Unread /\ (pc' # "wait" => Unread' = Unread)
      BY <2>1, <2>2 DEF Unread
    <2>4. pc' # "wait" => (Ended' => Ended)
      BY <2>1 DEF Ended
    <2>5. pc' = "wait" /\ complete => Ended
      <3>1. SUFFICES ASSUME pc' = "wait", complete, r.kind # "empty" PROVE FALSE
        BY <2>1 DEF Ended
      <3>2. failed' >= MaxPageFailures
        BY <2>1, <3>1
      <3>3. failed' = 0
        BY <1>0, <2>1, <3>1 DEF Inv, TypeInv
      <3> QED
        BY <1>0, <3>2, <3>3
    <2>6. pc' \in {"run", "wait"}
      BY <2>1
    <2> QED
      BY <1>3, <2>2, <2>3, <2>4, <2>5, <2>6, LoopInv DEF SelectResult, published
  <1> QED
    BY <1>1, <1>2, <1>3

LEMMA EndInv == ASSUME Inv, TypeInv', EndRun PROVE Inv'
  <1>1. /\ pc = "wait" /\ flying = {} /\ pc' = "sleep"
        /\ UNCHANGED <<sinceWindow, now, listed, seen, cursor, complete, shifted>>
    BY DEF EndRun, RunOver, published
  <1>2. Unread = {}
    BY <1>1 DEF Unread
  <1>3. complete /\ ~ shifted => \A a \in Missed : a.time < Base \/ Covered(a)
    BY <1>1, <1>2 DEF Inv, RunInv, Safe, Due
  <1>4. complete /\ ~ shifted => \A a \in Missed : Covered(a)
    BY <1>3 DEF Covered
  <1>5. SleepInv'
    BY <1>1, <1>4 DEF SleepInv, Missed, Covered, Base
  <1> QED
    BY <1>1, <1>5 DEF Inv

LEMMA FetchInv == ASSUME Inv, TypeInv', NEW p \in flying, FetchPage(p) PROVE Inv'
  <1>0. /\ now \in Nat /\ Overlap \in Nat /\ cursor \in Nat /\ page \in Nat \ {0} /\ flying \subseteq 1 .. page - 1
        /\ Base \in Int /\ since \in Int /\ pc # "sleep"
        /\ UNCHANGED <<sinceWindow, now, listed, pc, since, page, shifted>>
        /\ flying' = flying \ {p}
        /\ results' = results \cup {[page |-> p, kind |-> IF InWindow(p) = {} THEN "empty" ELSE "full"]}
    BY CrawlerAssumption, BaseType DEF FetchPage, Read, Inv, TypeInv
  <1>1. PICK sent \in SUBSET InWindow(p) :
           /\ seen' = seen \cup {a.id : a \in sent}
           /\ complete' = (complete /\ sent = InWindow(p))
    BY DEF FetchPage
  <1>2. p \in Nat \ {0} /\ p < page
    BY <1>0
  <1>3. cursor' = cursor \/ \E b \in PageOf(p) : b \in listed /\ cursor' = b.time
    <2>1. InWindow(p) \subseteq PageOf(p) /\ PageOf(p) \subseteq listed
      BY DEF InWindow, PageOf
    <2> QED
      BY <2>1, FetchMoves DEF Inv
  <1>4. /\ Base' = Base /\ \A a : Page(a)' = Page(a)
        /\ Unread' = Unread \ {p} /\ p \in Unread
    <2>1. Unread' = Unread \ {p} /\ p \in Unread
      BY <1>0, <1>2 DEF Unread
    <2> QED
      BY <1>0, <2>1 DEF Base, Page, Ahead
  <1>5. Ended' => Ended \/ InWindow(p) = {}
    BY <1>0 DEF Ended
  <1>6. ASSUME complete', ~ shifted, NEW a \in Missed'
        PROVE  a.time < Base \/ (a.time >= since /\ (Safe(a)' \/ Due(a)'))
    <2>0. complete /\ sent = InWindow(p) /\ a \in Missed /\ a \notin InWindow(p) /\ a \in listed
      BY <1>0, <1>1, <1>6 DEF Missed, Inv, TypeInv
    <2>1. a.time < Base \/ (a.time >= since /\ (Safe(a) \/ Due(a)))
      BY <1>0, <1>6, <2>0 DEF Inv, RunInv
    <2>2. Page(a) \in Nat \ {0} /\ a.time \in Nat
      BY <2>0, PageType DEF Inv, TypeInv, Article
    <2>3. a.time >= since => Page(a) # p
      BY <1>2, <2>0, PageType DEF Inv, InWindow
    <2>4. CASE a.time >= since /\ Safe(a)
      <3>1. Page(a) < p
        BY <1>2, <1>4, <2>2, <2>3, <2>4 DEF Safe
      <3>2. Covered(a)'
        <4>1. CASE cursor' = cursor
          BY <1>4, <2>4, <4>1 DEF Safe, Covered
        <4>2. CASE cursor' # cursor
          <5>1. PICK b \in PageOf(p) : b \in listed /\ cursor' = b.time
            BY <1>3, <4>2
          <5>2. Page(b) = p
            BY <1>2, <5>1, PageType DEF Inv
          <5>3. b.time <= a.time /\ b.time \in Nat
            BY <2>0, <3>1, <5>1, <5>2, EarlierPage DEF Inv, TypeInv, Article
          <5>4. a.time >= cursor' - Overlap
            BY <1>0, <2>2, <5>1, <5>3
          <5> QED
            BY <5>4 DEF Covered
        <4> QED
          BY <4>1, <4>2
      <3>3. Safe(a)'
        BY <1>4, <2>4, <3>2 DEF Safe
      <3> QED
        BY <2>4, <3>3
    <2>5. CASE a.time >= since /\ Due(a)
      <3>1. Page(a)' \in Unread'
        BY <1>4, <2>3, <2>5 DEF Due
      <3>2. ASSUME Ended' PROVE Page(a) \in flying'
        <4>1. CASE Ended
          BY <1>0, <2>3, <2>5, <4>1 DEF Due
        <4>2. CASE InWindow(p) = {}
          <5>1. ~ (p < Page(a))
            BY <1>2, <2>0, <2>5, <4>2, NoEmptyBefore DEF Inv
          <5>2. ~ (Page(a) >= page)
            BY <1>2, <1>0, <2>2, <5>1
          <5>3. Page(a) \in flying
            BY <2>5, <5>2 DEF Due, Unread
          <5> QED
            BY <1>0, <2>3, <2>5, <5>3
        <4> QED
          BY <1>5, <3>2, <4>1, <4>2
      <3>3. Due(a)'
        BY <1>4, <3>1, <3>2 DEF Due
      <3> QED
        BY <2>5, <3>3
    <2> QED
      BY <2>1, <2>4, <2>5
  <1>7. RunInv'
    BY <1>0, <1>4, <1>6 DEF RunInv, Inv
  <1> QED
    BY <1>0, <1>7 DEF Inv

LEMMA NextInv == Lag <= Overlap /\ Inv /\ [Next]_vars => Inv'
  <1> SUFFICES ASSUME Lag <= Overlap, Inv, [Next]_vars PROVE Inv'
    OBVIOUS
  <1>0. TypeInv'
    BY NextType DEF Inv
  <1>1. CASE Tick
    BY <1>0, <1>1, TickInv
  <1>2. CASE ListArticle
    BY <1>0, <1>2, ListInv
  <1>3. CASE StartRun
    BY <1>0, <1>3, StartInv
  <1>4. CASE LimitReached \/ Crash
    BY <1>0, <1>4, LostInv DEF LimitReached, Crash, RunOver, run
  <1>5. CASE StartPage \/ SelectDefault \/ SelectResult
    BY <1>0, <1>5, StepInv
  <1>6. CASE EndRun
    BY <1>0, <1>6, EndInv
  <1>7. CASE Pages
    <2>1. PICK p \in flying : FetchPage(p) \/ FailPage(p)
      BY <1>7 DEF Pages
    <2>2. CASE FetchPage(p)
      BY <1>0, <2>2, FetchInv
    <2>3. CASE FailPage(p)
      <3>1. pc # "sleep"
        BY DEF Inv, TypeInv
      <3> QED
        BY <1>0, <2>3, <3>1, LostInv DEF FailPage
    <2> QED
      BY <2>1, <2>2, <2>3
  <1>8. CASE UNCHANGED vars
    BY <1>0, <1>8 DEF vars, Inv, SleepInv, RunInv, Covered, Safe, Due, Unread, Ended, Base, Missed, Ahead, Page
  <1> QED
    BY <1>1, <1>2, <1>3, <1>4, <1>5, <1>6, <1>7, <1>8 DEF Next, Daemon
-----------------------------------------------------------------------------
(***************************************************************************)
(* The results.                                                            *)
(***************************************************************************)
LEMMA CoveredSuffices == Inv => CompleteRunsLeaveNone
  <1> SUFFICES ASSUME Inv, complete, ~ shifted, pc = "sleep", NEW a \in Missed, a.time >= Base
               PROVE  a.time >= ResolveSince(Base, UseCursor)
    BY DEF CompleteRunsLeaveNone, NoneLeftBehind
  <1>1. Covered(a) /\ Base \in Int /\ a.time \in Nat
    BY BaseType DEF Inv, SleepInv, TypeInv, Missed, Article
  <1>2. Overlap \in Nat /\ cursor \in Nat
    BY CrawlerAssumption DEF Inv, TypeInv
  <1> QED
    BY <1>1, <1>2 DEF Covered, ResolveSince

\* resolveSince, the loop of Scheduler.Run and the cursor of Producer.Publish:
\* when the overlap is at least the delay with which articles are listed, runs
\* that publish their windows to the end leave no article behind, for any page
\* size, window and concurrency, though pages overlap and shift while they are
\* read and the cursor compares as a string; unless an article is listed while
\* a later page has been read before an earlier one.
THEOREM NoneLeft == ASSUME Lag <= Overlap PROVE Spec => []CompleteRunsLeaveNone
  <1>1. Inv /\ [Next]_vars => Inv'
    BY NextInv
  <1> QED
    BY <1>1, InitInv, CoveredSuffices, PTL DEF Spec

(***************************************************************************)
(* The cursor is the newest second published.                              *)
(***************************************************************************)
IdInv ==
    /\ \A a \in listed : a.id <= Cardinality(listed)
    /\ \A a, b \in listed : a.id = b.id => a = b
    /\ seen \subseteq {a.id : a \in listed}

NewestInv == TypeInv /\ IdInv /\ CursorNewest

LEMMA NewestList == ASSUME NewestInv, TypeInv', ListArticle PROVE NewestInv'
  <1>1. PICK x \in Article : listed' = listed \cup {x} /\ x.id = Cardinality(listed) + 1
    BY Lists DEF NewestInv
  <1>2. UNCHANGED <<seen, cursor, unmoved>>
    BY DEF ListArticle, published
  <1>3. Cardinality(listed) \in Nat /\ listed \subseteq Article /\ IsFiniteSet(listed)
    BY FS_CardinalityType DEF NewestInv, TypeInv
  <1>4. \A a \in listed : a.id \in Nat /\ a.id <= Cardinality(listed)
    BY <1>3 DEF NewestInv, IdInv, Article
  <1>5. x \notin listed /\ x.id \notin seen
    BY <1>1, <1>3, <1>4 DEF NewestInv, IdInv
  <1>6. Cardinality(listed') = Cardinality(listed) + 1
    BY <1>1, <1>3, <1>5, FS_AddElement
  <1>7. \A a \in listed' : a.id <= Cardinality(listed')
    BY <1>1, <1>3, <1>4, <1>6
  <1>8. \A a, b \in listed' : a.id = b.id => a = b
    BY <1>1, <1>3, <1>4 DEF NewestInv, IdInv
  <1>9. seen' \subseteq {a.id : a \in listed'}
    BY <1>1, <1>2 DEF NewestInv, IdInv
  <1>10. CursorNewest'
    BY <1>1, <1>2, <1>5 DEF NewestInv, CursorNewest
  <1> QED
    BY <1>7, <1>8, <1>9, <1>10 DEF NewestInv, IdInv

LEMMA NewestFetch == ASSUME NewestInv, TypeInv', NEW p \in flying, FetchPage(p) PROVE NewestInv'
  <1>1. PICK sent \in SUBSET InWindow(p) : seen' = seen \cup {a.id : a \in sent}
    BY DEF FetchPage
  <1>2. listed' = listed /\ unmoved \subseteq unmoved'
    BY DEF FetchPage
  <1>3. InWindow(p) \subseteq listed
    BY DEF InWindow, PageOf
  <1>4. /\ Second(cursor) <= Second(cursor')
        /\ \A a \in InWindow(p) :
               a.id \notin seen /\ a.id \in seen' \ unmoved' =>
                  \E b \in InWindow(p) : b.id = a.id /\ Second(b.time) <= Second(cursor')
    BY FetchMoves DEF NewestInv
  <1>5. IdInv'
    BY <1>1, <1>2, <1>3 DEF NewestInv, IdInv
  <1>6. ASSUME NEW a \in listed, a.id \in seen' \ unmoved'
        PROVE  Second(a.time) <= Second(cursor')
    <2>1. CASE a.id \in seen
      <3>1. Second(a.time) <= Second(cursor)
        BY <1>2, <1>6, <2>1 DEF NewestInv, CursorNewest
      <3>2. Second(a.time) \in Nat /\ Second(cursor) \in Nat /\ Second(cursor') \in Nat
        BY EndBounds DEF NewestInv, TypeInv, Article
      <3> QED
        BY <1>4, <3>1, <3>2
    <2>2. CASE a.id \notin seen
      <3>1. PICK c \in sent : c.id = a.id
        BY <1>1, <1>6, <2>2
      <3>2. c = a
        BY <1>3, <3>1 DEF NewestInv, IdInv
      <3>3. PICK b \in InWindow(p) : b.id = a.id /\ Second(b.time) <= Second(cursor')
        BY <1>4, <1>6, <2>2, <3>1, <3>2
      <3>4. b = a
        BY <1>3, <3>3 DEF NewestInv, IdInv
      <3> QED
        BY <3>3, <3>4
    <2> QED
      BY <2>1, <2>2
  <1> QED
    BY <1>2, <1>5, <1>6 DEF NewestInv, CursorNewest

LEMMA NewestNext == NewestInv /\ [Next]_vars => NewestInv'
  <1> SUFFICES ASSUME NewestInv, [Next]_vars PROVE NewestInv'
    OBVIOUS
  <1>0. TypeInv'
    BY NextType DEF NewestInv
  <1>1. CASE ListArticle
    BY <1>0, <1>1, NewestList
  <1>2. ASSUME NEW p \in flying, FetchPage(p) PROVE NewestInv'
    BY <1>0, <1>2, NewestFetch
  <1>3. CASE UNCHANGED <<listed, seen, cursor, unmoved>>
    BY <1>0, <1>3 DEF NewestInv, IdInv, CursorNewest
  <1>4. CASE \E p \in flying : FailPage(p)
    BY <1>3, <1>4 DEF FailPage, published
  <1>5. CASE Tick \/ Daemon \/ Crash \/ UNCHANGED vars
    BY <1>3, <1>5 DEF Tick, Daemon, StartRun, LimitReached, StartPage, SelectDefault, SelectResult,
                      EndRun, Crash, vars, published
  <1> QED
    BY <1>1, <1>2, <1>4, <1>5 DEF Next, Pages

\* GetCursor's "newest-seen published_at", at any resolution of the times: the
\* strings may put a time before an earlier one of the same second, and no
\* further, so nothing is published in a later second than the cursor's unless
\* its own cursor call failed, in whatever order the pages of a run move it.
THEOREM CursorIsNewest == Spec => []CursorNewest
  <1>1. Init => NewestInv
    BY TypeInit DEF Init, NewestInv, IdInv, CursorNewest
  <1>2. NewestInv => CursorNewest
    BY DEF NewestInv
  <1> QED
    BY <1>1, <1>2, NewestNext, PTL DEF Spec
=============================================================================
