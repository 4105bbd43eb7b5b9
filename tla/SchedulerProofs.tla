-------------------------- MODULE SchedulerProofs --------------------------
(***************************************************************************)
(* Proofs about Scheduler: its types, that its two channels cannot         *)
(* deadlock, the bound of the circuit breaker and the heartbeat's counts,  *)
(* for every listing, concurrency and threshold.                           *)
(*                                                                         *)
(* The argument counts the results still to come, Unsent, and those in the *)
(* channel.  An iteration of the loop adds one page.  It takes a result out*)
(* unless there is none, and then all that is still to come holds a slot   *)
(* of sem: either way at most Concurrency are left.                        *)
(***************************************************************************)
EXTENDS Scheduler, FiniteSetTheorems, SequenceTheorems, TLAPS

\* A goroutine that publishes has an article left to publish.
HasWork == \A p \in Started : at[p] = "publish" => todo[p] # <<>>

\* The page being started is the last one.
Typed == TypeOK /\ HasWork /\ (pc = "acquire" => nextPage > 1)

\* sem holds at most its capacity.
Slots == Cardinality(Holding) <= Concurrency

\* The breaker has not tripped while the loop runs; afterwards the failures
\* counted and those that may still come are bounded together.
Breaker ==
    IF pc \in {"wait", "acquire", "select"}
    THEN stats.failedPages < MaxPageFailures
    ELSE stats.failedPages + Cardinality(Unsent) + Len(results)
            <= MaxPageFailures + Concurrency

Inv == Typed /\ Slots /\ RoomForResults /\ Breaker
-----------------------------------------------------------------------------
LEMMA Constants ==
    /\ Concurrency \in Nat \ {0}
    /\ MaxPageFailures \in Nat \ {0}
    /\ Seen0 \subseteq Articles
  BY SchedulerAssumption DEF SchedulerAssumption

\* FetchSince answers with a sequence of articles.
LEMMA AnswerType == \A p : Answers(p) \subseteq Answer
  <1>1. Listing \in Seq(SUBSET Answer)
    BY SchedulerAssumption DEF SchedulerAssumption
  <1>2. NothingLeft \in Answer
    <2>1. <<>> \in Seq(Articles)
      BY EmptySeq
    <2> QED BY <2>1 DEF NothingLeft, Answer
  <1>3. ASSUME NEW p \in DOMAIN Listing PROVE Listing[p] \subseteq Answer
    BY <1>1, <1>3, ElementOfSeq, LenProperties
  <1> QED BY <1>2, <1>3 DEF Answers

\* Counting an article or an error keeps a result a result.
LEMMA CountMore ==
    ASSUME NEW r \in PageResult
    PROVE  /\ [r EXCEPT !.published = @ + 1] \in PageResult
           /\ [r EXCEPT !.pubErrs = @ + 1] \in PageResult
  BY DEF PageResult

LEMMA AbsorbedType ==
    ASSUME TypeOK, results # <<>>
    PROVE  /\ Head(results) \in PageResult
           /\ Tail(results) \in Seq(PageResult)
           /\ Len(Tail(results)) = Len(results) - 1
           /\ Len(results) \in Nat \ {0}
           /\ Absorbed(Head(results)) \in Stats
           /\ Absorbed(Head(results)).failedPages \in
                 stats.failedPages .. (stats.failedPages + 1)
           /\ ~ Trips(Head(results)) /\ stats.failedPages < MaxPageFailures =>
                 Absorbed(Head(results)).failedPages < MaxPageFailures
  <1>1. /\ Head(results) \in PageResult
        /\ Tail(results) \in Seq(PageResult)
        /\ Len(Tail(results)) = Len(results) - 1
        /\ Len(results) \in Nat \ {0}
    <2>1. results \in Seq(PageResult)
      BY DEF TypeOK
    <2> QED BY <2>1, HeadTailProperties, EmptySeq, LenProperties
  <1>2. stats \in Stats
    BY DEF TypeOK
  <1> DEFINE r == Head(results)
  <1>3. /\ r.published \in Nat /\ r.pubErrs \in Nat /\ r.failed \in BOOLEAN
        /\ stats.pages \in Nat /\ stats.published \in Nat
        /\ stats.pubErrs \in Nat /\ stats.failedPages \in Nat
    BY <1>1, <1>2 DEF Stats, PageResult
  <1>4. Absorbed(r) \in Stats
    BY <1>3, SMTT(30) DEF Absorbed, Stats
  <1>5. Absorbed(r).failedPages = stats.failedPages + IF r.failed THEN 1 ELSE 0
    BY DEF Absorbed
  <1>6. Absorbed(r).failedPages \in stats.failedPages .. (stats.failedPages + 1)
    BY <1>3, <1>5
  <1>7. ~ Trips(r) /\ stats.failedPages < MaxPageFailures =>
           Absorbed(r).failedPages < MaxPageFailures
    BY <1>3, <1>5, Constants DEF Trips
  <1> QED BY <1>1, <1>4, <1>6, <1>7

\* The empty sequence is the function on no page.
LEMMA EmptyFunction == \A S : <<>> \in [1 .. 0 -> S]
  <1> SUFFICES ASSUME NEW S PROVE <<>> \in [1 .. 0 -> S]
    OBVIOUS
  <1>1. <<>> \in Seq(S) /\ Len(<<>>) = 0
    BY EmptySeq
  <1>2. <<>> \in [1 .. Len(<<>>) -> S]
    BY <1>1, LenProperties
  <1> QED BY <1>1, <1>2

LEMMA InitTyped == Init => Typed
  <1> SUFFICES ASSUME Init PROVE Typed
    OBVIOUS
  <1>1. Started = 1 .. 0
    BY DEF Init, Started
  <1>2. /\ at \in [Started -> Steps]
        /\ todo \in [Started -> Seq(Articles)]
        /\ res \in [Started -> PageResult]
    BY <1>1, EmptyFunction DEF Init
  <1>3. /\ results \in Seq(PageResult) /\ Len(results) = 0
        /\ heartbeat \in Seq(Stats)
    BY EmptySeq DEF Init
  <1>4. HasWork
    BY <1>1 DEF HasWork
  <1>5. stats \in Stats
    BY DEF Init, Stats
  <1>6. stop \in BOOLEAN /\ cancelled \in BOOLEAN /\ seen \subseteq Articles
    BY Constants DEF Init
  <1>7. Len(results) <= Concurrency
    BY <1>3, Constants
  <1>8. pc \in {"wait", "acquire", "select", "drain", "returned"} /\ pc # "acquire"
    BY DEF Init
  <1>9. nextPage \in Nat \ {0}
    BY DEF Init
  <1> QED BY <1>2, <1>3, <1>4, <1>5, <1>6, <1>7, <1>8, <1>9 DEF Typed, TypeOK

-----------------------------------------------------------------------------
\* The loop keeps its types.
LEMMA LoopTyped == ASSUME Typed, Loop PROVE Typed'
  <1> USE DEF Typed, loopVars, goVars
  <1>1. CASE WaitFails \/ LimitReached
    BY <1>1 DEF WaitFails, LimitReached, TypeOK, HasWork, Started
  <1>2. CASE NewPage
    <2>1. Started' = 1 .. nextPage /\ nextPage' \in Nat \ {0} /\ nextPage' > 1
      BY <1>2 DEF NewPage, Started, TypeOK
    <2>2. at' \in [Started' -> Steps]
      BY <1>2, <2>1 DEF NewPage, Started, TypeOK, Steps
    <2>3. todo' \in [Started' -> Seq(Articles)]
      BY <1>2, <2>1, EmptySeq DEF NewPage, Started, TypeOK
    <2>4. res' \in [Started' -> PageResult]
      BY <1>2, <2>1 DEF NewPage, Started, TypeOK, PageResult, NoResult
    <2>5. HasWork'
      BY <1>2, <2>1 DEF NewPage, Started, TypeOK, HasWork
    <2> QED BY <1>2, <2>1, <2>2, <2>3, <2>4, <2>5 DEF NewPage, TypeOK
  <1>3. CASE Acquire
    <2>1. Started' = Started /\ at' \in [Started -> Steps]
      BY <1>3 DEF Acquire, Started, TypeOK, Steps
    <2>2. HasWork'
      BY <1>3, <2>1 DEF Acquire, Started, TypeOK, HasWork
    <2> QED BY <1>3, <2>1, <2>2 DEF Acquire, TypeOK
  <1>4. CASE SelectResult
    <2>1. Len(results') <= Concurrency /\ Started' = Started
      BY <1>4, AbsorbedType, Constants DEF SelectResult, Started, TypeOK
    <2> QED BY <1>4, <2>1, AbsorbedType
        DEF SelectResult, LoopTo, TypeOK, HasWork, PageResult, Trips
  <1>5. CASE SelectDone \/ SelectDefault
    BY <1>5 DEF SelectDone, SelectDefault, LoopTo, TypeOK, HasWork, Started
  <1>6. CASE Drain
    <2>1. Len(results') <= Concurrency /\ Started' = Started
      BY <1>6, AbsorbedType, Constants DEF Drain, Started, TypeOK
    <2> QED BY <1>6, <2>1, AbsorbedType DEF Drain, TypeOK, HasWork
  <1>7. CASE RecordRun
    <2>1. heartbeat' \in Seq(Stats)
      <3>1. stats \in Stats /\ heartbeat \in Seq(Stats)
        BY DEF TypeOK
      <3>2. heartbeat' = Append(heartbeat, stats) \/ heartbeat' = heartbeat
        BY <1>7 DEF RecordRun, Record
      <3> QED BY <3>1, <3>2, AppendProperties
    <2> QED BY <1>7, <2>1 DEF RecordRun, TypeOK, HasWork, Started
  <1> QED BY <1>1, <1>2, <1>3, <1>4, <1>5, <1>6, <1>7 DEF Loop

\* So do the goroutines.
LEMMA GoroutineTyped ==
    ASSUME Typed, NEW p \in Started, Goroutine(p) PROVE Typed'
  <1> USE DEF Typed, loopVars, goVars
  <1>1. CASE FetchSince(p)
    <2>1. PICK a \in Answer :
            /\ todo' = [todo EXCEPT ![p] = a.articles]
            /\ res' = [res EXCEPT ![p].empty = a.empty]
            /\ at' = [at EXCEPT ![p] = IF a.articles = <<>> THEN "send" ELSE "publish"]
      BY <1>1, AnswerType DEF FetchSince
    <2>2. a.articles \in Seq(Articles) /\ a.empty \in BOOLEAN
      BY <2>1 DEF Answer
    <2>3. Started' = Started
      BY <1>1 DEF FetchSince, Started
    <2>4. todo' \in [Started -> Seq(Articles)] /\ at' \in [Started -> Steps]
      BY <2>1, <2>2 DEF TypeOK, Steps
    <2>5. res' \in [Started -> PageResult]
      BY <2>1, <2>2 DEF TypeOK, PageResult
    <2>6. HasWork'
      BY <2>1, <2>3 DEF TypeOK, HasWork
    <2> QED BY <1>1, <2>3, <2>4, <2>5, <2>6 DEF FetchSince, TypeOK
  <1>2. CASE FetchFails(p)
    BY <1>2 DEF FetchFails, TypeOK, HasWork, Started, Steps, PageResult
  <1>3. CASE Publish(p) \/ PublishFails(p) \/ PublishRetried(p)
    <2>1. todo[p] # <<>> /\ todo[p] \in Seq(Articles) /\ Started' = Started
      BY <1>3 DEF Publish, PublishFails, PublishRetried, TypeOK, HasWork, Started
    <2>2. /\ Head(todo[p]) \in Articles
          /\ Tail(todo[p]) \in Seq(Articles)
          /\ Len(todo[p]) # 1 => Tail(todo[p]) # <<>>
      <3>1. /\ Head(todo[p]) \in Articles
            /\ Tail(todo[p]) \in Seq(Articles)
            /\ Len(Tail(todo[p])) = Len(todo[p]) - 1
        BY <2>1, HeadTailProperties
      <3>2. Len(todo[p]) \in Nat
        BY <2>1, LenProperties
      <3>3. Len(todo[p]) # 1 => Len(Tail(todo[p])) # 0
        BY <3>1, <3>2
      <3>4. Len(<<>>) = 0
        BY EmptySeq
      <3> QED BY <3>1, <3>3, <3>4, Zenon
    <2>3. /\ todo' = [todo EXCEPT ![p] = Tail(@)]
          /\ at' = [at EXCEPT ![p] = IF Len(todo[p]) = 1 THEN "send" ELSE "publish"]
      BY <1>3 DEF Publish, PublishFails, PublishRetried, Published
    <2>4. todo' \in [Started -> Seq(Articles)] /\ at' \in [Started -> Steps]
      BY <2>2, <2>3 DEF TypeOK, Steps
    <2>5. HasWork'
      BY <2>1, <2>2, <2>3 DEF TypeOK, HasWork
    <2>6. res' \in [Started -> PageResult]
      <3>1. \/ res' = res
            \/ res' = [res EXCEPT ![p].published = @ + 1]
            \/ res' = [res EXCEPT ![p].pubErrs = @ + 1]
        BY <1>3 DEF Publish, PublishFails, PublishRetried
      <3>2. res[p] \in PageResult
        BY DEF TypeOK
      <3>3. /\ [res[p] EXCEPT !.published = @ + 1] \in PageResult
            /\ [res[p] EXCEPT !.pubErrs = @ + 1] \in PageResult
        BY <3>2, CountMore
      <3> QED BY <3>1, <3>3 DEF TypeOK
    <2>7. seen' \subseteq Articles
      BY <1>3, <2>2 DEF Publish, PublishFails, PublishRetried, TypeOK
    <2> QED BY <1>3, <2>1, <2>4, <2>5, <2>6, <2>7
        DEF Publish, PublishFails, PublishRetried, TypeOK
  <1>4. CASE Send(p)
    <2>1. /\ results' \in Seq(PageResult)
          /\ Len(results') = Len(results) + 1
      BY <1>4, AppendProperties DEF Send, TypeOK
    <2>2. Len(results') <= Concurrency
      BY <1>4, <2>1, Constants, LenProperties DEF Send, TypeOK
    <2>3. Started' = Started /\ at' \in [Started -> Steps]
      BY <1>4 DEF Send, TypeOK, Started, Steps
    <2>4. HasWork'
      BY <1>4, <2>3 DEF Send, TypeOK, HasWork
    <2> QED BY <1>4, <2>1, <2>2, <2>3, <2>4 DEF Send, TypeOK
  <1>5. CASE Release(p)
    BY <1>5 DEF Release, TypeOK, HasWork, Started, Steps
  <1> QED BY <1>1, <1>2, <1>3, <1>4, <1>5 DEF Goroutine

LEMMA NextTyped == Typed /\ [Next]_vars => Typed'
  <1>1. Typed /\ (UNCHANGED vars \/ Cancel) => Typed'
    BY DEF Typed, TypeOK, HasWork, Started, Cancel, vars, loopVars, goVars
  <1> QED BY <1>1, LoopTyped, GoroutineTyped DEF Next, Terminated

\* The loop's variables, the channel, the goroutines and Redis always hold
\* values of their types; in particular results never exceeds its capacity.
THEOREM TypeCorrect == Spec => []TypeOK
  <1>1. Typed => TypeOK
    BY DEF Typed
  <1> QED BY <1>1, InitTyped, NextTyped, PTL DEF Spec
-----------------------------------------------------------------------------
(***************************************************************************)
(* Counting the goroutines.                                                *)
(***************************************************************************)
LEMMA Counts ==
    ASSUME TypeOK
    PROVE  /\ IsFiniteSet(Holding) /\ IsFiniteSet(Unsent)
           /\ Cardinality(Holding) \in Nat /\ Cardinality(Unsent) \in Nat
           /\ Cardinality(Unsent) <= Cardinality(Holding)
           /\ Len(results) \in Nat
           /\ stats.failedPages \in Nat
  <1>1. IsFiniteSet(Started)
    <2>1. nextPage \in Int
      BY DEF TypeOK
    <2>2. 1 \in Int /\ nextPage - 1 \in Int
      BY <2>1
    <2> QED BY <2>2, FS_Interval DEF Started
  <1>2. Holding \subseteq Started /\ Unsent \subseteq Holding
    BY DEF Holding, Unsent
  <1>3. IsFiniteSet(Holding)
    BY <1>1, <1>2, FS_Subset
  <1>4. IsFiniteSet(Unsent) /\ Cardinality(Unsent) <= Cardinality(Holding)
    BY <1>2, <1>3, FS_Subset
  <1>5. Cardinality(Holding) \in Nat /\ Cardinality(Unsent) \in Nat
    BY <1>3, <1>4, FS_CardinalityType
  <1>6. Len(results) \in Nat
    BY LenProperties DEF TypeOK
  <1>7. stats.failedPages \in Nat
    BY DEF TypeOK, Stats
  <1> QED BY <1>3, <1>4, <1>5, <1>6, <1>7

\* How a step may change what the counting argument looks at.
SameCounts ==
    /\ Cardinality(Holding)' = Cardinality(Holding)
    /\ Cardinality(Unsent)' = Cardinality(Unsent)

\* A goroutine that moves on within its fetch and publish steps.
LEMMA Moves ==
    ASSUME Typed, NEW p \in Started,
           FetchSince(p) \/ FetchFails(p) \/ Publish(p) \/ PublishFails(p)
              \/ PublishRetried(p)
    PROVE  SameCounts /\ UNCHANGED <<pc, stats, results>>
  <1>1. /\ UNCHANGED <<pc, nextPage, stats, results>>
        /\ at[p] \in {"fetch", "publish"}
        /\ \E l \in {"publish", "send"} : at' = [at EXCEPT ![p] = l]
    BY DEF FetchSince, FetchFails, Publish, PublishFails, PublishRetried, Published,
           loopVars
  <1>2. at \in [Started -> Steps] /\ Started' = Started
    BY <1>1 DEF Typed, TypeOK, Started
  <1>3. Holding' = Holding /\ Unsent' = Unsent
    BY <1>1, <1>2 DEF Holding, Unsent
  <1> QED BY <1>1, <1>3 DEF SameCounts

LEMMA Sends ==
    ASSUME Typed, NEW p \in Started, Send(p)
    PROVE  /\ Cardinality(Holding)' = Cardinality(Holding)
           /\ Cardinality(Unsent)' = Cardinality(Unsent) - 1
           /\ Len(results') = Len(results) + 1
           /\ UNCHANGED <<pc, stats>>
  <1>1. at \in [Started -> Steps] /\ Started' = Started
    BY DEF Typed, TypeOK, Started, Send, loopVars
  <1>2. Holding' = Holding /\ Unsent' = Unsent \ {p} /\ p \in Unsent
    BY <1>1 DEF Holding, Unsent, Send
  <1>3. Cardinality(Unsent \ {p}) = Cardinality(Unsent) - 1
    BY <1>2, Counts, FS_RemoveElement DEF Typed
  <1>4. Len(results') = Len(results) + 1
    BY AppendProperties DEF Send, Typed, TypeOK
  <1> QED BY <1>2, <1>3, <1>4 DEF Send, loopVars

LEMMA Releases ==
    ASSUME Typed, NEW p \in Started, Release(p)
    PROVE  /\ Cardinality(Holding)' = Cardinality(Holding) - 1
           /\ Cardinality(Unsent)' = Cardinality(Unsent)
           /\ UNCHANGED <<pc, stats, results>>
  <1>1. at \in [Started -> Steps] /\ Started' = Started
    BY DEF Typed, TypeOK, Started, Release, loopVars
  <1>2. Holding' = Holding \ {p} /\ p \in Holding /\ Unsent' = Unsent
    BY <1>1 DEF Holding, Unsent, Release
  <1>3. Cardinality(Holding \ {p}) = Cardinality(Holding) - 1
    BY <1>2, Counts, FS_RemoveElement DEF Typed
  <1> QED BY <1>2, <1>3 DEF Release, loopVars

\* The loop's own steps leave the goroutines alone, but for Acquire.
LEMMA LoopCounts ==
    ASSUME Typed, Loop \/ Cancel \/ UNCHANGED vars, ~ Acquire
    PROVE  SameCounts
  <1>1. CASE NewPage
    <2>1. Started' = 1 .. nextPage /\ Started = 1 .. (nextPage - 1) /\ nextPage \in Nat
      BY <1>1 DEF NewPage, Started, Typed, TypeOK
    <2>2. /\ at' = [p \in 1 .. nextPage |-> IF p = nextPage THEN "spawn" ELSE at[p]]
      BY <1>1 DEF NewPage
    <2>3. Holding' = Holding
      BY <2>1, <2>2 DEF Holding
    <2>4. Unsent' = Unsent
      BY <2>1, <2>2 DEF Unsent
    <2> QED BY <2>3, <2>4 DEF SameCounts
  <1>2. CASE ~ NewPage
    <2>1. at' = at /\ nextPage' = nextPage
      BY <1>2
      DEF Loop, WaitFails, LimitReached, SelectResult, SelectDone, SelectDefault,
          Drain, RecordRun, Record, Cancel, vars, loopVars, goVars
    <2>2. Holding' = Holding /\ Unsent' = Unsent
      BY <2>1 DEF Holding, Unsent, Started
    <2> QED BY <2>2 DEF SameCounts
  <1> QED BY <1>1, <1>2

LEMMA Acquires ==
    ASSUME Typed, Acquire
    PROVE  /\ Cardinality(Holding)' <= Cardinality(Holding) + 1
           /\ Cardinality(Unsent)' <= Cardinality(Unsent) + 1
           /\ Cardinality(Holding) < Concurrency
           /\ pc = "acquire" /\ pc' = "select" /\ UNCHANGED <<stats, results>>
  <1> DEFINE q == nextPage - 1
  <1>1. at \in [Started -> Steps] /\ Started' = Started /\ q \in Started
    BY DEF Typed, TypeOK, Started, Acquire
  <1>2. at' = [at EXCEPT ![q] = "fetch"]
    BY DEF Acquire
  <1>3. Holding' = Holding \cup {q} /\ Unsent' = Unsent \cup {q}
    <2> HIDE DEF q
    <2> QED BY <1>1, <1>2 DEF Holding, Unsent
  <1>4. /\ Cardinality(Holding \cup {q}) <= Cardinality(Holding) + 1
        /\ Cardinality(Unsent \cup {q}) <= Cardinality(Unsent) + 1
    <2> HIDE DEF q
    <2>1. /\ IsFiniteSet(Holding) /\ IsFiniteSet(Unsent)
          /\ Cardinality(Holding) \in Nat /\ Cardinality(Unsent) \in Nat
      BY Counts DEF Typed
    <2>2. Cardinality(Holding \cup {q}) \in {Cardinality(Holding), Cardinality(Holding) + 1}
      BY <2>1, FS_AddElement
    <2>3. Cardinality(Unsent \cup {q}) \in {Cardinality(Unsent), Cardinality(Unsent) + 1}
      BY <2>1, FS_AddElement
    <2> QED BY <2>1, <2>2, <2>3
  <1> QED BY <1>3, <1>4 DEF Acquire
-----------------------------------------------------------------------------
(***************************************************************************)
(* The invariant is inductive.  Counting is what each case does.           *)
(***************************************************************************)
Numbers ==
    /\ Cardinality(Holding) \in Nat /\ Cardinality(Unsent) \in Nat
    /\ Cardinality(Unsent) <= Cardinality(Holding)
    /\ Len(results) \in Nat
    /\ stats.failedPages \in Nat
    /\ Concurrency \in Nat \ {0} /\ MaxPageFailures \in Nat \ {0}

LEMMA NumbersTyped == Typed => Numbers
  BY Counts, Constants DEF Typed, Numbers

LEMMA InitInv == Init => Inv
  <1> SUFFICES ASSUME Init PROVE Inv
    OBVIOUS
  <1>1. Typed
    BY InitTyped
  <1>2. Holding = {} /\ Unsent = {}
    BY DEF Init, Holding, Unsent, Started
  <1>3. Cardinality(Holding) = 0 /\ Cardinality(Unsent) = 0
    BY <1>2, FS_EmptySet
  <1>4. Len(results) = 0 /\ pc = "wait" /\ stats.failedPages = 0
    BY EmptySeq DEF Init
  <1> QED BY <1>1, <1>3, <1>4, Constants DEF Inv, Slots, RoomForResults, Breaker

LEMMA SelectInv == ASSUME Inv, Typed', SelectResult PROVE Inv'
  <1>1. Numbers
    BY NumbersTyped DEF Inv
  <1>2. SameCounts
    BY LoopCounts DEF Inv, Loop, SelectResult, Acquire
  <1>3. /\ pc = "select" /\ results # <<>>
        /\ Len(results') = Len(results) - 1
        /\ stats'.failedPages \in stats.failedPages .. (stats.failedPages + 1)
        /\ pc' \in {"wait", "drain"}
        /\ pc' = "wait" => stats'.failedPages < MaxPageFailures
    BY AbsorbedType DEF SelectResult, LoopTo, Inv, Typed, Breaker
  <1>4. Cardinality(Unsent) + Len(results) <= Concurrency + 1
    BY <1>3 DEF Inv, RoomForResults
  <1>5. stats.failedPages < MaxPageFailures
    BY <1>3 DEF Inv, Breaker
  <1>6. Slots' /\ RoomForResults'
    BY <1>1, <1>2, <1>3, <1>4, SMTT(30)
    DEF Inv, Slots, RoomForResults, Numbers, SameCounts
  <1>7. Breaker'
    BY <1>1, <1>2, <1>3, <1>4, <1>5, SMTT(30) DEF Breaker, Numbers, SameCounts
  <1> QED BY <1>6, <1>7 DEF Inv

LEMMA DrainInv == ASSUME Inv, Typed', Drain PROVE Inv'
  <1>1. Numbers
    BY NumbersTyped DEF Inv
  <1>2. SameCounts
    BY LoopCounts DEF Inv, Loop, Drain, Acquire
  <1>3. /\ pc = "drain" /\ pc' = "drain"
        /\ Len(results') = Len(results) - 1
        /\ stats'.failedPages \in stats.failedPages .. (stats.failedPages + 1)
    BY AbsorbedType DEF Drain, Inv, Typed
  <1>4. Slots' /\ RoomForResults'
    BY <1>1, <1>2, <1>3 DEF Inv, Slots, RoomForResults, Numbers, SameCounts
  <1>5. stats.failedPages + Cardinality(Unsent) + Len(results)
           <= MaxPageFailures + Concurrency
    BY <1>3 DEF Inv, Breaker
  <1>6. stats'.failedPages + Cardinality(Unsent)' + Len(results')
           <= MaxPageFailures + Concurrency
    BY <1>1, <1>2, <1>3, <1>5, SMTT(30) DEF Numbers, SameCounts
  <1>7. Breaker'
    BY <1>3, <1>6 DEF Breaker
  <1> QED BY <1>4, <1>7 DEF Inv

\* The steps of the loop that take no result.
LEMMA QuietInv ==
    ASSUME Inv, Typed',
           WaitFails \/ LimitReached \/ NewPage \/ SelectDone \/ SelectDefault
              \/ RecordRun \/ Cancel \/ UNCHANGED vars
    PROVE  Inv'
  <1>1. Numbers
    BY NumbersTyped DEF Inv
  <1>2. SameCounts
    BY LoopCounts
    DEF Inv, Loop, WaitFails, LimitReached, NewPage, SelectDone, SelectDefault,
        RecordRun, Cancel, Acquire, vars, loopVars
  <1>3. /\ UNCHANGED <<stats, results>>
        /\ \/ pc = "wait" /\ pc' \in {"returned", "drain", "acquire"}
           \/ pc = "select" /\ pc' = "drain"
           \/ pc = "select" /\ pc' = "wait" /\ results = <<>>
           \/ pc = "drain" /\ pc' = "returned" /\ Unsent = {} /\ results = <<>>
           \/ pc' = pc
    BY DEF WaitFails, LimitReached, NewPage, SelectDone, SelectDefault, LoopTo,
           RecordRun, Unsent, Cancel, vars, loopVars
  <1>4. results = <<>> => Len(results) = 0
    BY EmptySeq
  <1>5. Unsent = {} => Cardinality(Unsent) = 0
    BY FS_EmptySet
  <1>6. Slots' /\ RoomForResults'
    BY <1>1, <1>2, <1>3, <1>4, <1>5
    DEF Inv, Slots, RoomForResults, Numbers, SameCounts
  <1>7. Breaker'
    BY <1>1, <1>2, <1>3 DEF Inv, Breaker, RoomForResults, Numbers, SameCounts
  <1> QED BY <1>6, <1>7 DEF Inv

LEMMA AcquireInv == ASSUME Inv, Typed', Acquire PROVE Inv'
  <1>1. Numbers /\ Numbers'
    <2>1. Typed' => Numbers'
      BY NumbersTyped, PTL
    <2> QED BY <2>1, NumbersTyped DEF Inv
  <1>2. Slots' /\ RoomForResults' /\ Breaker'
    BY <1>1, Acquires DEF Inv, Slots, RoomForResults, Breaker, Numbers
  <1> QED BY <1>2 DEF Inv

LEMMA GoroutineInv ==
    ASSUME Inv, Typed', NEW p \in Started, Goroutine(p) PROVE Inv'
  <1>1. Numbers
    BY NumbersTyped DEF Inv
  <1>2. CASE Send(p)
    <2>1. Slots' /\ RoomForResults' /\ Breaker'
      BY <1>1, <1>2, Sends, SMTT(30) DEF Inv, Slots, RoomForResults, Breaker, Numbers
    <2> QED BY <2>1 DEF Inv
  <1>3. CASE Release(p)
    <2>1. Slots' /\ RoomForResults' /\ Breaker'
      BY <1>1, <1>3, Releases DEF Inv, Slots, RoomForResults, Breaker, Numbers
    <2> QED BY <2>1 DEF Inv
  <1>4. CASE ~ Send(p) /\ ~ Release(p)
    <2>1. SameCounts /\ UNCHANGED <<pc, stats, results>>
      BY <1>4, Moves DEF Inv, Goroutine
    <2>2. Slots' /\ RoomForResults' /\ Breaker'
      BY <1>1, <2>1 DEF Inv, Slots, RoomForResults, Breaker, Numbers, SameCounts
    <2> QED BY <2>2 DEF Inv
  <1> QED BY <1>2, <1>3, <1>4

LEMMA NextInv == Inv /\ [Next]_vars => Inv'
  <1> SUFFICES ASSUME Inv, [Next]_vars PROVE Inv'
    OBVIOUS
  <1>1. Typed'
    BY NextTyped DEF Inv
  <1> QED BY <1>1, SelectInv, DrainInv, QuietInv, AcquireInv, GoroutineInv
      DEF Next, Loop, Terminated

LEMMA InvHolds == Spec => []Inv
  BY InitInv, NextInv, PTL DEF Spec

\* For every concurrency and every schedule the results still to come fit in
\* the results channel, and so no goroutine is stuck on it while the loop
\* waits for sem, nor after an interrupted Run.
THEOREM ChannelsNeverDeadlock == Spec => [](RoomForResults /\ NoBlockedSender)
  <1>1. Inv => RoomForResults /\ NoBlockedSender
    <2> SUFFICES ASSUME Inv PROVE NoBlockedSender
      BY DEF Inv
    <2> SUFFICES ASSUME pc \in {"wait", "acquire", "returned"},
                        NEW p \in Started, at[p] = "send"
                 PROVE  Len(results) < Concurrency
      BY DEF NoBlockedSender
    <2>1. Numbers
      BY NumbersTyped DEF Inv
    <2>2. Cardinality(Unsent) # 0
      <3>1. p \in Unsent
        BY DEF Unsent
      <3> QED BY <3>1, Counts, FS_EmptySet DEF Inv, Typed
    <2> QED BY <2>1, <2>2 DEF Inv, RoomForResults, Numbers
  <1> QED BY <1>1, InvHolds, PTL

\* The circuit breaker: a run counts at most MaxPageFailures + Concurrency
\* failed pages, whatever the order in which the results arrive.
THEOREM BreakerHolds == Spec => []BreakerBound
  <1>1. Inv => BreakerBound
    <2> SUFFICES ASSUME Inv PROVE BreakerBound
      OBVIOUS
    <2>1. Numbers
      BY NumbersTyped DEF Inv
    <2> QED BY <2>1 DEF Inv, Breaker, BreakerBound, Numbers
  <1> QED BY <1>1, InvHolds, PTL
-----------------------------------------------------------------------------
(***************************************************************************)
(* The heartbeat.  Statistics are sums over results that have come through *)
(* the channel.  The proof keeps the books without summing: every article  *)
(* this run added is credited to one page, and every result in the channel *)
(* belongs to a page of its own, so the loop has taken the results of the  *)
(* other pages that have sent one, and absorbing a result moves one page.  *)
(***************************************************************************)
Sent == {p \in Started : at[p] \in {"release", "done"}}

\* Pages whose result the loop has absorbed; w[i] is the page of results[i].
Taken(w) == Sent \ {w[i] : i \in 1 .. Len(results)}

\* Articles credited to the pages P; c[a] is the page that added a.
Credit(c, P) == {a \in seen \ Seen0 : c[a] \in P}

Failed(P) == {p \in P : res[p].failed}

Ledger(c, w) ==
    /\ \A i, j \in 1 .. Len(results) : w[i] = w[j] => i = j
    /\ \A i \in 1 .. Len(results) : results[i] = res[w[i]]
    /\ stats.pages = Cardinality(Taken(w))
    /\ stats.failedPages = Cardinality(Failed(Taken(w)))
    /\ stats.published <= Cardinality(Credit(c, Taken(w)))
    /\ \A p \in Started : res[p].published <= Cardinality(Credit(c, {p}))

LedgerInv ==
    /\ IsFiniteSet(seen \ Seen0) /\ Seen0 \subseteq seen
    /\ pc = "acquire" => at[nextPage - 1] = "spawn"
    /\ \E c \in [seen \ Seen0 -> Started], w \in [1 .. Len(results) -> Sent] : Ledger(c, w)

\* Nothing happens after the heartbeat.
BeatInv == HeartbeatSound /\ (heartbeat # <<>> => Finished)

LEMMA DisjointUnion ==
    ASSUME NEW S, NEW T, IsFiniteSet(S), IsFiniteSet(T), S \cap T = {}
    PROVE  Cardinality(S \cup T) = Cardinality(S) + Cardinality(T)
  <1>1. Cardinality(S \cup T) = Cardinality(S) + Cardinality(T) - Cardinality(S \cap T)
    BY FS_Union
  <1>2. Cardinality(S \cap T) = 0
    BY FS_EmptySet
  <1>3. Cardinality(S) \in Nat /\ Cardinality(T) \in Nat
    BY FS_CardinalityType
  <1> QED BY <1>1, <1>2, <1>3

LEMMA PagesFinite ==
    ASSUME Typed, NEW P, P \subseteq Started PROVE IsFiniteSet(P) /\ Cardinality(P) \in Nat
  <1>1. nextPage - 1 \in Int
    BY DEF Typed, TypeOK
  <1>2. IsFiniteSet(Started)
    BY <1>1, FS_Interval DEF Started
  <1> QED BY <1>2, FS_Subset, FS_CardinalityType

LEMMA CreditFinite ==
    ASSUME IsFiniteSet(seen \ Seen0), NEW c, NEW P
    PROVE  IsFiniteSet(Credit(c, P)) /\ Cardinality(Credit(c, P)) \in Nat
  <1>1. Credit(c, P) \subseteq seen \ Seen0
    BY DEF Credit
  <1> QED BY <1>1, FS_Subset, FS_CardinalityType

\* Steps that leave the books alone: no result sent or taken, nothing added.
LEMMA LedgerKept ==
    ASSUME Typed, LedgerInv, UNCHANGED <<stats, results, seen>>, Started \subseteq Started',
           Sent' = Sent, \A p \in Sent : res'[p] = res[p],
           \A p \in Started : res'[p].published = res[p].published,
           \A p \in Started' \ Started : res'[p].published = 0,
           pc' = "acquire" => at'[nextPage' - 1] = "spawn"
    PROVE  LedgerInv'
  <1>1. PICK c \in [seen \ Seen0 -> Started], w \in [1 .. Len(results) -> Sent] : Ledger(c, w)
    BY DEF LedgerInv
  <1>2. Taken(w)' = Taken(w) /\ Taken(w) \subseteq Sent
    BY DEF Taken
  <1>3. \A P : Credit(c, P)' = Credit(c, P)
    BY DEF Credit
  <1>4. Failed(Taken(w))' = Failed(Taken(w))
    BY <1>2 DEF Failed
  <1>5. c \in [(seen \ Seen0)' -> Started'] /\ w \in [(1 .. Len(results))' -> Sent']
    OBVIOUS
  <1>6. ASSUME NEW p \in Started' PROVE res'[p].published <= Cardinality(Credit(c, {p})')
    <2>1. Cardinality(Credit(c, {p})) \in Nat /\ Credit(c, {p})' = Credit(c, {p})
      BY <1>3, CreditFinite DEF LedgerInv
    <2>2. CASE p \in Started
      BY <1>1, <2>1, <2>2 DEF Ledger
    <2>3. CASE p \notin Started
      BY <2>1, <2>3
    <2> QED BY <2>2, <2>3
  <1>7. Ledger(c, w)'
    <2>1. \A i \in 1 .. Len(results) : results'[i] = res'[w[i]]
      BY <1>1 DEF Ledger
    <2>2. stats'.published <= Cardinality(Credit(c, Taken(w))')
      BY <1>1, <1>2, <1>3 DEF Ledger
    <2> QED BY <1>1, <1>2, <1>4, <1>6, <2>1, <2>2 DEF Ledger
  <1> QED BY <1>5, <1>7 DEF LedgerInv

\* The goroutine of page p adds article a, counted or not.
LEMMA LedgerAdds ==
    ASSUME Typed, LedgerInv, NEW p \in Started, p \notin Sent, NEW a \in Articles,
           seen' = seen \cup {a}, UNCHANGED <<stats, results, nextPage>>, pc' = pc, Sent' = Sent,
           pc = "acquire" => at'[nextPage - 1] = at[nextPage - 1],
           \A q \in Started \ {p} : res'[q] = res[q],
           \/ res'[p].published = res[p].published
           \/ res'[p].published = res[p].published + 1 /\ a \notin seen
    PROVE  LedgerInv'
  <1>1. PICK c \in [seen \ Seen0 -> Started], w \in [1 .. Len(results) -> Sent] : Ledger(c, w)
    BY DEF LedgerInv
  <1>2. PICK d : d = [x \in seen' \ Seen0 |-> IF x \in seen THEN c[x] ELSE p]
    OBVIOUS
  <1>3. d \in [(seen \ Seen0)' -> Started'] /\ w \in [(1 .. Len(results))' -> Sent']
    BY <1>2 DEF Started
  <1>4. Taken(w)' = Taken(w) /\ Taken(w) \subseteq Sent /\ Sent \subseteq Started
    BY DEF Taken, Sent
  <1>5. Failed(Taken(w))' = Failed(Taken(w))
    BY <1>4 DEF Failed
  <1>6. IsFiniteSet(seen \ Seen0) /\ IsFiniteSet(seen' \ Seen0)
    <2>1. IsFiniteSet(seen \ Seen0)
      BY DEF LedgerInv
    <2>2. IsFiniteSet((seen \ Seen0) \cup {a})
      BY <2>1, FS_AddElement
    <2>3. seen' \ Seen0 \subseteq (seen \ Seen0) \cup {a}
      OBVIOUS
    <2> QED BY <2>1, <2>2, <2>3, FS_Subset
  <1>7. ASSUME NEW P
        PROVE  /\ Credit(c, P) \subseteq Credit(d, P)' /\ IsFiniteSet(Credit(d, P)')
               /\ Cardinality(Credit(c, P)) <= Cardinality(Credit(d, P)')
               /\ Cardinality(Credit(c, P)) \in Nat /\ Cardinality(Credit(d, P)') \in Nat
    <2>1. Credit(c, P) \subseteq Credit(d, P)'
      BY <1>2 DEF Credit
    <2>2. Credit(d, P)' \subseteq seen' \ Seen0
      BY DEF Credit
    <2>3. IsFiniteSet(Credit(d, P)')
      BY <1>6, <2>2, FS_Subset
    <2>4. IsFiniteSet(Credit(c, P)) /\ Cardinality(Credit(c, P)) <= Cardinality(Credit(d, P)')
      BY <2>1, <2>3, FS_Subset
    <2> QED BY <2>1, <2>3, <2>4, FS_CardinalityType
  <1>8. \A q \in Started : res[q] \in PageResult
    BY DEF Typed, TypeOK
  <1>9. ASSUME NEW q \in Started PROVE res'[q].published <= Cardinality(Credit(d, {q})')
    <2>0. /\ res[q].published \in Nat /\ res[q].published <= Cardinality(Credit(c, {q}))
          /\ Cardinality(Credit(c, {q})) <= Cardinality(Credit(d, {q})')
          /\ Cardinality(Credit(c, {q})) \in Nat /\ Cardinality(Credit(d, {q})') \in Nat
      BY <1>1, <1>7, <1>8 DEF Ledger, PageResult
    <2>1. CASE res'[q].published = res[q].published
      BY <2>0, <2>1
    <2>2. CASE q = p /\ res'[p].published = res[p].published + 1 /\ a \notin seen
      <3>1. a \notin Credit(c, {p})
        BY <2>2 DEF Credit
      <3>2. CASE a \in Seen0
        <4>1. Seen0 \subseteq seen
          BY DEF LedgerInv
        <4> QED BY <2>2, <3>2, <4>1
      <3>3. CASE a \notin Seen0
        <4>1. Credit(c, {p}) \cup {a} \subseteq Credit(d, {p})'
          BY <1>2, <2>2, <3>3 DEF Credit
        <4>2. Cardinality(Credit(c, {p}) \cup {a}) = Cardinality(Credit(c, {p})) + 1
          BY <1>6, <3>1, CreditFinite, FS_AddElement
        <4>3. Cardinality(Credit(c, {p}) \cup {a}) <= Cardinality(Credit(d, {p})')
          BY <1>7, <4>1, FS_Subset
        <4> QED BY <2>0, <2>2, <4>2, <4>3
      <3> QED BY <3>2, <3>3
    <2> QED BY <2>1, <2>2
  <1>10. Ledger(d, w)'
    <2>1. \A i \in 1 .. Len(results) : results'[i] = res'[w[i]]
      BY <1>1, <1>4 DEF Ledger
    <2>2. stats'.published <= Cardinality(Credit(d, Taken(w))')
      <3>1. stats.published \in Nat /\ stats.published <= Cardinality(Credit(c, Taken(w)))
        BY <1>1 DEF Ledger, Typed, TypeOK, Stats
      <3>2. PICK T : T = Taken(w)
        OBVIOUS
      <3>3. stats.published <= Cardinality(Credit(d, T)')
        BY <1>7, <3>1, <3>2
      <3> QED BY <1>4, <3>2, <3>3
    <2>3. Started' = Started
      BY DEF Started
    <2> QED BY <1>1, <1>4, <1>5, <1>9, <2>1, <2>2, <2>3 DEF Ledger
  <1> QED BY <1>3, <1>6, <1>10 DEF LedgerInv

\* The goroutine of page p sends its result.
LEMMA LedgerSends == ASSUME Typed, LedgerInv, NEW p \in Started, Send(p) PROVE LedgerInv'
  <1>1. PICK c \in [seen \ Seen0 -> Started], w \in [1 .. Len(results) -> Sent] : Ledger(c, w)
    BY DEF LedgerInv
  <1>2. /\ UNCHANGED <<pc, nextPage, stats, res, seen>> /\ results' = Append(results, res[p])
        /\ at[p] = "send" /\ at' = [at EXCEPT ![p] = "release"] /\ Started' = Started
    BY DEF Send, loopVars, Started
  <1>3. at \in [Started -> Steps] /\ results \in Seq(PageResult) /\ Len(results) \in Nat
        /\ res \in [Started -> PageResult]
    BY DEF Typed, TypeOK
  <1>4. Sent' = Sent \cup {p} /\ p \notin Sent
    BY <1>2, <1>3 DEF Sent
  <1>5. /\ Len(results') = Len(results) + 1 /\ results'[Len(results) + 1] = res[p]
        /\ \A i \in 1 .. Len(results) : results'[i] = results[i]
    BY <1>2, <1>3, AppendProperties
  <1>6. PICK v : v = [i \in 1 .. Len(results') |-> IF i = Len(results') THEN p ELSE w[i]]
    OBVIOUS
  <1>7. /\ \A i \in 1 .. Len(results) : v[i] = w[i]
        /\ v[Len(results) + 1] = p /\ v \in [1 .. Len(results') -> Sent']
    BY <1>3, <1>4, <1>5, <1>6
  <1>8. \A i \in 1 .. Len(results') : i \in 1 .. Len(results) \/ i = Len(results) + 1
    BY <1>3, <1>5
  <1>9. Taken(v)' = Taken(w)
    <2>1. {v[i] : i \in 1 .. Len(results')} = {w[i] : i \in 1 .. Len(results)} \cup {p}
      <3>1. Len(results) + 1 \in 1 .. Len(results') /\ 1 .. Len(results) \subseteq 1 .. Len(results')
        BY <1>3, <1>5
      <3> QED BY <1>7, <1>8, <3>1
    <2> QED BY <1>4, <2>1 DEF Taken
  <1>10. Ledger(c, v)'
    <2>1. \A i, j \in 1 .. Len(results') : v[i] = v[j] => i = j
      BY <1>1, <1>4, <1>7, <1>8 DEF Ledger
    <2>2. \A i \in 1 .. Len(results') : results'[i] = res'[v[i]]
      BY <1>1, <1>2, <1>5, <1>7, <1>8 DEF Ledger
    <2>3. \A P : Credit(c, P)' = Credit(c, P) /\ Failed(P)' = Failed(P)
      BY <1>2 DEF Credit, Failed
    <2>4. Failed(Taken(v))' = Failed(Taken(w)) /\ Credit(c, Taken(v))' = Credit(c, Taken(w))
      BY <1>2, <1>9 DEF Credit, Failed
    <2>5. \A q \in Started' : res'[q].published <= Cardinality(Credit(c, {q})')
      BY <1>1, <1>2, <2>3 DEF Ledger
    <2> QED BY <1>1, <1>2, <1>9, <2>1, <2>2, <2>4, <2>5 DEF Ledger
  <1>11. pc' = "acquire" => at'[nextPage' - 1] = "spawn"
    <2>1. pc = "acquire" => nextPage - 1 \in Started /\ at[nextPage - 1] = "spawn"
      BY DEF LedgerInv, Typed, TypeOK, Started
    <2> QED BY <1>2, <1>3, <2>1
  <1>12. c \in [(seen \ Seen0)' -> Started']
    BY <1>2
  <1> QED BY <1>2, <1>7, <1>10, <1>11, <1>12 DEF LedgerInv

\* The loop absorbs the result at the head of the channel: its page joins those
\* taken, with its failure and the articles credited to it.
LEMMA LedgerTakes ==
    ASSUME Typed, LedgerInv, results # <<>>, results' = Tail(results),
           stats' = Absorbed(Head(results)), UNCHANGED <<nextPage, at, res, seen>>,
           pc' # "acquire"
    PROVE  LedgerInv'
  <1>1. PICK c \in [seen \ Seen0 -> Started], w \in [1 .. Len(results) -> Sent] : Ledger(c, w)
    BY DEF LedgerInv
  <1>2. /\ results \in Seq(PageResult) /\ Len(results) \in Nat \ {0} /\ Head(results) = results[1]
        /\ Len(results') = Len(results) - 1
        /\ \A i \in 1 .. Len(results') : results'[i] = results[i + 1]
    <2>1. results \in Seq(PageResult)
      BY DEF Typed, TypeOK
    <2> QED BY <2>1, HeadTailProperties, EmptySeq
  <1>3. PICK q : q = w[1]
    OBVIOUS
  <1>4. /\ 1 \in 1 .. Len(results) /\ q \in Sent /\ Head(results) = res[q]
        /\ res[q] \in PageResult /\ Sent' = Sent /\ Started' = Started /\ Sent \subseteq Started
    <2>1. 1 \in 1 .. Len(results)
      BY <1>2
    <2>2. q \in Sent /\ Head(results) = res[q]
      BY <1>1, <1>2, <1>3, <2>1 DEF Ledger
    <2>3. Started' = Started
      BY DEF Started
    <2>4. Sent' = Sent /\ Sent \subseteq Started
      BY <2>3 DEF Sent
    <2>5. res[q] \in PageResult
      BY <2>2, <2>4 DEF Typed, TypeOK
    <2> QED BY <2>1, <2>2, <2>3, <2>4, <2>5
  <1>5. PICK v : v = [i \in 1 .. Len(results') |-> w[i + 1]]
    OBVIOUS
  <1>6. \A i \in 1 .. Len(results') : i + 1 \in 1 .. Len(results) /\ i + 1 # 1
    BY <1>2
  <1>7. v \in [1 .. Len(results') -> Sent]
    BY <1>5, <1>6
  <1>8. Taken(v)' = Taken(w) \cup {q} /\ q \notin Taken(w) /\ Taken(w) \subseteq Started
    <2>1. {w[i] : i \in 1 .. Len(results)} = {v[i] : i \in 1 .. Len(results')} \cup {q}
      <3>1. ASSUME NEW i \in 1 .. Len(results)
            PROVE  w[i] \in {v[k] : k \in 1 .. Len(results')} \cup {q}
        <4>1. CASE i = 1
          BY <1>3, <4>1
        <4>2. CASE i # 1
          <5>1. i - 1 \in 1 .. Len(results') /\ (i - 1) + 1 = i
            BY <1>2, <4>2
          <5>2. v[i - 1] = w[i]
            BY <1>5, <5>1
          <5> QED BY <5>1, <5>2
        <4> QED BY <4>1, <4>2
      <3> QED BY <1>3, <1>4, <1>5, <1>6, <3>1
    <2>2. q \notin {v[i] : i \in 1 .. Len(results')}
      <3>1. ASSUME NEW i \in 1 .. Len(results'), v[i] = q PROVE FALSE
        <4>1. w[i + 1] = w[1] /\ i + 1 \in 1 .. Len(results) /\ 1 \in 1 .. Len(results)
          BY <1>2, <1>3, <1>5, <1>6, <3>1
        <4>2. i + 1 = 1
          BY <1>1, <4>1 DEF Ledger
        <4> QED BY <1>6, <4>2
      <3> QED BY <3>1
    <2> QED BY <1>4, <2>1, <2>2 DEF Taken
  <1>9. /\ stats'.pages = stats.pages + 1
        /\ stats'.published = stats.published + res[q].published
        /\ stats'.failedPages = stats.failedPages + IF res[q].failed THEN 1 ELSE 0
        /\ stats.pages \in Nat /\ stats.published \in Nat /\ stats.failedPages \in Nat
        /\ res[q].published \in Nat
    BY <1>4 DEF Absorbed, Typed, TypeOK, Stats, PageResult
  <1>10. stats'.pages = Cardinality(Taken(w) \cup {q})
    <2>1. IsFiniteSet(Taken(w)) /\ Cardinality(Taken(w)) \in Nat
      BY <1>8, PagesFinite
    <2>2. Cardinality(Taken(w) \cup {q}) = Cardinality(Taken(w)) + 1
      BY <1>8, <2>1, FS_AddElement
    <2> QED BY <1>1, <1>9, <2>2 DEF Ledger
  <1>11. stats'.failedPages = Cardinality(Failed(Taken(w) \cup {q}))
    <2>0. Failed(Taken(w)) \subseteq Started /\ q \notin Failed(Taken(w))
      BY <1>8 DEF Failed
    <2>1. IsFiniteSet(Failed(Taken(w))) /\ Cardinality(Failed(Taken(w))) \in Nat
      BY <2>0, PagesFinite
    <2>2. stats.failedPages = Cardinality(Failed(Taken(w)))
      BY <1>1 DEF Ledger
    <2>3. CASE res[q].failed
      <3>1. Failed(Taken(w) \cup {q}) = Failed(Taken(w)) \cup {q}
        BY <2>3 DEF Failed
      <3>2. Cardinality(Failed(Taken(w)) \cup {q}) = Cardinality(Failed(Taken(w))) + 1
        BY <2>0, <2>1, FS_AddElement
      <3> QED BY <1>9, <2>2, <2>3, <3>1, <3>2
    <2>4. CASE ~ res[q].failed
      <3>1. Failed(Taken(w) \cup {q}) = Failed(Taken(w))
        BY <2>4 DEF Failed
      <3> QED BY <1>9, <2>2, <2>4, <3>1
    <2> QED BY <2>3, <2>4
  <1>12. stats'.published <= Cardinality(Credit(c, Taken(w) \cup {q}))
    <2>1. /\ Credit(c, Taken(w) \cup {q}) = Credit(c, Taken(w)) \cup Credit(c, {q})
          /\ Credit(c, Taken(w)) \cap Credit(c, {q}) = {}
      BY <1>8 DEF Credit
    <2>2. /\ IsFiniteSet(Credit(c, Taken(w))) /\ Cardinality(Credit(c, Taken(w))) \in Nat
          /\ IsFiniteSet(Credit(c, {q})) /\ Cardinality(Credit(c, {q})) \in Nat
      BY CreditFinite DEF LedgerInv
    <2>5. /\ stats.published <= Cardinality(Credit(c, Taken(w)))
          /\ res[q].published <= Cardinality(Credit(c, {q}))
      BY <1>1, <1>4 DEF Ledger
    <2>6. Cardinality(Credit(c, Taken(w) \cup {q})) =
             Cardinality(Credit(c, Taken(w))) + Cardinality(Credit(c, {q}))
      BY <2>1, <2>2, DisjointUnion
    <2> QED BY <1>9, <2>2, <2>5, <2>6
  <1>13. Ledger(c, v)'
    <2>1. \A i, j \in 1 .. Len(results') : v[i] = v[j] => i = j
      <3> SUFFICES ASSUME NEW i \in 1 .. Len(results'), NEW j \in 1 .. Len(results'), v[i] = v[j]
                   PROVE  i = j
        OBVIOUS
      <3>1. w[i + 1] = w[j + 1] /\ i + 1 \in 1 .. Len(results) /\ j + 1 \in 1 .. Len(results)
        BY <1>5, <1>6
      <3>2. i + 1 = j + 1
        BY <1>1, <3>1 DEF Ledger
      <3> QED BY <3>2
    <2>2. \A i \in 1 .. Len(results') : results'[i] = res'[v[i]]
      BY <1>1, <1>2, <1>5, <1>6 DEF Ledger
    <2>3. /\ Failed(Taken(v))' = Failed(Taken(w) \cup {q})
          /\ Credit(c, Taken(v))' = Credit(c, Taken(w) \cup {q})
      BY <1>8 DEF Credit, Failed
    <2>4. \A x \in Started' : res'[x].published <= Cardinality(Credit(c, {x})')
      <3>1. \A x : Credit(c, {x})' = Credit(c, {x})
        BY DEF Credit
      <3> QED BY <1>1, <1>4, <3>1 DEF Ledger
    <2> QED BY <1>8, <1>10, <1>11, <1>12, <2>1, <2>2, <2>3, <2>4 DEF Ledger
  <1>14. c \in [(seen \ Seen0)' -> Started'] /\ v \in [(1 .. Len(results))' -> Sent']
    BY <1>4, <1>7
  <1> QED BY <1>13, <1>14 DEF LedgerInv

LEMMA LoopLedger ==
    ASSUME Typed, LedgerInv, Loop \/ Cancel \/ UNCHANGED vars PROVE LedgerInv'
  <1>1. at \in [Started -> Steps] /\ nextPage \in Nat \ {0}
    BY DEF Typed, TypeOK
  <1>2. CASE SelectResult \/ Drain
    <2>1. /\ results # <<>> /\ results' = Tail(results) /\ stats' = Absorbed(Head(results))
          /\ UNCHANGED <<nextPage, at, res, seen>> /\ pc' # "acquire"
      BY <1>2 DEF SelectResult, Drain, LoopTo, goVars
    <2> QED BY <2>1, LedgerTakes
  <1>3. CASE NewPage
    <2>1. /\ UNCHANGED <<stats, results, seen>> /\ nextPage' = nextPage + 1
          /\ at'   = [p \in 1 .. nextPage |-> IF p = nextPage THEN "spawn" ELSE at[p]]
          /\ res'  = [p \in 1 .. nextPage |-> IF p = nextPage THEN NoResult ELSE res[p]]
      BY <1>3 DEF NewPage
    <2>2. Started' = Started \cup {nextPage} /\ nextPage \notin Started /\ Started' = 1 .. nextPage
      BY <1>1, <2>1 DEF Started
    <2>3. /\ \A p \in Started : at'[p] = at[p] /\ res'[p] = res[p]
          /\ at'[nextPage] = "spawn" /\ res'[nextPage] = NoResult
      BY <2>1, <2>2
    <2>4. Sent' = Sent /\ Sent \subseteq Started
      BY <2>2, <2>3 DEF Sent
    <2>5. at'[nextPage' - 1] = "spawn" /\ NoResult.published = 0
      BY <1>1, <2>1, <2>3 DEF NoResult
    <2> QED BY <2>1, <2>2, <2>3, <2>4, <2>5, LedgerKept
  <1>4. CASE Acquire
    <2>1. /\ UNCHANGED <<stats, results, seen, res>> /\ pc' # "acquire" /\ Started' = Started
          /\ at' = [at EXCEPT ![nextPage - 1] = "fetch"] /\ at[nextPage - 1] = "spawn"
      BY <1>4 DEF Acquire, LedgerInv, Started
    <2>2. Sent' = Sent /\ Sent \subseteq Started
      BY <1>1, <2>1 DEF Sent
    <2> QED BY <2>1, <2>2, LedgerKept
  <1>5. CASE /\ WaitFails \/ LimitReached \/ SelectDone \/ SelectDefault \/ RecordRun
                  \/ Cancel \/ UNCHANGED vars
    <2>1. /\ UNCHANGED <<stats, results, seen, res, at, nextPage>>
          /\ pc' = "acquire" => pc = "acquire"
      BY <1>5 DEF WaitFails, LimitReached, SelectDone, SelectDefault, RecordRun, LoopTo, Cancel,
         vars, loopVars, goVars
    <2>2. Started' = Started /\ Sent' = Sent
      BY <2>1 DEF Started, Sent
    <2>3. pc' = "acquire" => at'[nextPage' - 1] = "spawn"
      BY <2>1 DEF LedgerInv
    <2>4. Sent \subseteq Started
      BY DEF Sent
    <2> QED BY <2>1, <2>2, <2>3, <2>4, LedgerKept
  <1> QED BY <1>2, <1>3, <1>4, <1>5 DEF Loop

LEMMA GoroutineLedger ==
    ASSUME Typed, LedgerInv, NEW p \in Started, Goroutine(p) PROVE LedgerInv'
  <1>1. /\ at \in [Started -> Steps] /\ res \in [Started -> PageResult]
        /\ pc = "acquire" => nextPage - 1 \in Started /\ at[nextPage - 1] = "spawn"
    BY DEF Typed, TypeOK, LedgerInv, Started
  <1>2. UNCHANGED <<pc, nextPage, stats>> /\ Started' = Started /\ at[p] # "spawn"
    BY DEF Goroutine, FetchSince, FetchFails, Publish, PublishFails, PublishRetried, Send,
       Release, loopVars, Started
  <1>3. CASE Send(p)
    BY <1>3, LedgerSends
  <1>4. CASE Release(p)
    <2>1. at[p] = "release" /\ at' = [at EXCEPT ![p] = "done"] /\ UNCHANGED <<results, res, seen>>
      BY <1>4 DEF Release
    <2>2. Sent' = Sent /\ Sent \subseteq Started
      BY <1>1, <1>2, <2>1 DEF Sent
    <2>3. pc' = "acquire" => at'[nextPage' - 1] = "spawn"
      BY <1>1, <1>2, <2>1
    <2> QED BY <1>2, <2>1, <2>2, <2>3, LedgerKept
  <1>5. ASSUME NEW l \in {"publish", "send"}, at[p] \in {"fetch", "publish"},
               at' = [at EXCEPT ![p] = l]
        PROVE  /\ Sent' = Sent /\ Sent \subseteq Started /\ p \notin Sent
               /\ pc' = "acquire" => at'[nextPage' - 1] = "spawn"
               /\ pc = "acquire" => at'[nextPage - 1] = at[nextPage - 1]
    <2>1. Sent' = Sent /\ Sent \subseteq Started /\ p \notin Sent
      BY <1>1, <1>2, <1>5 DEF Sent
    <2>2. pc = "acquire" => at'[nextPage - 1] = at[nextPage - 1]
      BY <1>1, <1>2, <1>5
    <2> QED BY <1>1, <1>2, <2>1, <2>2
  <1>6. CASE FetchSince(p) \/ FetchFails(p)
    <2>1. /\ UNCHANGED <<results, seen>> /\ at[p] = "fetch"
          /\ \E l \in {"publish", "send"} : at' = [at EXCEPT ![p] = l]
          /\ \/ \E b : res' = [res EXCEPT ![p].empty = b]
             \/ res' = [res EXCEPT ![p].failed = TRUE]
      BY <1>6 DEF FetchSince, FetchFails
    <2>2. /\ Sent' = Sent /\ Sent \subseteq Started /\ p \notin Sent
          /\ pc' = "acquire" => at'[nextPage' - 1] = "spawn"
      BY <1>5, <2>1
    <2>3. \A q \in Started : q # p => res'[q] = res[q]
      BY <1>1, <2>1
    <2>4. res'[p].published = res[p].published
      BY <1>1, <2>1 DEF PageResult
    <2> QED BY <1>2, <2>1, <2>2, <2>3, <2>4, LedgerKept
  <1>7. CASE Publish(p) \/ PublishFails(p) \/ PublishRetried(p)
    <2>0. PICK a : a = Head(todo[p])
      OBVIOUS
    <2>1. /\ UNCHANGED results /\ at[p] = "publish"
          /\ \E l \in {"publish", "send"} : at' = [at EXCEPT ![p] = l]
          /\ seen' = seen \/ seen' = seen \cup {a}
          /\ \/ res' = res \/ res' = [res EXCEPT ![p].pubErrs = @ + 1]
             \/ res' = [res EXCEPT ![p].published = @ + 1] /\ a \notin seen /\ seen' = seen \cup {a}
      BY <1>7, <2>0 DEF Publish, PublishFails, PublishRetried, Published
    <2>2. /\ Sent' = Sent /\ Sent \subseteq Started /\ p \notin Sent
          /\ pc' = "acquire" => at'[nextPage' - 1] = "spawn"
          /\ pc = "acquire" => at'[nextPage - 1] = at[nextPage - 1]
      BY <1>5, <2>1
    <2>3. \A q \in Started \ {p} : res'[q] = res[q]
      BY <1>1, <2>1
    <2>4. \/ res'[p].published = res[p].published
          \/ /\ res'[p].published = res[p].published + 1 /\ a \notin seen
             /\ seen' = seen \cup {a}
      BY <1>1, <2>1 DEF PageResult
    <2>5. a \in Articles
      <3>1. todo[p] \in Seq(Articles) /\ todo[p] # <<>>
        BY <2>1 DEF Typed, TypeOK, HasWork
      <3> QED BY <2>0, <3>1, HeadTailProperties
    <2>6. CASE seen' = seen \cup {a}
      BY <1>2, <2>1, <2>2, <2>3, <2>4, <2>5, <2>6, LedgerAdds
    <2>7. CASE seen' = seen
      <3>1. res'[p].published = res[p].published
        BY <2>4, <2>7
      <3> QED BY <1>2, <2>1, <2>2, <2>3, <2>7, <3>1, LedgerKept
    <2> QED BY <2>1, <2>6, <2>7
  <1> QED BY <1>3, <1>4, <1>6, <1>7 DEF Goroutine

\* What is recorded is the whole run.
LEMMA RecordBeat == ASSUME Typed, LedgerInv, BeatInv, RecordRun PROVE BeatInv'
  <1>1. /\ pc = "drain" /\ pc' = "returned" /\ results = <<>> /\ \A p \in Started : at[p] = "done"
        /\ UNCHANGED <<nextPage, stats, at, res, seen>>
        /\ heartbeat' = Append(heartbeat, stats) \/ heartbeat' = heartbeat
    BY DEF RecordRun, Record, goVars
  <1>2. heartbeat = <<>> /\ Started' = Started /\ Finished'
    BY <1>1 DEF BeatInv, Finished, Started
  <1>3. CASE heartbeat' = heartbeat
    <2>1. Len(heartbeat') = 0
      BY <1>2, <1>3, EmptySeq
    <2> QED BY <1>2, <2>1 DEF BeatInv, HeartbeatSound
  <1>4. CASE heartbeat' = Append(heartbeat, stats)
    <2>1. Len(heartbeat') = 1 /\ heartbeat'[1] = stats
      <3>1. heartbeat \in Seq(Stats) /\ stats \in Stats /\ Len(heartbeat) = 0
        BY <1>2, EmptySeq DEF Typed, TypeOK
      <3> QED BY <1>4, <3>1, AppendProperties
    <2>2. PICK c \in [seen \ Seen0 -> Started], w \in [1 .. Len(results) -> Sent] : Ledger(c, w)
      BY DEF LedgerInv
    <2>3. Len(results) = 0
      BY <1>1, EmptySeq
    <2>4. Taken(w) = Started
      BY <1>1, <2>3 DEF Taken, Sent
    <2>5. stats.pages = nextPage - 1
      <3>1. stats.pages = Cardinality(Started)
        BY <2>2, <2>4 DEF Ledger
      <3>2. nextPage \in Nat \ {0}
        BY DEF Typed, TypeOK
      <3>3. Cardinality(1 .. (nextPage - 1)) =
               IF 1 > nextPage - 1 THEN 0 ELSE (nextPage - 1) - 1 + 1
        BY <3>2, FS_Interval
      <3> QED BY <3>1, <3>2, <3>3 DEF Started
    <2>6. stats.failedPages = Cardinality({p \in Started : res[p].failed})
      BY <2>2, <2>4 DEF Ledger, Failed
    <2>7. stats.published <= Cardinality(seen \ Seen0)
      <3>1. Credit(c, Started) = seen \ Seen0
        BY <2>2 DEF Credit
      <3> QED BY <2>2, <2>4, <3>1 DEF Ledger
    <2> QED BY <1>1, <1>2, <2>1, <2>5, <2>6, <2>7 DEF BeatInv, HeartbeatSound
  <1> QED BY <1>1, <1>3, <1>4

LEMMA NextBeat == ASSUME Typed, LedgerInv, BeatInv, [Next]_vars PROVE BeatInv'
  <1>1. CASE RecordRun
    BY <1>1, RecordBeat
  <1>2. CASE ~ RecordRun /\ heartbeat = <<>>
    <2>1. heartbeat' = heartbeat
      BY <1>2 DEF Next, Loop, WaitFails, LimitReached, NewPage, Acquire, SelectResult, SelectDone,
         SelectDefault, Drain, Goroutine, FetchSince, FetchFails, Publish, PublishFails,
         PublishRetried, Send, Release, Cancel, Terminated, vars
    <2>2. Len(heartbeat') = 0
      BY <1>2, <2>1, EmptySeq
    <2> QED BY <1>2, <2>1, <2>2 DEF BeatInv, HeartbeatSound
  <1>3. CASE ~ RecordRun /\ heartbeat # <<>>
    <2>1. UNCHANGED vars
      <3>1. pc = "returned" /\ \A p \in Started : at[p] = "done"
        BY <1>3 DEF BeatInv, Finished
      <3> QED BY <1>3, <3>1 DEF Next, Loop, WaitFails, LimitReached, NewPage, Acquire,
              SelectResult, SelectDone, SelectDefault, Drain, Goroutine, FetchSince, FetchFails,
              Publish, PublishFails, PublishRetried, Send, Release, Cancel, Terminated
    <2> QED BY <2>1 DEF BeatInv, HeartbeatSound, Finished, Started, vars, loopVars, goVars
  <1> QED BY <1>1, <1>2, <1>3

\* RecordRun: for every schedule, listing, failure and interruption, a
\* heartbeat is recorded at most once and tells of all pages started and all
\* that failed, and never more published articles than this run added.
THEOREM HeartbeatHolds == Spec => []HeartbeatSound
  <1>1. Init => Typed /\ LedgerInv /\ BeatInv
    <2> SUFFICES ASSUME Init PROVE LedgerInv /\ BeatInv
      BY InitTyped
    <2>1. /\ Started = {} /\ Sent = {} /\ seen = Seen0 /\ seen \ Seen0 = {} /\ pc = "wait"
          /\ Len(results) = 0 /\ Len(heartbeat) = 0 /\ heartbeat = <<>>
          /\ stats.pages = 0 /\ stats.published = 0 /\ stats.failedPages = 0
      BY EmptySeq DEF Init, Started, Sent
    <2>2. 1 .. 0 = {} /\ <<>> \in [1 .. 0 -> {}]
      BY EmptyFunction
    <2>3. Taken(<<>>) = {} /\ Failed({}) = {} /\ Credit(<<>>, {}) = {}
      BY <2>1 DEF Taken, Failed, Credit
    <2>4. Cardinality({}) = 0 /\ IsFiniteSet({})
      BY FS_EmptySet
    <2>5. Ledger(<<>>, <<>>)
      <3>1. \A i \in 1 .. Len(results) : FALSE
        BY <2>1
      <3>2. /\ stats.pages = Cardinality(Taken(<<>>))
            /\ stats.failedPages = Cardinality(Failed(Taken(<<>>)))
            /\ stats.published = Cardinality(Credit(<<>>, Taken(<<>>)))
        BY <2>1, <2>3, <2>4, Zenon
      <3>3. stats.published <= Cardinality(Credit(<<>>, Taken(<<>>)))
        BY <2>1, <3>2
      <3> QED BY <2>1, <3>1, <3>2, <3>3 DEF Ledger
    <2>6. LedgerInv
      <3>1. <<>> \in [seen \ Seen0 -> Started] /\ <<>> \in [1 .. Len(results) -> Sent]
        BY <2>1, <2>2
      <3> QED BY <2>1, <2>4, <2>5, <3>1 DEF LedgerInv
    <2> QED BY <2>1, <2>6 DEF BeatInv, HeartbeatSound
  <1>2. Typed /\ LedgerInv /\ BeatInv /\ [Next]_vars => (Typed /\ LedgerInv /\ BeatInv)'
    <2> SUFFICES ASSUME Typed, LedgerInv, BeatInv, [Next]_vars PROVE LedgerInv'
      BY NextTyped, NextBeat
    <2> QED BY LoopLedger, GoroutineLedger DEF Next, Terminated
  <1>3. BeatInv => HeartbeatSound
    BY DEF BeatInv
  <1> QED BY <1>1, <1>2, <1>3, PTL DEF Spec
=============================================================================
