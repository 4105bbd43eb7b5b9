---------------------------- MODULE ToolsProofs ----------------------------
(***************************************************************************)
(* The promises of the tools composed in module Tools, whatever the others *)
(* do: dlq_replay, for any number of parked articles, any batch and        *)
(* options and wherever it dies; the backup loop, for any numbers of dumps *)
(* kept; the vector pipeline, for any articles and batch sizes, whichever  *)
(* batches the API refuses and wherever a tool is killed; the monitor's    *)
(* deltas, for any sources.                                                *)
(*                                                                         *)
(* That no parked article is dropped rests on the order of XADD and XDEL:  *)
(* at an XDEL the article has gone on, and an article parked again         *)
(* meanwhile has a new id.  That a loop reaches everything is a matter of  *)
(* counting: the entries parked when it began are older than all later     *)
(* ones, so every round reads PerRound of them or the rest.                *)
(*                                                                         *)
(* The pipeline's cursors are safe because each is an id below which       *)
(* everything has been dealt with: the state file's by the corpus, and     *)
(* MAX(article_id) of the table by the table itself, as far as chunks were *)
(* not given up.                                                           *)
(***************************************************************************)
EXTENDS Tools, FiniteSetTheorems, SequenceTheorems, NaturalsInduction, TLAPS

ReplaySteps == {"stopped", "xrange", "xadd", "xdel", "xlen", "done"}
ReplayMode == [loop: BOOLEAN, delete: BOOLEAN, dry: BOOLEAN]

\* Entries of the dead-letter stream have ids given out so far, each its own.
\* Those of a round may have been trimmed since.
ReplayTypeInv ==
    /\ parks \in Nat /\ crashes \in Nat /\ replayed \in Nat
    /\ stream \in Seq(Replay!Articles)
    /\ dlq \subseteq [id: 1 .. Parked + parks, article: Replay!Articles] /\ IsFiniteSet(dlq)
    /\ left \subseteq [id: 1 .. Parked + parks, article: Replay!Articles]
    /\ \A e, f \in dlq \cup left : e.id = f.id => e = f
    /\ mode \in ReplayMode /\ pc \in ReplaySteps
    /\ (pc \in {"xadd", "xdel"}) = (left # {})
    /\ round \in 1 .. MaxRounds

\* An entry about to be deleted is not the only trace of its article.
Passed ==
    pc = "xdel" =>
       \/ Replay!OnStream(Replay!First.article)
       \/ Replay!First.article \in settled \cup gone
       \/ \E e \in dlq : e.id # Replay!First.id /\ e.article = Replay!First.article

DropInv == Replay!NothingDropped /\ Passed
-----------------------------------------------------------------------------
LEMMA ReplayConstants == Parked \in Nat /\ PerRound \in Nat /\ MaxRounds \in Nat \ {0}
  BY ToolsAssumption DEF Replay!ReplayAssumption

\* The Cardinality that DlqReplay takes from FiniteSets is the one taken here.
LEMMA SameCardinality == \A S : Replay!Cardinality(S) = Cardinality(S)
  BY DEF Replay!Cardinality, Cardinality, Replay!IsFiniteSet, IsFiniteSet

\* A step of the tools is one of dlq_replay or leaves its variables alone.
LEMMA ReplayStep ==
    ASSUME [Next]_vars PROVE [Replay!Next]_(Replay!replayVars)
  <1> USE DEF replayVars, Replay!replayVars, Replay!toolVars
  <1>1. CASE UNCHANGED vars
    BY <1>1 DEF vars
  <1> QED BY <1>1 DEF Next

\* A set of numbers has a least one.
LEMMA LeastNumber ==
    ASSUME NEW T, T \subseteq Nat, T # {} PROVE \E x \in T : \A y \in T : x <= y
  <1> DEFINE R == OpToRel(<, Nat)
  <1>1. PICK x \in T : \A y \in T : ~ (<<y, x>> \in R)
    BY NatLessThanWellFounded, WFMin
  <1>2. \A y \in T : ~ (y < x)
    BY <1>1 DEF OpToRel
  <1> QED BY <1>2

\* The entry of the round whose turn it is.
LEMMA FirstOfLeft ==
    ASSUME ReplayTypeInv, left # {}
    PROVE  /\ Replay!First \in left /\ Replay!First.id \in Nat
           /\ Replay!First.id <= Parked + parks /\ Replay!First.article \in Replay!Articles
  <1>1. \A e \in left : e.id \in Nat
    BY ReplayConstants DEF ReplayTypeInv
  <1>2. PICK i \in {e.id : e \in left} : \A j \in {e.id : e \in left} : i <= j
    BY <1>1, LeastNumber
  <1>3. \E e \in left : \A f \in left : e.id <= f.id
    BY <1>2
  <1>4. Replay!First \in left
    BY <1>3 DEF Replay!First
  <1> QED BY <1>1, <1>4, ReplayConstants DEF ReplayTypeInv

\* The next entry of the round, or its end.
LEMMA FollowingTyped ==
    ASSUME ReplayTypeInv, left # {}, Replay!Following
    PROVE  /\ left' \subseteq left /\ Replay!First \notin left'
           /\ pc' \in {"xadd", "xlen"} /\ (pc' = "xadd") = (left' # {})
  BY DEF Replay!Following

LEMMA ReplayInit == ASSUME Replay!Init PROVE ReplayTypeInv
  <1>1. IsFiniteSet(Replay!Articles)
    BY ReplayConstants, FS_Interval DEF Replay!Articles
  <1>2. IsFiniteSet(dlq)
    <2> DEFINE entry == [i \in Replay!Articles |-> [id |-> i, article |-> i]]
    <2>1. entry \in Surjection(Replay!Articles, dlq)
      BY DEF Replay!Init, Surjection
    <2> HIDE DEF entry
    <2> QED BY <1>1, <2>1, FS_Surjection
  <1>3. stream \in Seq(Replay!Articles)
    BY EmptySeq DEF Replay!Init
  <1>4. \A e \in dlq : e \in [id: 1 .. Parked + parks, article: Replay!Articles] /\ e.article = e.id
    BY ReplayConstants DEF Replay!Init, Replay!Articles
  <1> QED BY <1>2, <1>3, <1>4, ReplayConstants DEF Replay!Init, ReplayTypeInv, ReplayMode, ReplaySteps, Replay!Articles

\* The steps of the processor and of its streams.
LEMMA ConsumerStep ==
    Replay!Consumer => Replay!Settle \/ Replay!ParkAgain \/ Replay!ParkAnother \/ Replay!Vanish
  BY DEF Replay!Consumer, Replay!ParkFails, Replay!SkipCut, Replay!TrimStream

LEMMA XAddTyped == ASSUME ReplayTypeInv, Replay!XAdd PROVE ReplayTypeInv'
  <1>1. left # {} /\ Replay!First.article \in Replay!Articles
    BY FirstOfLeft DEF Replay!XAdd, ReplayTypeInv
  <1>2. stream' \in Seq(Replay!Articles)
    BY <1>1, AppendProperties DEF Replay!XAdd, ReplayTypeInv
  <1>3. left' \subseteq left /\ pc' \in ReplaySteps /\ (pc' \in {"xadd", "xdel"}) = (left' # {})
    BY <1>1, FollowingTyped DEF Replay!XAdd, ReplaySteps
  <1> QED BY <1>2, <1>3 DEF Replay!XAdd, ReplayTypeInv

LEMMA XDelTyped == ASSUME ReplayTypeInv, Replay!XDel PROVE ReplayTypeInv'
  <1>1. left # {} /\ Replay!First \in left
    BY FirstOfLeft DEF Replay!XDel, ReplayTypeInv
  <1>2. left' \subseteq left /\ Replay!First \notin left' /\ pc' \in {"xadd", "xlen"} /\ (pc' = "xadd") = (left' # {})
    BY <1>1, FollowingTyped DEF Replay!XDel
  <1>3. dlq' \subseteq dlq
    BY DEF Replay!XDel
  <1>4. IsFiniteSet(dlq')
    BY <1>3, FS_Subset DEF ReplayTypeInv
  <1> QED BY <1>2, <1>3, <1>4 DEF Replay!XDel, ReplayTypeInv, ReplaySteps

LEMMA ParkAgainTyped == ASSUME ReplayTypeInv, Replay!ParkAgain PROVE ReplayTypeInv'
  <1> DEFINE new == [id |-> Parked + parks + 1, article |-> Head(stream)]
  <1>1. Head(stream) \in Replay!Articles /\ stream' \in Seq(Replay!Articles)
    BY HeadTailProperties DEF Replay!ParkAgain, ReplayTypeInv
  <1>2. new \in [id: 1 .. Parked + parks', article: Replay!Articles] /\ parks' \in Nat
    BY <1>1, ReplayConstants DEF Replay!ParkAgain, ReplayTypeInv
  <1>3. \A e \in dlq \cup left :
           e \in [id: 1 .. Parked + parks', article: Replay!Articles] /\ e.id # new.id
    BY ReplayConstants DEF Replay!ParkAgain, ReplayTypeInv
  <1>4. PICK T \in SUBSET dlq : dlq' = T \cup {new}
    BY DEF Replay!ParkAgain, Replay!Trims, Replay!Trimmed
  <1>5. IsFiniteSet(dlq')
    <2>1. IsFiniteSet(T)
      BY FS_Subset DEF ReplayTypeInv
    <2> QED BY <1>4, <2>1, FS_AddElement
  <1> HIDE DEF new
  <1>6. left' = left /\ \A e, f \in dlq' \cup left : e.id = f.id => e = f
    BY <1>3, <1>4 DEF ReplayTypeInv, Replay!ParkAgain, Replay!toolVars
  <1>7. /\ dlq' \subseteq [id: 1 .. Parked + parks', article: Replay!Articles]
        /\ left \subseteq [id: 1 .. Parked + parks', article: Replay!Articles]
    BY <1>2, <1>3, <1>4
  <1> QED BY <1>1, <1>2, <1>5, <1>6, <1>7 DEF Replay!ParkAgain, Replay!toolVars, ReplayTypeInv

LEMMA ParkAnotherTyped == ASSUME ReplayTypeInv, Replay!ParkAnother PROVE ReplayTypeInv'
  <1>1. dlq' \subseteq dlq
    BY DEF Replay!ParkAnother, Replay!Trims, Replay!Trimmed
  <1>2. IsFiniteSet(dlq')
    BY <1>1, FS_Subset DEF ReplayTypeInv
  <1> QED BY <1>1, <1>2 DEF Replay!ParkAnother, Replay!toolVars, ReplayTypeInv

LEMMA ReplayTyped == ASSUME ReplayTypeInv, [Replay!Next]_(Replay!replayVars) PROVE ReplayTypeInv'
  <1>1. CASE Replay!Run
    BY <1>1, ReplayConstants DEF Replay!Run, ReplayTypeInv, ReplayMode, ReplaySteps
  <1>2. CASE Replay!XRange
    <2>1. left' \subseteq dlq
      BY <1>2 DEF Replay!XRange, Replay!Oldest
    <2>2. \A e, f \in dlq' \cup left' : e.id = f.id => e = f
      BY <1>2, <2>1 DEF Replay!XRange, ReplayTypeInv
    <2> QED BY <1>2, <2>1, <2>2 DEF Replay!XRange, ReplayTypeInv, ReplaySteps
  <1>3. CASE Replay!EndRound
    BY <1>3, ReplayConstants DEF Replay!EndRound, Replay!Again, ReplayTypeInv, ReplaySteps
  <1>4. CASE Replay!Crash
    BY <1>4 DEF Replay!Crash, ReplayTypeInv, ReplaySteps
  <1>5. CASE Replay!Settle \/ Replay!Vanish
    <2>0. stream # <<>> /\ stream' = Tail(stream) /\ stream \in Seq(Replay!Articles)
      BY <1>5 DEF Replay!Settle, Replay!Vanish, ReplayTypeInv
    <2>1. stream' \in Seq(Replay!Articles)
      BY <2>0, HeadTailProperties
    <2> QED BY <1>5, <2>1 DEF Replay!Settle, Replay!Vanish, Replay!toolVars, ReplayTypeInv
  <1>6. CASE UNCHANGED Replay!replayVars
    BY <1>6 DEF Replay!replayVars, Replay!toolVars, ReplayTypeInv
  <1> QED BY <1>1, <1>2, <1>3, <1>4, <1>5, <1>6, XAddTyped, XDelTyped, ParkAgainTyped,
             ParkAnotherTyped, ConsumerStep
          DEF Replay!Next, Replay!Tool
-----------------------------------------------------------------------------
(***************************************************************************)
(* Nothing is dropped.                                                     *)
(***************************************************************************)
\* What Settle, ParkAgain and Vanish leave of the article stream.
LEMMA Consumed ==
    ASSUME ReplayTypeInv, stream # <<>>, stream' = Tail(stream), NEW a, Replay!OnStream(a)
    PROVE  a = Head(stream) \/ Replay!OnStream(a)'
  <1>1. PICK i \in 1 .. Len(stream) : stream[i] = a
    BY DEF Replay!OnStream
  <1>2. /\ Head(stream) = stream[1] /\ Len(stream') = Len(stream) - 1 /\ Len(stream) \in Nat
        /\ \A k \in 1 .. Len(stream') : stream'[k] = stream[k + 1]
    BY HeadTailProperties DEF ReplayTypeInv
  <1>3. CASE i = 1
    BY <1>1, <1>2, <1>3
  <1>4. CASE i # 1
    <2>1. i - 1 \in 1 .. Len(stream') /\ (i - 1) + 1 = i
      BY <1>2, <1>4
    <2>2. stream'[i - 1] = a
      BY <1>1, <1>2, <2>1
    <2> QED BY <2>1, <2>2 DEF Replay!OnStream
  <1> QED BY <1>3, <1>4

LEMMA XAddDrops == ASSUME ReplayTypeInv, DropInv, Replay!XAdd PROVE DropInv'
  <1>1. Replay!First \in left /\ Replay!First.article \in Replay!Articles
    BY FirstOfLeft DEF Replay!XAdd, ReplayTypeInv
  <1>2. /\ Len(stream') = Len(stream) + 1 /\ Len(stream) \in Nat
        /\ \A k \in 1 .. Len(stream) : stream'[k] = stream[k]
        /\ stream'[Len(stream) + 1] = Replay!First.article
    BY <1>1, AppendProperties DEF Replay!XAdd, ReplayTypeInv
  <1>3. \A a : Replay!OnStream(a) => Replay!OnStream(a)'
    BY <1>2 DEF Replay!OnStream
  <1>4. \E i \in 1 .. Len(stream') : stream'[i] = Replay!First.article
    BY <1>2
  <1>5. Replay!NothingDropped'
    BY <1>3 DEF Replay!XAdd, DropInv, Replay!NothingDropped, Replay!OnDlq
  <1>6. CASE mode.delete
    <2>1. Replay!First' = Replay!First
      BY <1>6 DEF Replay!XAdd, Replay!First
    <2> QED BY <1>4, <1>5, <2>1 DEF DropInv, Passed, Replay!OnStream
  <1>7. CASE ~ mode.delete
    BY <1>5, <1>7 DEF Replay!XAdd, Replay!Following, DropInv, Passed
  <1> QED BY <1>6, <1>7

LEMMA XDelDrops == ASSUME ReplayTypeInv, DropInv, Replay!XDel PROVE DropInv'
  <1>1. Replay!First \in left /\ pc' # "xdel"
    BY FirstOfLeft DEF Replay!XDel, Replay!Following, ReplayTypeInv
  <1>2. \A e \in dlq : e \in dlq' \/ e = Replay!First
    BY <1>1 DEF Replay!XDel, ReplayTypeInv
  <1>3. \A a : Replay!OnStream(a) => Replay!OnStream(a)'
    BY DEF Replay!XDel, Replay!OnStream
  <1>4. \/ \E d \in dlq' : d.article = Replay!First.article
        \/ Replay!OnStream(Replay!First.article)
        \/ Replay!First.article \in settled \cup gone
    <2>1. ASSUME NEW e \in dlq, e.id # Replay!First.id, e.article = Replay!First.article
          PROVE  \E d \in dlq' : d.article = Replay!First.article
      BY <2>1 DEF Replay!XDel
    <2> QED BY <2>1 DEF Replay!XDel, DropInv, Passed
  <1>5. ASSUME NEW a \in Replay!Articles
        PROVE  Replay!OnDlq(a)' \/ Replay!OnStream(a)' \/ a \in settled' \/ a \in gone'
    <2>1. CASE a = Replay!First.article
      BY <1>3, <1>4, <2>1 DEF Replay!XDel, Replay!OnDlq
    <2>2. CASE a # Replay!First.article
      BY <1>2, <1>3, <2>2 DEF Replay!XDel, DropInv, Replay!NothingDropped, Replay!OnDlq
    <2> QED BY <2>1, <2>2
  <1> QED BY <1>1, <1>5 DEF DropInv, Passed, Replay!NothingDropped

LEMMA SettleDrops ==
    ASSUME ReplayTypeInv, DropInv, Replay!Settle \/ Replay!Vanish PROVE DropInv'
  <1>1. \A a : Replay!OnStream(a) => Replay!OnStream(a)' \/ a \in settled' \cup gone'
    BY Consumed DEF Replay!Settle, Replay!Vanish
  <1>2. Replay!First' = Replay!First
    BY DEF Replay!Settle, Replay!Vanish, Replay!toolVars, Replay!First
  <1>3. settled \subseteq settled' /\ gone \subseteq gone' /\ dlq' = dlq /\ pc' = pc
    BY DEF Replay!Settle, Replay!Vanish, Replay!toolVars
  <1>4. Replay!NothingDropped'
    BY <1>1, <1>3 DEF DropInv, Replay!NothingDropped, Replay!OnDlq
  <1>5. Passed'
    BY <1>1, <1>2, <1>3 DEF DropInv, Passed
  <1> QED BY <1>4, <1>5 DEF DropInv

LEMMA ParkAgainDrops == ASSUME ReplayTypeInv, DropInv, Replay!ParkAgain PROVE DropInv'
  <1> DEFINE new == [id |-> Parked + parks + 1, article |-> Head(stream)]
  <1>1. /\ new \in dlq' /\ settled' = settled /\ gone \subseteq gone' /\ pc' = pc /\ left' = left
        /\ \A e \in dlq : e \in dlq' \/ e.article \in gone'
    BY DEF Replay!ParkAgain, Replay!Trims, Replay!Trimmed, Replay!toolVars
  <1>2. Replay!First' = Replay!First
    BY <1>1 DEF Replay!First
  <1>3. \A a : Replay!OnStream(a) => Replay!OnStream(a)' \/ a = new.article
    BY Consumed DEF Replay!ParkAgain
  <1>4. pc = "xdel" => new.id # Replay!First.id
    <2>1. pc = "xdel" => Replay!First.id \in Nat /\ Replay!First.id <= Parked + parks
      BY FirstOfLeft DEF ReplayTypeInv
    <2> QED BY <2>1, ReplayConstants DEF ReplayTypeInv
  <1> HIDE DEF new
  <1>5. Replay!NothingDropped'
    BY <1>1, <1>3 DEF DropInv, Replay!NothingDropped, Replay!OnDlq
  <1>6. Passed'
    BY <1>1, <1>2, <1>3, <1>4 DEF DropInv, Passed
  <1> QED BY <1>5, <1>6 DEF DropInv

LEMMA ParkAnotherDrops == ASSUME ReplayTypeInv, DropInv, Replay!ParkAnother PROVE DropInv'
  <1>1. /\ UNCHANGED <<stream, settled, pc, left>> /\ gone \subseteq gone'
        /\ \A e \in dlq : e \in dlq' \/ e.article \in gone'
    BY DEF Replay!ParkAnother, Replay!Trims, Replay!Trimmed, Replay!toolVars
  <1>2. Replay!First' = Replay!First
    BY <1>1 DEF Replay!First
  <1>3. \A a : Replay!OnStream(a)' = Replay!OnStream(a)
    BY <1>1 DEF Replay!OnStream
  <1>4. Replay!NothingDropped'
    BY <1>1, <1>3 DEF DropInv, Replay!NothingDropped, Replay!OnDlq
  <1>5. Passed'
    BY <1>1, <1>2, <1>3 DEF DropInv, Passed
  <1> QED BY <1>4, <1>5 DEF DropInv

LEMMA NextDropInv ==
    ASSUME ReplayTypeInv, DropInv, [Replay!Next]_(Replay!replayVars) PROVE DropInv'
  <1>1. CASE Replay!Run \/ Replay!XRange \/ Replay!EndRound \/ Replay!Crash
    <2>1. /\ pc' # "xdel" /\ dlq' = dlq /\ stream' = stream /\ settled' = settled /\ gone' = gone
      BY <1>1 DEF Replay!Run, Replay!XRange, Replay!EndRound, Replay!Crash
    <2> QED BY <2>1 DEF DropInv, Passed, Replay!NothingDropped, Replay!OnDlq, Replay!OnStream
  <1>2. CASE UNCHANGED Replay!replayVars
    BY <1>2 DEF Replay!replayVars, Replay!toolVars, DropInv, Passed, Replay!NothingDropped, Replay!OnDlq, Replay!OnStream, Replay!First
  <1> QED BY <1>1, <1>2, XAddDrops, XDelDrops, SettleDrops, ParkAgainDrops,
             ParkAnotherDrops, ConsumerStep
          DEF Replay!Next, Replay!Tool

\* replay_round, XADD before XDEL: wherever the tool dies, with any options and
\* any number of runs, a parked article is on the dead-letter stream, on the
\* article stream or dealt with, unless a MAXLEN trim took it or the processor
\* lost it.
THEOREM ReplayDropsNothing == Spec => []NothingDropped
  <1>1. Init => ReplayTypeInv /\ DropInv
    <2>1. Replay!Init => DropInv
      <3> SUFFICES ASSUME Replay!Init PROVE DropInv
        OBVIOUS
      <3>1. ASSUME NEW a \in Replay!Articles PROVE Replay!OnDlq(a)
        <4>1. [id |-> a, article |-> a] \in dlq
          BY DEF Replay!Init
        <4> QED BY <4>1 DEF Replay!OnDlq
      <3> QED BY <3>1 DEF Replay!Init, DropInv, Replay!NothingDropped, Passed
    <2> QED BY <2>1, ReplayInit DEF Init
  <1>2. ReplayTypeInv /\ DropInv /\ [Next]_vars => (ReplayTypeInv /\ DropInv)'
    BY ReplayStep, ReplayTyped, NextDropInv
  <1>3. DropInv => NothingDropped
    BY DEF DropInv, NothingDropped
  <1> QED BY <1>1, <1>2, <1>3, PTL DEF Spec
-----------------------------------------------------------------------------
(***************************************************************************)
(* A loop with --delete reaches everything.                                *)
(***************************************************************************)
\* The entries that were parked at first.
Old == {e \in dlq : e.id <= Parked}

Draining == mode.loop /\ mode.delete /\ ~ mode.dry

\* What n rounds leave of them.
Behind(S, n) ==
    S = {} \/ (Cardinality(S) + n * PerRound <= Parked /\ (n > 0 => PerRound # 0))

\* Enough rounds.
Enough == PerRound = 0 \/ MaxRounds * PerRound >= Parked

LoopInv ==
    /\ \A i \in 1 .. Parked : i \in ever \cup gone \/ \E e \in dlq : e.id = i
    /\ \A e \in dlq : e.id <= Parked => e.article = e.id
    /\ pc = "xdel" => Replay!First.id \in ever /\ replayed # 0
    /\ Draining =>
         /\ pc = "xrange" => Behind(Old, round - 1)
         /\ pc \in {"xadd", "xdel", "xlen"} => Behind(Old \ left, round)
         /\ pc = "xlen" /\ replayed = 0 => Old = {}
         /\ pc = "done" /\ Enough => Old = {}

LEMMA OldBound ==
    ASSUME ReplayTypeInv
    PROVE  IsFiniteSet(Old) /\ Cardinality(Old) \in Nat /\ Cardinality(Old) <= Parked
  <1>1. IsFiniteSet(Old)
    BY FS_Subset DEF ReplayTypeInv, Old
  <1>2. IsFiniteSet(1 .. Parked) /\ Cardinality(1 .. Parked) = Parked
    BY ReplayConstants, FS_Interval
  <1> DEFINE idOf == [e \in Old |-> e.id]
  <1>3. idOf \in Injection(Old, 1 .. Parked)
    <2>1. \A e \in Old : e.id \in 1 .. Parked
      BY ReplayConstants DEF ReplayTypeInv, Old
    <2>2. \A e, f \in Old : e.id = f.id => e = f
      BY DEF ReplayTypeInv, Old
    <2> QED BY <2>1, <2>2 DEF Injection, IsInjective
  <1> HIDE DEF idOf
  <1>4. Cardinality(Old) <= Cardinality(1 .. Parked)
    BY <1>2, <1>3, FS_Injection
  <1> QED BY <1>1, <1>2, <1>4, FS_CardinalityType

\* A non-empty set of entries has an oldest one.
LEMMA OldestEntry ==
    ASSUME ReplayTypeInv, NEW S, S \subseteq dlq, S # {}
    PROVE  \E e \in S : \A f \in S : ~ (f.id < e.id)
  <1>1. \A e \in S : e.id \in Nat
    BY ReplayConstants DEF ReplayTypeInv
  <1>2. PICK i \in {e.id : e \in S} : \A j \in {e.id : e \in S} : i <= j
    BY <1>1, LeastNumber
  <1>3. PICK e \in S : e.id = i
    BY <1>2
  <1>4. ASSUME NEW f \in S PROVE ~ (f.id < e.id)
    <2>1. i <= f.id
      BY <1>2
    <2> QED BY <1>1, <1>3, <2>1
  <1> QED BY <1>4

\* A round that reads nothing finds nothing.
LEMMA NothingRead == ASSUME ReplayTypeInv, Replay!Oldest = {} PROVE dlq = {}
  <1> SUFFICES ASSUME dlq # {} PROVE FALSE
    OBVIOUS
  <1>1. PICK e \in dlq : \A f \in dlq : ~ (f.id < e.id)
    BY OldestEntry
  <1>2. {f \in dlq : f.id < e.id} = {}
    BY <1>1
  <1>3. Cardinality({f \in dlq : f.id < e.id}) = 0
    BY <1>2, FS_EmptySet
  <1>4. PerRound = 0 \/ Cardinality({f \in dlq : f.id < e.id}) < PerRound
    BY <1>3, ReplayConstants
  <1> QED BY <1>4, SameCardinality DEF Replay!Oldest

\* A round reads PerRound of the entries parked at first, or all that are left.
LEMMA RoundReads ==
    ASSUME ReplayTypeInv, NEW n \in Nat, Behind(Old, n)
    PROVE  Behind(Old \ Replay!Oldest, n + 1)
  <1> SUFFICES ASSUME Old \ Replay!Oldest # {} PROVE Behind(Old \ Replay!Oldest, n + 1)
    BY DEF Behind
  <1>1. PICK e \in Old \ Replay!Oldest : \A f \in Old \ Replay!Oldest : ~ (f.id < e.id)
    BY OldestEntry DEF Old
  <1> DEFINE L == {f \in dlq : f.id < e.id}
  <1>2. PerRound # 0 /\ ~ (Cardinality(L) < PerRound)
    BY <1>1, SameCardinality DEF Replay!Oldest, Old
  <1>3. L \subseteq Old /\ L \cap (Old \ Replay!Oldest) = {}
    BY <1>1, ReplayConstants DEF ReplayTypeInv, Old
  <1> HIDE DEF L
  <1>4. IsFiniteSet(L) /\ IsFiniteSet(Old \ Replay!Oldest) /\ L \cup (Old \ Replay!Oldest) \subseteq Old
    BY <1>3, OldBound, FS_Subset
  <1>5. PICK x \in Nat, y \in Nat : x = Cardinality(L) /\ y = Cardinality(Old \ Replay!Oldest)
    BY <1>4, FS_CardinalityType
  <1>6. Cardinality(L \cup (Old \ Replay!Oldest)) = x + y
    <2>1. Cardinality(L \cup (Old \ Replay!Oldest)) = x + y - Cardinality(L \cap (Old \ Replay!Oldest))
      BY <1>4, <1>5, FS_Union
    <2>2. Cardinality(L \cap (Old \ Replay!Oldest)) = 0
      BY <1>3, FS_EmptySet
    <2> QED BY <2>1, <2>2
  <1>7. x + y <= Cardinality(Old)
    BY <1>4, <1>6, OldBound, FS_Subset
  <1>8. Cardinality(Old) + n * PerRound <= Parked
    BY DEF Behind
  <1>9. PICK m \in Nat : m = n * PerRound /\ (n + 1) * PerRound = m + PerRound
    BY ReplayConstants
  <1>10. y + (n + 1) * PerRound <= Parked
    BY <1>2, <1>5, <1>7, <1>8, <1>9, OldBound, ReplayConstants
  <1> QED BY <1>2, <1>5, <1>10 DEF Behind

\* Less is left of a part of them.
LEMMA BehindLess ==
    ASSUME ReplayTypeInv, NEW n \in Nat, NEW S \in SUBSET Old, NEW T \in SUBSET S, Behind(S, n)
    PROVE  Behind(T, n)
  <1>1. IsFiniteSet(S) /\ IsFiniteSet(T) /\ Cardinality(S) \in Nat /\ Cardinality(T) \in Nat
    BY OldBound, FS_Subset, FS_CardinalityType
  <1>2. Cardinality(T) <= Cardinality(S)
    BY <1>1, FS_Subset
  <1>3. PICK m \in Nat : m = n * PerRound
    BY ReplayConstants
  <1> QED BY <1>1, <1>2, <1>3, ReplayConstants DEF Behind

LEMMA XRangeLoops == ASSUME ReplayTypeInv, LoopInv, Replay!XRange PROVE LoopInv'
  <1>1. pc = "xrange" /\ UNCHANGED <<dlq, ever, gone, mode, round>> /\ replayed' = 0 /\ pc' \in {"xadd", "xlen"}
    BY DEF Replay!XRange
  <1>2. Old' = Old /\ Draining' = Draining
    BY <1>1 DEF Old, Draining
  <1>3. ASSUME Draining PROVE Behind(Old \ Replay!Oldest, round) /\ left' = Replay!Oldest
    <2>1. Behind(Old, round - 1) /\ round - 1 \in Nat /\ (round - 1) + 1 = round
      BY <1>1, <1>3, ReplayConstants DEF LoopInv, ReplayTypeInv
    <2>2. Behind(Old \ Replay!Oldest, (round - 1) + 1)
      BY <2>1, RoundReads
    <2> QED BY <1>3, <2>1, <2>2 DEF Replay!XRange, Draining
  <1>4. ASSUME Draining, pc' = "xlen" PROVE Old = {}
    <2>1. Replay!Oldest = {}
      BY <1>3, <1>4 DEF Replay!XRange
    <2> QED BY <2>1, NothingRead DEF Old
  <1> QED BY <1>1, <1>2, <1>3, <1>4 DEF LoopInv

LEMMA XAddLoops == ASSUME ReplayTypeInv, LoopInv, Replay!XAdd PROVE LoopInv'
  <1>1. /\ pc = "xadd" /\ UNCHANGED <<dlq, gone, mode, round>> /\ ever' = ever \cup {Replay!First.id}
        /\ replayed' \in Nat \ {0} /\ pc' \in {"xadd", "xdel", "xlen"}
    BY DEF Replay!XAdd, Replay!Following, ReplayTypeInv
  <1>2. Old' = Old /\ Draining' = Draining
    BY <1>1 DEF Old, Draining
  <1>3. pc' = "xdel" => Replay!First' = Replay!First
    BY DEF Replay!XAdd, Replay!Following, Replay!First
  <1>4. Draining => left' = left
    BY DEF Replay!XAdd, Draining
  <1> QED BY <1>1, <1>2, <1>3, <1>4 DEF LoopInv

LEMMA XDelLoops == ASSUME ReplayTypeInv, LoopInv, Replay!XDel PROVE LoopInv'
  <1>1. Replay!First \in left
    BY FirstOfLeft DEF Replay!XDel, ReplayTypeInv
  <1>2. /\ pc = "xdel" /\ UNCHANGED <<ever, gone, mode, round, replayed>> /\ pc' \in {"xadd", "xlen"}
        /\ left' = left \ {Replay!First} /\ dlq' = dlq \ {Replay!First}
    BY <1>1 DEF Replay!XDel, Replay!Following, ReplayTypeInv
  <1>3. Old' \ left' = Old \ left /\ Draining' = Draining
    BY <1>1, <1>2 DEF Old, Draining
  <1>4. \A i \in 1 .. Parked : i \in ever' \cup gone' \/ \E e \in dlq' : e.id = i
    BY <1>1, <1>2 DEF LoopInv
  <1> QED BY <1>2, <1>3, <1>4 DEF LoopInv

LEMMA EndRoundLoops == ASSUME ReplayTypeInv, LoopInv, Replay!EndRound PROVE LoopInv'
  <1>1. /\ pc = "xlen" /\ UNCHANGED <<dlq, ever, gone, mode, replayed>> /\ pc' \in {"xrange", "done"}
        /\ left = {}
    BY DEF Replay!EndRound, ReplayTypeInv
  <1>2. Old' = Old /\ Draining' = Draining
    BY <1>1 DEF Old, Draining
  <1>3. Draining => Behind(Old, round)
    BY <1>1 DEF LoopInv
  <1>4. pc' = "xrange" => round' - 1 = round
    BY ReplayConstants DEF Replay!EndRound, ReplayTypeInv
  <1>5. ASSUME Draining, pc' = "done", Enough PROVE Old = {}
    <2>1. CASE replayed = 0
      BY <1>1, <1>5, <2>1 DEF LoopInv
    <2>2. CASE dlq = {}
      BY <2>2 DEF Old
    <2>3. CASE round = MaxRounds
      <3>1. CASE PerRound = 0
        BY <1>3, <1>5, <2>3, <3>1, ReplayConstants DEF Behind
      <3>2. CASE PerRound # 0
        <4> SUFFICES ASSUME Old # {} PROVE FALSE
          OBVIOUS
        <4>1. PICK m : m = MaxRounds * PerRound
          OBVIOUS
        <4>2. m \in Nat /\ m >= Parked /\ Cardinality(Old) + m <= Parked
          BY <1>3, <1>5, <2>3, <3>2, <4>1, ReplayConstants DEF Behind, Enough
        <4>3. Cardinality(Old) # 0
          BY OldBound, FS_EmptySet
        <4> QED BY <4>2, <4>3, OldBound, ReplayConstants
      <3> QED BY <3>1, <3>2
    <2>4. ~ Replay!Again /\ mode.loop
      BY <1>5 DEF Replay!EndRound, Draining
    <2>5. round < MaxRounds \/ round = MaxRounds
      BY ReplayConstants DEF ReplayTypeInv
    <2> QED BY <2>1, <2>2, <2>3, <2>4, <2>5 DEF Replay!Again
  <1> QED BY <1>1, <1>2, <1>3, <1>4, <1>5 DEF LoopInv

\* Parking takes entries away, which are gone, and adds none of the old ones.
LEMMA ParkLoops ==
    ASSUME ReplayTypeInv, LoopInv, UNCHANGED <<pc, left, mode, round, replayed, ever>>,
           gone \subseteq gone',
           \A e \in dlq : e \in dlq' \/ e.article \in gone',
           \A e \in dlq' : e \in dlq \/ ~ (e.id <= Parked)
    PROVE  LoopInv'
  <1>1. Old' \subseteq Old /\ Draining' = Draining /\ Replay!First' = Replay!First
    BY DEF Old, Draining, Replay!First
  <1>2. round \in Nat /\ round - 1 \in Nat
    BY ReplayConstants DEF ReplayTypeInv
  <1>3. Behind(Old, round - 1) => Behind(Old', round - 1)
    BY <1>1, <1>2, BehindLess
  <1>4. Behind(Old \ left, round) => Behind(Old' \ left, round)
    BY <1>1, <1>2, BehindLess
  <1>5. \A i \in 1 .. Parked : i \in ever \cup gone' \/ \E e \in dlq' : e.id = i
    <2>1. TAKE i \in 1 .. Parked
    <2>2. CASE i \in ever \cup gone
      BY <2>2
    <2>3. ASSUME NEW e \in dlq, e.id = i PROVE i \in gone' \/ \E f \in dlq' : f.id = i
      <3>1. e.article = i
        BY <2>3, ReplayConstants DEF LoopInv
      <3> QED BY <2>3, <3>1
    <2> QED BY <2>2, <2>3 DEF LoopInv
  <1>6. \A e \in dlq' : e.id <= Parked => e.article = e.id
    BY DEF LoopInv
  <1>7. Old = {} => Old' = {}
    BY <1>1
  <1> QED BY <1>1, <1>3, <1>4, <1>5, <1>6, <1>7 DEF LoopInv

LEMMA ParkAgainLoops ==
    ASSUME ReplayTypeInv, LoopInv, Replay!ParkAgain \/ Replay!ParkAnother PROVE LoopInv'
  <1>1. CASE Replay!ParkAnother
    BY <1>1, ParkLoops DEF Replay!ParkAnother, Replay!Trims, Replay!Trimmed, Replay!toolVars
  <1>2. CASE Replay!ParkAgain
    <2> DEFINE new == [id |-> Parked + parks + 1, article |-> Head(stream)]
    <2>1. PICK T \in SUBSET dlq :
             dlq' = T \cup {new} /\ gone' = gone \cup {e.article : e \in (dlq \cup {new}) \ (T \cup {new})}
      BY <1>2 DEF Replay!ParkAgain, Replay!Trims, Replay!Trimmed
    <2>2. ~ (new.id <= Parked)
      BY ReplayConstants DEF ReplayTypeInv
    <2>3. new \in dlq' /\ UNCHANGED <<pc, left, mode, round, replayed, ever>>
      BY <1>2, <2>1 DEF Replay!ParkAgain, Replay!toolVars
    <2> HIDE DEF new
    <2>4. \A e \in dlq : e \in dlq' \/ e.article \in gone'
      BY <2>1, <2>3
    <2>5. \A e \in dlq' : e \in dlq \/ ~ (e.id <= Parked)
      BY <2>1, <2>2
    <2>6. gone \subseteq gone'
      BY <2>1
    <2> QED BY <2>3, <2>4, <2>5, <2>6, ParkLoops
  <1> QED BY <1>1, <1>2

LEMMA NextLoopInv ==
    ASSUME ReplayTypeInv, LoopInv, [Replay!Next]_(Replay!replayVars) PROVE LoopInv'
  <1>1. CASE Replay!Run
    <2>1. dlq' = dlq /\ ever' = ever /\ gone' = gone /\ pc' = "xrange" /\ round' = 1 /\ Old' = Old
      BY <1>1 DEF Replay!Run, Old
    <2>2. Behind(Old, 0)
      BY OldBound, ReplayConstants DEF Behind
    <2>3. round' - 1 = 0
      BY <2>1
    <2> QED BY <2>1, <2>2, <2>3 DEF LoopInv
  <1>2. CASE Replay!Crash
    BY <1>2 DEF Replay!Crash, LoopInv
  <1>3. CASE Replay!Settle \/ Replay!Vanish \/ UNCHANGED Replay!replayVars
    <2>1. UNCHANGED <<dlq, ever, pc, left, mode, round, replayed>> /\ gone \subseteq gone'
      BY <1>3 DEF Replay!Settle, Replay!Vanish, Replay!replayVars, Replay!toolVars
    <2>2. Old' = Old /\ Draining' = Draining /\ Replay!First' = Replay!First
      BY <2>1 DEF Old, Draining, Replay!First
    <2> QED BY <2>1, <2>2 DEF LoopInv
  <1> QED BY <1>1, <1>2, <1>3, XRangeLoops, XAddLoops, XDelLoops, EndRoundLoops, ParkAgainLoops, ConsumerStep
          DEF Replay!Next, Replay!Tool

\* --loop --delete, "until the DLQ is empty": when it ends after rounds enough
\* for what was parked, each of those entries has been replayed, whatever runs
\* died before it and whatever is parked again meanwhile, or a MAXLEN trim took it.
THEOREM LoopReaches == Spec => []LoopReachesAll
  <1>1. Init => ReplayTypeInv /\ LoopInv
    <2>1. Replay!Init => LoopInv
      <3> SUFFICES ASSUME Replay!Init PROVE LoopInv
        OBVIOUS
      <3>1. ASSUME NEW i \in 1 .. Parked PROVE \E e \in dlq : e.id = i
        <4>1. [id |-> i, article |-> i] \in dlq
          BY DEF Replay!Init, Replay!Articles
        <4> QED BY <4>1
      <3>2. \A e \in dlq : e.article = e.id
        BY DEF Replay!Init
      <3> QED BY <3>1, <3>2 DEF Replay!Init, LoopInv
    <2> QED BY <2>1, ReplayInit DEF Init
  <1>2. ReplayTypeInv /\ LoopInv /\ [Next]_vars => (ReplayTypeInv /\ LoopInv)'
    BY ReplayStep, ReplayTyped, NextLoopInv
  <1>3. ReplayTypeInv /\ LoopInv => LoopReachesAll
    <2> SUFFICES ASSUME LoopInv, pc = "done", mode = [loop |-> TRUE, delete |-> TRUE, dry |-> FALSE],
                        Enough, NEW i \in 1 .. Parked
                 PROVE  i \in ever \cup gone
      BY DEF LoopReachesAll, Replay!LoopReachesAll, Enough
    <2>1. Old = {}
      BY DEF LoopInv, Draining
    <2> QED BY <2>1 DEF LoopInv, Old
  <1> QED BY <1>1, <1>2, <1>3, PTL DEF Spec
-----------------------------------------------------------------------------
(***************************************************************************)
(* The backup loop.  RestorePoint does not say which dump it is: a prune   *)
(* might take it.  DumpInv says that few dumps are newer than it.          *)
(***************************************************************************)
\* No more dumps cut short since the last whole one than either prune keeps.
FewCuts == recent >= 0 /\ recent < KeepDumps /\ recent < FullKeep

DumpInv ==
    /\ dumps \in Nat /\ cuts \in Nat /\ recent \in Int
    /\ IsFiniteSet(files)
    /\ \A f \in files : f.born \in Nat /\ f.born < dumps + cuts
    /\ FewCuts => \E f \in files : f.whole /\ Cardinality(Dumping!Newer(files, f)) <= recent

LEMMA BackupConstants ==
    /\ KeepDumps \in Nat /\ FullKeep \in Nat
    /\ \A S : Dumping!Cardinality(S) = Cardinality(S)
  BY ToolsAssumption DEF Dumping!BackupAssumption, Dumping!Cardinality, Cardinality

\* A step of the tools is one of the backup loop or leaves its variables alone.
LEMMA BackupStep ==
    ASSUME [Next]_vars PROVE [Dumping!Next]_(Dumping!backupVars)
  <1> USE DEF backupVars, Dumping!backupVars
  <1>1. CASE UNCHANGED vars
    BY <1>1 DEF vars
  <1> QED BY <1>1 DEF Next

LEMMA NewerFinite ==
    ASSUME NEW s, IsFiniteSet(s), NEW t, t \subseteq s, NEW f
    PROVE  /\ IsFiniteSet(t)
           /\ Cardinality(Dumping!Newer(s, f)) \in Nat /\ Cardinality(Dumping!Newer(t, f)) \in Nat
           /\ Cardinality(Dumping!Newer(t, f)) <= Cardinality(Dumping!Newer(s, f))
  <1>1. Dumping!Newer(t, f) \subseteq Dumping!Newer(s, f) /\ Dumping!Newer(s, f) \subseteq s
    BY DEF Dumping!Newer
  <1>2. IsFiniteSet(Dumping!Newer(s, f))
    BY <1>1, FS_Subset
  <1> QED BY <1>1, <1>2, FS_Subset, FS_CardinalityType

\* A prune that keeps every whole dump with few newer ones.
LEMMA PruneKeeps ==
    ASSUME DumpInv, files' \subseteq files, UNCHANGED <<dumps, cuts, recent>>,
           \A f \in files : FewCuts /\ Cardinality(Dumping!Newer(files, f)) <= recent => f \in files'
    PROVE  DumpInv'
  <1>1. IsFiniteSet(files')
    BY FS_Subset DEF DumpInv
  <1>2. ASSUME FewCuts
        PROVE  \E f \in files' : f.whole /\ Cardinality(Dumping!Newer(files', f)) <= recent
    <2>1. PICK f \in files : f.whole /\ Cardinality(Dumping!Newer(files, f)) <= recent
      BY <1>2 DEF DumpInv
    <2>2. f \in files'
      BY <1>2, <2>1
    <2>3. /\ Cardinality(Dumping!Newer(files', f)) <= Cardinality(Dumping!Newer(files, f))
          /\ Cardinality(Dumping!Newer(files', f)) \in Nat
          /\ Cardinality(Dumping!Newer(files, f)) \in Nat
      BY NewerFinite DEF DumpInv
    <2>4. Cardinality(Dumping!Newer(files', f)) <= recent
      BY <2>1, <2>3 DEF DumpInv
    <2> QED BY <2>1, <2>2, <2>4
  <1>3. FewCuts' = FewCuts
    BY DEF FewCuts
  <1>4. \A f : Dumping!Newer(files, f)' = Dumping!Newer(files', f)
    BY DEF Dumping!Newer
  <1> QED BY <1>1, <1>2, <1>3, <1>4 DEF DumpInv

LEMMA PruneInv == ASSUME DumpInv, Dumping!Prune \/ Dumping!PruneFull PROVE DumpInv'
  <1>1. CASE Dumping!Prune
    <2>1. ASSUME NEW f \in files, FewCuts, Cardinality(Dumping!Newer(files, f)) <= recent
          PROVE  f \in Dumping!Newest(files, KeepDumps)
      <3>1. Cardinality(Dumping!Newer(files, f)) < KeepDumps
        BY <2>1, BackupConstants, NewerFinite DEF DumpInv, FewCuts
      <3> QED BY <3>1, BackupConstants DEF Dumping!Newest
    <2>2. files' = Dumping!Newest(files, KeepDumps) /\ UNCHANGED <<dumps, cuts, recent>>
      BY <1>1 DEF Dumping!Prune
    <2>3. files' \subseteq files
      BY <2>2 DEF Dumping!Newest
    <2> QED BY <2>1, <2>2, <2>3, PruneKeeps
  <1>2. CASE Dumping!PruneFull
    <2> DEFINE full == {f \in files : f.full}
    <2>1. full \subseteq files
      OBVIOUS
    <2>2. /\ files' = {f \in files : ~ f.full} \cup Dumping!Newest(full, FullKeep)
          /\ UNCHANGED <<dumps, cuts, recent>>
      BY <1>2 DEF Dumping!PruneFull
    <2>3. files' \subseteq files
      BY <2>1, <2>2 DEF Dumping!Newest
    <2>4. ASSUME NEW f \in files, FewCuts, Cardinality(Dumping!Newer(files, f)) <= recent
          PROVE  f \in files'
      <3>1. CASE ~ f.full
        BY <2>2, <3>1
      <3>2. CASE f.full
        <4>1. f \in full
          BY <3>2
        <4> HIDE DEF full
        <4>2. Cardinality(Dumping!Newer(full, f)) < FullKeep
          BY <2>1, <2>4, BackupConstants, NewerFinite DEF DumpInv, FewCuts
        <4>3. f \in Dumping!Newest(full, FullKeep)
          BY <4>1, <4>2, BackupConstants DEF Dumping!Newest
        <4> QED BY <2>2, <4>3
      <3> QED BY <3>1, <3>2
    <2> HIDE DEF full
    <2> QED BY <2>2, <2>3, <2>4, PruneKeeps
  <1> QED BY <1>1, <1>2

LEMMA BornEarlier ==
    ASSUME DumpInv, dumps' \in Nat, cuts' \in Nat, dumps' + cuts' = dumps + cuts + 1
    PROVE  /\ dumps + cuts \in Nat /\ dumps + cuts < dumps' + cuts'
           /\ \A f \in files : f.born \in Nat /\ f.born < dumps' + cuts'
  <1>1. PICK n \in Nat : n = dumps + cuts
    BY DEF DumpInv
  <1>2. dumps' + cuts' = n + 1
    BY <1>1
  <1>3. ASSUME NEW f \in files PROVE f.born \in Nat /\ f.born < dumps' + cuts'
    <2>1. f.born \in Nat /\ f.born < dumps + cuts
      BY DEF DumpInv
    <2> QED BY <1>1, <1>2, <2>1
  <1> QED BY <1>1, <1>2, <1>3

\* A dump writes the newest file.
LEMMA WriteInv ==
    ASSUME DumpInv, NEW w, Dumping!Write(w), recent' \in Int,
           dumps' \in Nat, cuts' \in Nat, dumps' + cuts' = dumps + cuts + 1,
           \/ w = TRUE /\ recent' = 0
           \/ w = FALSE /\ recent' = IF recent < 0 THEN recent ELSE recent + 1
    PROVE  DumpInv'
  <1> DEFINE new == [born |-> dumps + cuts, full |-> Dumping!Full, whole |-> w]
  <1>1. files' = files \cup {new} /\ new.born = dumps + cuts /\ new.whole = w
    BY DEF Dumping!Write
  <1> HIDE DEF new
  <1>2. IsFiniteSet(files')
    BY <1>1, FS_AddElement DEF DumpInv
  <1>3. \A f \in files' : f.born \in Nat /\ f.born < dumps' + cuts'
    BY <1>1, BornEarlier
  <1>4. \A f : Dumping!Newer(files, f)' = Dumping!Newer(files', f)
    BY DEF Dumping!Newer
  <1>5. ASSUME w = TRUE PROVE \E f \in files' : f.whole /\ Cardinality(Dumping!Newer(files', f)) <= recent'
    <2>1. Dumping!Newer(files', new) = {}
      BY <1>1, <1>3 DEF Dumping!Newer, DumpInv
    <2>2. Cardinality(Dumping!Newer(files', new)) = 0
      BY <2>1, FS_EmptySet
    <2>3. Cardinality(Dumping!Newer(files', new)) <= recent'
      BY <1>5, <2>2
    <2> QED BY <1>1, <1>5, <2>3
  <1>6. ASSUME w = FALSE, FewCuts'
        PROVE  \E f \in files' : f.whole /\ Cardinality(Dumping!Newer(files', f)) <= recent'
    <2>1. recent >= 0 /\ recent' = recent + 1 /\ FewCuts
      BY <1>6, BackupConstants DEF FewCuts, DumpInv
    <2>2. PICK f \in files : f.whole /\ Cardinality(Dumping!Newer(files, f)) <= recent
      BY <2>1 DEF DumpInv
    <2>3. Dumping!Newer(files', f) = Dumping!Newer(files, f) \cup {new} /\ new \notin Dumping!Newer(files, f)
      BY <1>1 DEF Dumping!Newer, DumpInv
    <2>4. IsFiniteSet(Dumping!Newer(files, f)) /\ Cardinality(Dumping!Newer(files, f)) \in Nat
      <3>1. Dumping!Newer(files, f) \subseteq files
        BY DEF Dumping!Newer
      <3> QED BY <3>1, FS_Subset, FS_CardinalityType DEF DumpInv
    <2>5. Cardinality(Dumping!Newer(files', f)) = Cardinality(Dumping!Newer(files, f)) + 1
      BY <2>3, <2>4, FS_AddElement
    <2>6. Cardinality(Dumping!Newer(files', f)) <= recent'
      BY <2>1, <2>2, <2>4, <2>5 DEF DumpInv
    <2> QED BY <1>1, <2>2, <2>6
  <1> QED BY <1>2, <1>3, <1>4, <1>5, <1>6 DEF DumpInv

LEMMA NextDumpInv ==
    ASSUME DumpInv, [Dumping!Next]_(Dumping!backupVars) PROVE DumpInv'
  <1>1. CASE Dumping!DumpOk
    <2>1. Dumping!Write(TRUE) /\ dumps' = dumps + 1 /\ cuts' = cuts /\ recent' = 0
      BY <1>1 DEF Dumping!DumpOk
    <2>2. dumps' \in Nat /\ cuts' \in Nat /\ recent' \in Int /\ dumps' + cuts' = dumps + cuts + 1
      BY <2>1 DEF DumpInv
    <2> QED BY <2>1, <2>2, WriteInv
  <1>2. CASE Dumping!KilledInDump
    <2>1. /\ Dumping!Write(FALSE) /\ cuts' = cuts + 1 /\ dumps' = dumps
          /\ recent' = IF recent < 0 THEN recent ELSE recent + 1
      BY <1>2 DEF Dumping!KilledInDump
    <2>2. dumps' \in Nat /\ cuts' \in Nat /\ recent' \in Int /\ dumps' + cuts' = dumps + cuts + 1
      BY <2>1 DEF DumpInv
    <2> QED BY <2>1, <2>2, WriteInv
  <1>3. ASSUME UNCHANGED <<files, dumps, recent>>, cuts' \in {cuts, cuts + 1} PROVE DumpInv'
    <2>1. \A f : Dumping!Newer(files, f)' = Dumping!Newer(files, f)
      BY <1>3 DEF Dumping!Newer
    <2>2. FewCuts' = FewCuts
      BY <1>3 DEF FewCuts
    <2>3. cuts' \in Nat /\ \A f \in files' : f.born \in Nat /\ f.born < dumps' + cuts'
      BY <1>3 DEF DumpInv
    <2> QED BY <1>3, <2>1, <2>2, <2>3 DEF DumpInv
  <1>4. CASE Dumping!DumpFails \/ Dumping!Killed \/ Dumping!Mark \/ Dumping!Sleep
             \/ UNCHANGED Dumping!backupVars
    BY <1>3, <1>4 DEF Dumping!DumpFails, Dumping!Killed, Dumping!Mark, Dumping!Sleep,
                      Dumping!backupVars
  <1> QED BY <1>1, <1>2, <1>4, PruneInv DEF Dumping!Next

\* prune, which counts partial files and full dumps among those it keeps: for
\* any numbers of dumps kept, once a dump has succeeded there is one to restore
\* from, until as many as a prune keeps have been cut short.
THEOREM BackupsRestore == Spec => []RestorePoint
  <1>1. Init => DumpInv
    BY FS_EmptySet DEF Init, Dumping!Init, DumpInv, FewCuts
  <1>2. DumpInv /\ [Next]_vars => DumpInv'
    BY BackupStep, NextDumpInv
  <1>3. DumpInv => RestorePoint
    BY BackupConstants DEF DumpInv, FewCuts, RestorePoint, Dumping!RestorePoint
  <1> QED BY <1>1, <1>2, <1>3, PTL DEF Spec
-----------------------------------------------------------------------------
(***************************************************************************)
(* The vector pipeline: types and invariants.                              *)
(***************************************************************************)
\* Where a tool is after the chunk file has been parsed, and the whole of its way.
EmbedStages == {"batch", "save", "final", "meta", "report"}
PipelineStages ==
    EmbedStages \cup {"idle", "write", "state", "nothing", "load", "import", "copy",
                      "upsert", "index"}
ChunkLine == Pipeline!Chunk \cup {Pipeline!Torn}
DiskFile == [lines: Seq(ChunkLine), open: BOOLEAN, pairs: Seq(Pipeline!Pair),
             zip: {"ok", "torn"}, meta: {"none", "ok", "torn"}]

\* One tool runs at a time, on the files of its flow; the offset stays inside
\* what it walks over.
PipelineTypeInv ==
    /\ articles \in 0 .. Len(ChunkCount) /\ cursor \in 0 .. articles
    /\ disk \in [Pipeline!Flow -> DiskFile]
    /\ table \subseteq Pipeline!Pair
    /\ stage \in PipelineStages /\ flow \in Pipeline!Flow /\ option \in BOOLEAN
    /\ rewriting \in BOOLEAN
    /\ since \in Nat /\ upto \in 0 .. articles
    /\ todo \in Seq(Pipeline!Chunk) /\ pairs \in Seq(Pipeline!Pair)
    /\ skipped \in Seq(Pipeline!Chunk) /\ lost \subseteq Pipeline!Chunk
    /\ offset \in Nat
    /\ stage \in EmbedStages => offset <= Len(todo)
    /\ stage = "batch" => offset < Len(todo)
    /\ stage \in {"final", "meta", "report"} => offset = Len(todo)
    /\ stage = "copy" => offset <= Len(pairs)
    /\ stage \in {"idle", "state"} => flow = "rag"
    /\ stage = "nothing" => flow = "sync"

\* Vectors in memory, in the archives and in the table are with their chunks.
Matching(s) == \A e \in Pipeline!Elements(s) : e.vec = e.id
MatchInv ==
    /\ Matching(pairs)
    /\ \A f \in Pipeline!Flow : Matching(disk[f].pairs)
    /\ \A r \in table : r.vec = r.id

\* Chunks of the articles up to an id, and the corpus file holding them all.
Exports(n) == {c \in Pipeline!Chunk : c[1] <= n}
CorpusHas(n) == Exports(n) \subseteq Pipeline!Elements(disk["rag"].lines)

\* A corpus file that can be read and is not being rewritten has every chunk up
\* to the cursor; while the state is being saved, up to the cursor to be saved.
CorpusInv ==
    /\ Pipeline!Readable("rag") /\ ~ rewriting => CorpusHas(cursor)
    /\ stage = "state" => (Pipeline!Readable("rag") /\ ~ rewriting => CorpusHas(upto))
    /\ stage = "write" /\ flow = "rag" =>
          IF option THEN since = 0 /\ cursor <= upto /\ rewriting ELSE since = cursor

\* Chunks not tried yet, and those embedded or given up.
Distinct(s) == \A i, j \in 1 .. Len(s) : s[i] = s[j] => i = j
Waiting == {todo[j] : j \in (offset + 1) .. Len(todo)}
Attempted == Pipeline!Ids(pairs) \cup Pipeline!Elements(skipped)
\* Every line of the file is waiting or was attempted; without repeated lines it
\* is one of waiting, embedded and skipped.
EmbedInv ==
    stage \in EmbedStages =>
       /\ Pipeline!Readable(flow)
       /\ Pipeline!Elements(disk[flow].lines) \subseteq Attempted \cup Waiting
       /\ Pipeline!Elements(todo) \subseteq Pipeline!Elements(disk[flow].lines)
       /\ Pipeline!Elements(skipped) \subseteq Pipeline!Elements(disk[flow].lines) \cap lost
       /\ Distinct(disk[flow].lines) =>
             /\ Distinct(todo)
             /\ Waiting \cap Attempted = {}
             /\ Pipeline!Elements(skipped) \cap Pipeline!Ids(pairs) = {}
       /\ stage \in {"meta", "report"} => disk[flow].pairs = pairs

\* Chunks that are in the table or given up, and, while an import copies, those
\* it is about to insert.
Ingested == {r.id : r \in table}
Done == lost \cup Ingested
Coming == IF stage = "copy" THEN Pipeline!Ids(pairs) ELSE {}
NotYet == IF stage = "copy" THEN Pipeline!NotCopied ELSE {}

\* No article is in the table before the chunks of all articles below it are
\* accounted for.
TableInv == \A c \in Ingested \cup Coming : Exports(c[1]) \subseteq Done \cup NotYet

\* sync_vectors: its file holds what the query returned, --initial asks for
\* everything, and what is embedded or skipped covers the file.
SyncInv ==
    flow = "sync" =>
       /\ option => since = 0
       /\ stage = "write" => /\ Exports(since) \subseteq Done
                             /\ disk["sync"].lines = <<>> /\ ~ disk["sync"].open
       /\ stage = "nothing" => Exports(upto) \subseteq Done
       /\ stage \in EmbedStages \cup {"load", "import"} =>
             Pipeline!Elements(disk["sync"].lines) = Pipeline!Queried
       /\ stage = "import" =>
             Pipeline!Queried \subseteq Pipeline!Ids(disk["sync"].pairs) \cup lost
-----------------------------------------------------------------------------
\* What the assumption says of the constants of module Vectors.
LEMMA PipelineConstants ==
    ChunkCount \in Seq(Nat) /\ BatchSize \in Nat \ {0} /\ CommitRows \in Nat \ {0}
  BY ToolsAssumption DEF Pipeline!VectorsAssumption

\* The instance counts with the same Cardinality.
LEMMA PipelineCardinality == \A S : Pipeline!Cardinality(S) = Cardinality(S)
  BY DEF Pipeline!Cardinality, Cardinality, Pipeline!IsFiniteSet, IsFiniteSet

\* A step of the tools is one of the pipeline or leaves its variables alone.
LEMMA PipelineStep ==
    ASSUME [Next]_vars PROVE [Pipeline!Next]_(Pipeline!vectorVars)
  <1> USE DEF vectorVars, Pipeline!vectorVars, Pipeline!outside, Pipeline!store, Pipeline!job,
              Pipeline!embedding, Pipeline!history
  <1>1. CASE UNCHANGED vars
    BY <1>1 DEF vars
  <1> QED BY <1>1 DEF Next

(***************************************************************************)
(* Places and ranks.                                                       *)
(***************************************************************************)

\* In a finite set with a strict total order, counting the elements before an
\* element numbers them from 0.
LEMMA Ranks ==
    ASSUME NEW S, NEW R, IsFiniteSet(S),
           \A x \in S : <<x, x>> \notin R,
           \A x, y \in S : x # y => <<x, y>> \in R \/ <<y, x>> \in R,
           \A x, y, z \in S : <<x, y>> \in R /\ <<y, z>> \in R => <<x, z>> \in R
    PROVE  /\ \A n \in 1 .. Cardinality(S) :
                 \E x \in S : Cardinality({y \in S : <<y, x>> \in R}) = n - 1
           /\ \A x \in S : Cardinality({y \in S : <<y, x>> \in R}) \in 0 .. Cardinality(S) - 1
  <1> DEFINE below(x) == {y \in S : <<y, x>> \in R}
             C == 0 .. Cardinality(S) - 1
             rank == [x \in S |-> Cardinality(below(x))]
  <1>1. Cardinality(S) \in Nat
    BY FS_CardinalityType
  <1>2. \A x \in S : /\ below(x) \in SUBSET S /\ below(x) \cup {x} \in SUBSET S
                     /\ x \notin below(x)
    OBVIOUS
  <1>3. \A x, y \in S : <<x, y>> \in R => below(x) \cup {x} \in SUBSET below(y)
    OBVIOUS
  <1> HIDE DEF below
  <1>4. \A x \in S : /\ IsFiniteSet(below(x)) /\ Cardinality(below(x)) \in Nat
                     /\ Cardinality(below(x) \cup {x}) = Cardinality(below(x)) + 1
    BY <1>2, FS_Subset, FS_CardinalityType, FS_AddElement
  <1>5. ASSUME NEW x \in S PROVE Cardinality(below(x)) \in C
    <2>1. Cardinality(below(x) \cup {x}) <= Cardinality(S)
      BY <1>2, FS_Subset
    <2>2. PICK c \in Nat, d \in Nat : c = Cardinality(S) /\ d = Cardinality(below(x))
      BY <1>1, <1>4
    <2>3. d + 1 <= c
      BY <1>4, <2>1, <2>2
    <2>4. d \in 0 .. c - 1
      BY <2>3
    <2> QED BY <2>2, <2>4
  <1>6. \A x \in S : Cardinality(below(x)) \in C
    BY <1>5
  <1>7. \A x, y \in S : Cardinality(below(x)) = Cardinality(below(y)) => x = y
    <2>1. SUFFICES ASSUME NEW x \in S, NEW y \in S, <<x, y>> \in R
                   PROVE  Cardinality(below(x)) # Cardinality(below(y))
      BY Zenon
    <2>2. Cardinality(below(x) \cup {x}) <= Cardinality(below(y))
      BY <1>3, <1>4, <2>1, FS_Subset
    <2> QED BY <1>4, <2>2
  <1>8. rank \in Injection(S, C)
    BY <1>6, <1>7 DEF Injection, IsInjective
  <1>9. IsFiniteSet(C) /\ Cardinality(C) = Cardinality(S)
    <2>1. PICK c \in Nat : c = Cardinality(S)
      BY <1>1
    <2>2. IsFiniteSet(0 .. c - 1) /\ Cardinality(0 .. c - 1) = c
      BY FS_Interval
    <2> QED BY <2>1, <2>2
  <1>10. rank \in Surjection(S, C)
    BY <1>8, <1>9, FS_Injection
  <1>11. \A m \in C : \E x \in S : Cardinality(below(x)) = m
    BY <1>10 DEF Surjection
  <1>12. \A n \in 1 .. Cardinality(S) : n - 1 \in C
    BY <1>1
  <1> QED BY <1>6, <1>11, <1>12 DEF below

\* The places of a sequence in their order.
LEMMA Places ==
    ASSUME NEW m \in Nat, NEW P \in SUBSET (1 .. m)
    PROVE  /\ IsFiniteSet(P) /\ Cardinality(P) \in Nat
           /\ \A n \in 1 .. Cardinality(P) : \E i \in P : Cardinality({j \in P : j < i}) = n - 1
           /\ \A i \in P : Cardinality({j \in P : j < i}) \in 0 .. Cardinality(P) - 1
  <1>1. IsFiniteSet(P) /\ Cardinality(P) \in Nat
    <2>1. IsFiniteSet(1 .. m)
      BY FS_Interval
    <2> QED BY <2>1, FS_Subset, FS_CardinalityType
  <1> DEFINE R == {p \in P \X P : p[1] < p[2]}
  <1>2. \A i, j \in P : <<i, j>> \in R <=> i < j
    OBVIOUS
  <1>3. \A i \in P : {j \in P : <<j, i>> \in R} = {j \in P : j < i}
    BY <1>2
  <1>4. P \subseteq Int
    OBVIOUS
  <1> HIDE DEF R
  <1>5. /\ \A i \in P : <<i, i>> \notin R
        /\ \A i, j \in P : i # j => <<i, j>> \in R \/ <<j, i>> \in R
        /\ \A i, j, k \in P : <<i, j>> \in R /\ <<j, k>> \in R => <<i, k>> \in R
    BY <1>2, <1>4
  <1>6. /\ \A n \in 1 .. Cardinality(P) :
                 \E x \in P : Cardinality({y \in P : <<y, x>> \in R}) = n - 1
        /\ \A x \in P : Cardinality({y \in P : <<y, x>> \in R}) \in 0 .. Cardinality(P) - 1
    BY <1>1, <1>5, Ranks
  <1> QED BY <1>1, <1>3, <1>6

\* No two places have as many places before them.
LEMMA SameRank ==
    ASSUME NEW m \in Nat, NEW P \in SUBSET (1 .. m), NEW i \in P, NEW k \in P,
           Cardinality({j \in P : j < i}) = Cardinality({j \in P : j < k})
    PROVE  i = k
  <1>1. ASSUME NEW a \in P, NEW b \in P, a < b
        PROVE  Cardinality({j \in P : j < a}) # Cardinality({j \in P : j < b})
    <2> DEFINE A == {j \in P : j < a}
               B == {j \in P : j < b}
    <2>1. IsFiniteSet(B)
      <3>1. IsFiniteSet(1 .. m)
        BY FS_Interval
      <3>2. B \in SUBSET (1 .. m)
        OBVIOUS
      <3> HIDE DEF B
      <3> QED BY <3>1, <3>2, FS_Subset
    <2>2. a \in Int /\ b \in Int /\ \A j \in P : j \in Int
      OBVIOUS
    <2>3. A \in SUBSET B /\ a \in B /\ a \notin A
      <3>1. a < b /\ ~ (a < a) /\ \A j \in P : j < a => j < b
        BY <1>1, <2>2
      <3> QED BY <3>1, Zenon
    <2> HIDE DEF A, B
    <2>4. Cardinality(A) # Cardinality(B)
      BY <2>1, <2>3, FS_Subset
    <2> QED BY <2>4 DEF A, B
  <1>2. ~ (i < k) /\ ~ (k < i)
    BY <1>1
  <1> QED BY <1>2

\* What the places P hold, in the order of s: nothing else, all of it, and no
\* place twice.
LEMMA AtPlaces ==
    ASSUME NEW S, NEW s \in Seq(S), NEW P \in SUBSET (1 .. Len(s))
    PROVE  /\ Pipeline!At(s, P) \in Seq(S)
           /\ Pipeline!Elements(Pipeline!At(s, P)) = {s[i] : i \in P}
           /\ Distinct(s) => Distinct(Pipeline!At(s, P))
  <1> DEFINE N == Cardinality(P)
             place(n) == CHOOSE i \in P : Pipeline!Cardinality({j \in P : j < i}) = n - 1
  <1>0. Len(s) \in Nat
    OBVIOUS
  <1>1. N \in Nat /\ \A n \in 1 .. N : place(n) \in P /\ Cardinality({j \in P : j < place(n)}) = n - 1
    <2>1. Cardinality(P) \in Nat
      BY <1>0, Places
    <2>2. \A n \in 1 .. N : \E i \in P : Cardinality({j \in P : j < i}) = n - 1
      BY <1>0, Places
    <2>3. \A n \in 1 .. N : \E i \in P : Pipeline!Cardinality({j \in P : j < i}) = n - 1
      BY <2>2, PipelineCardinality
    <2>4. \A n \in 1 .. N : place(n) \in P /\ Pipeline!Cardinality({j \in P : j < place(n)}) = n - 1
      BY <2>3, Zenon
    <2> HIDE DEF place
    <2> QED BY <2>1, <2>4, PipelineCardinality
  <1>2. \A i \in P : Cardinality({j \in P : j < i}) \in 0 .. N - 1
    BY <1>0, Places
  <1>3. Pipeline!At(s, P) = [n \in 1 .. N |-> s[place(n)]]
    BY PipelineCardinality DEF Pipeline!At
  <1> HIDE DEF place, N
  <1>4. \A n \in 1 .. N : s[place(n)] \in S
    BY <1>1, ElementOfSeq
  <1>5. Pipeline!At(s, P) \in Seq(S) /\ Len(Pipeline!At(s, P)) = N
    BY <1>1, <1>3, <1>4
  <1>6. \A n \in 1 .. N : Pipeline!At(s, P)[n] = s[place(n)]
    BY <1>3
  <1>7. \A i \in P : \E n \in 1 .. N : place(n) = i
    <2>1. SUFFICES ASSUME NEW i \in P PROVE \E n \in 1 .. N : place(n) = i
      OBVIOUS
    <2>2. PICK r \in 0 .. N - 1 : r = Cardinality({j \in P : j < i})
      BY <1>2
    <2>3. r + 1 \in 1 .. N /\ (r + 1) - 1 = r
      BY <1>1
    <2>4. Cardinality({j \in P : j < place(r + 1)}) = Cardinality({j \in P : j < i})
             /\ place(r + 1) \in P
      BY <1>1, <2>2, <2>3
    <2>5. PICK k \in P : k = place(r + 1)
      BY <2>4
    <2>6. Cardinality({j \in P : j < k}) = Cardinality({j \in P : j < i})
      BY <2>4, <2>5
    <2>7. k = i
      <3>1. \A a, b \in P :
               Cardinality({j \in P : j < a}) = Cardinality({j \in P : j < b}) => a = b
        BY <1>0, SameRank
      <3> QED BY <2>6, <3>1
    <2> QED BY <2>3, <2>5, <2>7
  <1>8. Pipeline!Elements(Pipeline!At(s, P)) = {s[i] : i \in P}
    <2>1. Pipeline!Elements(Pipeline!At(s, P)) = {s[place(n)] : n \in 1 .. N}
      BY <1>5, <1>6 DEF Pipeline!Elements
    <2> QED BY <1>1, <1>7, <2>1
  <1>9. ASSUME Distinct(s), NEW n \in 1 .. N, NEW m \in 1 .. N,
               Pipeline!At(s, P)[n] = Pipeline!At(s, P)[m]
        PROVE  n = m
    <2>1. place(n) = place(m)
      BY <1>1, <1>6, <1>9 DEF Distinct
    <2>2. n - 1 = m - 1 /\ N \in Nat
      BY <1>1, <2>1
    <2> QED BY <2>2
  <1> QED BY <1>5, <1>8, <1>9 DEF Distinct

(***************************************************************************)
(* Chunks, chunk files and batches.                                        *)
(***************************************************************************)
\* A chunk is an article and a place in it.
LEMMA ChunkShape ==
    /\ \A c : c \in Pipeline!Chunk <=>
                 \E a \in Pipeline!Articles : \E k \in 1 .. ChunkCount[a] : c = <<a, k>>
    /\ \A c \in Pipeline!Chunk : /\ c[1] \in 1 .. Len(ChunkCount) /\ c[2] \in Nat
                                 /\ c = <<c[1], c[2]>> /\ c # <<>> /\ c # Pipeline!Torn
    /\ Pipeline!Torn \notin Pipeline!Chunk /\ Pipeline!Torn # <<>>
  <1>1. \A c : c \in Pipeline!Chunk <=>
                 \E a \in Pipeline!Articles : \E k \in 1 .. ChunkCount[a] : c = <<a, k>>
    BY DEF Pipeline!Chunk
  <1>2. \A a \in Pipeline!Articles : a \in 1 .. Len(ChunkCount) /\ a # 0 /\ ChunkCount[a] \in Nat
    BY PipelineConstants DEF Pipeline!Articles
  <1>3. \A c \in Pipeline!Chunk : /\ c[1] \in 1 .. Len(ChunkCount) /\ c[2] \in Nat
                                  /\ c = <<c[1], c[2]>> /\ c[1] # 0
    BY <1>1, <1>2
  <1>4. \A a, k : <<a, k>> # <<>>
    OBVIOUS
  <1>5. \A c \in Pipeline!Chunk : c # Pipeline!Torn
    BY <1>3 DEF Pipeline!Torn
  <1> QED BY <1>1, <1>3, <1>4, <1>5 DEF Pipeline!Torn

\* The chunks of the articles up to n, as the properties name them.
LEMMA ChunksOfArticles ==
    ASSUME NEW n \in 0 .. Len(ChunkCount), NEW a \in 1 .. n,
           NEW c \in Pipeline!Elements(Pipeline!ChunksOf(a))
    PROVE  c \in Exports(n)
  <1>1. a \in Pipeline!Articles /\ ChunkCount[a] \in Nat
    BY PipelineConstants DEF Pipeline!Articles
  <1>2. Len(Pipeline!ChunksOf(a)) = ChunkCount[a]
    BY <1>1 DEF Pipeline!ChunksOf
  <1>3. PICK k \in 1 .. ChunkCount[a] : c = <<a, k>>
    BY <1>2 DEF Pipeline!Elements, Pipeline!ChunksOf
  <1>4. c \in Pipeline!Chunk /\ c[1] = a
    BY <1>1, <1>3, ChunkShape
  <1> QED BY <1>4 DEF Exports

\* There are finitely many chunks.
LEMMA ChunkFinite == IsFiniteSet(Pipeline!Chunk)
  <1> DEFINE of(a) == {<<a, k>> : k \in 1 .. ChunkCount[a]}
             family == {of(a) : a \in Pipeline!Articles}
  <1>1. \A a \in Pipeline!Articles : ChunkCount[a] \in Nat
    BY PipelineConstants DEF Pipeline!Articles
  <1>2. ASSUME NEW a \in Pipeline!Articles PROVE IsFiniteSet(of(a))
    <2> DEFINE f == [k \in 1 .. ChunkCount[a] |-> <<a, k>>]
    <2>1. f \in Surjection(1 .. ChunkCount[a], of(a))
      BY DEF Surjection
    <2>2. IsFiniteSet(1 .. ChunkCount[a])
      BY <1>1, FS_Interval
    <2> HIDE DEF f, of
    <2> QED BY <2>1, <2>2, FS_Surjection
  <1>3. IsFiniteSet(family)
    <2> DEFINE g == [a \in Pipeline!Articles |-> of(a)]
    <2> HIDE DEF of
    <2>1. g \in Surjection(Pipeline!Articles, family)
      BY DEF Surjection
    <2>2. IsFiniteSet(Pipeline!Articles)
      BY PipelineConstants, FS_Interval DEF Pipeline!Articles
    <2> HIDE DEF g, family
    <2> QED BY <2>1, <2>2, FS_Surjection
  <1>4. Pipeline!Chunk = UNION family
    BY DEF Pipeline!Chunk
  <1>5. \A T \in family : IsFiniteSet(T)
    BY <1>2
  <1> HIDE DEF family
  <1> QED BY <1>3, <1>4, <1>5, FS_UNION

\* An export holds the chunks of the rows its query returns, and no others.
LEMMA ExportedChunks ==
    /\ Pipeline!Exported \in Seq(Pipeline!Chunk)
    /\ Pipeline!Elements(Pipeline!Exported) = Pipeline!Queried
    /\ Pipeline!Exported = <<>> => Pipeline!Queried = {}
  <1> DEFINE Q == Pipeline!Queried
             N == Cardinality(Q)
             below(c) == {b \in Q : Pipeline!Before(b, c)}
             R == {p \in Q \X Q : Pipeline!Before(p[1], p[2])}
             nth(n) == CHOOSE c \in Q : Pipeline!Cardinality(below(c)) = n - 1
  <1>1. Q \in SUBSET Pipeline!Chunk
    BY DEF Pipeline!Queried
  <1>2. IsFiniteSet(Q) /\ N \in Nat
    BY <1>1, ChunkFinite, FS_Subset, FS_CardinalityType
  <1>3. \A c, d \in Q : <<c, d>> \in R <=> Pipeline!Before(c, d)
    OBVIOUS
  <1>4. \A c \in Q : {b \in Q : <<b, c>> \in R} = below(c)
    BY <1>3
  <1>5. \A c \in Q : c[1] \in Nat /\ c[2] \in Nat /\ c = <<c[1], c[2]>>
    BY <1>1, ChunkShape
  <1> HIDE DEF R, Q
  <1>6. /\ \A x \in Q : <<x, x>> \notin R
        /\ \A x, y \in Q : x # y => <<x, y>> \in R \/ <<y, x>> \in R
        /\ \A x, y, z \in Q : <<x, y>> \in R /\ <<y, z>> \in R => <<x, z>> \in R
    BY <1>3, <1>5 DEF Pipeline!Before
  <1>7. /\ \A n \in 1 .. N : \E x \in Q : Cardinality({y \in Q : <<y, x>> \in R}) = n - 1
        /\ \A x \in Q : Cardinality({y \in Q : <<y, x>> \in R}) \in 0 .. N - 1
    BY <1>2, <1>6, Ranks
  <1>8. /\ \A n \in 1 .. N : \E c \in Q : Pipeline!Cardinality(below(c)) = n - 1
        /\ \A c \in Q : Cardinality(below(c)) \in 0 .. N - 1
    <2> HIDE DEF below
    <2> QED BY <1>4, <1>7, PipelineCardinality
  <1>9. \A n \in 1 .. N : nth(n) \in Q /\ Pipeline!Cardinality(below(nth(n))) = n - 1
    <2> HIDE DEF below
    <2> QED BY <1>8, Zenon
  <1>10. Pipeline!Exported = [n \in 1 .. N |-> nth(n)]
    BY PipelineCardinality DEF Pipeline!Exported, Q
  <1>11. \A c, d \in Q : Cardinality(below(c)) = Cardinality(below(d)) => c = d
    <2>1. SUFFICES ASSUME NEW c \in Q, NEW d \in Q, <<c, d>> \in R
                   PROVE  Cardinality(below(c)) # Cardinality(below(d))
      <3> HIDE DEF below
      <3> QED BY <1>6, Zenon
    <2>2. below(c) \in SUBSET below(d) /\ c \in below(d) /\ c \notin below(c)
      <3>1. /\ Pipeline!Before(c, d) /\ ~ Pipeline!Before(c, c)
            /\ \A b \in Q : Pipeline!Before(b, c) => Pipeline!Before(b, d)
        BY <1>3, <1>6, <2>1, Zenon
      <3> QED BY <3>1, Zenon
    <2>3. below(d) \in SUBSET Q
      OBVIOUS
    <2> HIDE DEF below
    <2>4. IsFiniteSet(below(d))
      BY <1>2, <2>3, FS_Subset
    <2> QED BY <2>2, <2>4, FS_Subset
  <1> HIDE DEF nth, below, N
  <1>12. Pipeline!Exported \in Seq(Pipeline!Chunk) /\ Len(Pipeline!Exported) = N
    BY <1>1, <1>2, <1>9, <1>10
  <1>13. \A c \in Q : \E n \in 1 .. N : nth(n) = c
    <2>1. SUFFICES ASSUME NEW c \in Q PROVE \E n \in 1 .. N : nth(n) = c
      OBVIOUS
    <2>2. PICK r \in 0 .. N - 1 : r = Cardinality(below(c))
      BY <1>8
    <2>3. r + 1 \in 1 .. N /\ (r + 1) - 1 = r
      BY <1>2
    <2>4. nth(r + 1) \in Q /\ Cardinality(below(nth(r + 1))) = Cardinality(below(c))
      BY <1>9, <2>2, <2>3, PipelineCardinality
    <2> QED BY <1>11, <2>3, <2>4
  <1>14. Pipeline!Elements(Pipeline!Exported) = {nth(n) : n \in 1 .. N}
    BY <1>10, <1>12 DEF Pipeline!Elements
  <1>15. Pipeline!Elements(Pipeline!Exported) = Q
    BY <1>9, <1>13, <1>14
  <1>16. Pipeline!Exported = <<>> => Q = {}
    BY <1>15 DEF Pipeline!Elements
  <1> QED BY <1>12, <1>15, <1>16 DEF Q

\* Elements of sequences put together.
LEMMA ElementsSeq ==
    ASSUME NEW S, NEW s \in Seq(S)
    PROVE  Pipeline!Elements(s) \subseteq S
  BY ElementOfSeq DEF Pipeline!Elements

\* Elements of a concatenation.
LEMMA ElementsConcat ==
    ASSUME NEW S, NEW s \in Seq(S), NEW t \in Seq(S)
    PROVE  /\ s \o t \in Seq(S)
           /\ Pipeline!Elements(s \o t) = Pipeline!Elements(s) \cup Pipeline!Elements(t)
  <1>1. /\ s \o t \in Seq(S) /\ Len(s \o t) = Len(s) + Len(t)
        /\ Len(s) \in Nat /\ Len(t) \in Nat
        /\ \A i \in 1 .. Len(s) + Len(t) :
              (s \o t)[i] = IF i <= Len(s) THEN s[i] ELSE t[i - Len(s)]
    BY ConcatProperties
  <1>2. \A i \in 1 .. Len(s) : i \in 1 .. Len(s) + Len(t) /\ (s \o t)[i] = s[i]
    BY <1>1
  <1>3. \A i \in 1 .. Len(t) : i + Len(s) \in 1 .. Len(s) + Len(t) /\ (s \o t)[i + Len(s)] = t[i]
    BY <1>1
  <1>4. \A i \in 1 .. Len(s) + Len(t) :
           \/ i \in 1 .. Len(s) /\ (s \o t)[i] = s[i]
           \/ i - Len(s) \in 1 .. Len(t) /\ (s \o t)[i] = t[i - Len(s)]
    BY <1>1
  <1>5. Pipeline!Elements(s) \cup Pipeline!Elements(t) \subseteq Pipeline!Elements(s \o t)
    <2>1. \A i \in 1 .. Len(s) : s[i] \in Pipeline!Elements(s \o t)
      BY <1>1, <1>2 DEF Pipeline!Elements
    <2>2. \A i \in 1 .. Len(t) : t[i] \in Pipeline!Elements(s \o t)
      BY <1>1, <1>3 DEF Pipeline!Elements
    <2> QED BY <2>1, <2>2 DEF Pipeline!Elements
  <1>6. Pipeline!Elements(s \o t) \subseteq Pipeline!Elements(s) \cup Pipeline!Elements(t)
    BY <1>1, <1>4 DEF Pipeline!Elements
  <1> QED BY <1>1, <1>5, <1>6

\* Lines appended to a chunk file that stays readable are all there, and so
\* are those before them.
LEMMA AppendedLines ==
    ASSUME PipelineTypeInv, NEW f \in Pipeline!Flow, NEW new \in Seq(ChunkLine)
    PROVE  /\ Pipeline!Appended(f, new) \in Seq(ChunkLine)
           /\ Pipeline!Torn \notin Pipeline!Elements(Pipeline!Appended(f, new)) =>
                 Pipeline!Elements(Pipeline!Appended(f, new))
                   = Pipeline!Elements(disk[f].lines) \cup Pipeline!Elements(new)
  <1>1. disk[f].lines \in Seq(ChunkLine)
    BY DEF PipelineTypeInv, DiskFile
  <1>2. CASE ~ (disk[f].open /\ new # <<>>)
    <2>1. Pipeline!Appended(f, new) = disk[f].lines \o new
      BY <1>2 DEF Pipeline!Appended
    <2> QED BY <1>1, <2>1, ElementsConcat
  <1>3. CASE disk[f].open /\ new # <<>>
    <2> DEFINE s == SubSeq(disk[f].lines, 1, Len(disk[f].lines) - 1)
               t == <<Pipeline!Torn>>
    <2>1. Pipeline!Appended(f, new) = (s \o t) \o Tail(new)
      BY <1>3 DEF Pipeline!Appended
    <2>2. s \in Seq(ChunkLine)
      <3>1. PICK l \in Seq(ChunkLine) : l = disk[f].lines
        BY <1>1
      <3>2. SubSeq(l, 1, Len(l) - 1) \in Seq(ChunkLine)
        OBVIOUS
      <3> QED BY <3>1, <3>2
    <2>3. t \in Seq(ChunkLine) /\ Pipeline!Torn \in Pipeline!Elements(t)
      BY DEF ChunkLine, Pipeline!Elements
    <2>4. Tail(new) \in Seq(ChunkLine)
      BY <1>3, HeadTailProperties
    <2> HIDE DEF s, t
    <2>5. s \o t \in Seq(ChunkLine) /\ Pipeline!Torn \in Pipeline!Elements(s \o t)
      BY <2>2, <2>3, ElementsConcat
    <2>6. PICK u, v : u = s \o t /\ v = Tail(new)
      OBVIOUS
    <2>7. u \o v \in Seq(ChunkLine) /\ Pipeline!Torn \in Pipeline!Elements(u \o v)
      <3>1. u \in Seq(ChunkLine) /\ v \in Seq(ChunkLine) /\ Pipeline!Torn \in Pipeline!Elements(u)
        BY <2>4, <2>5, <2>6, Zenon
      <3>2. /\ u \o v \in Seq(ChunkLine)
            /\ Pipeline!Elements(u \o v) = Pipeline!Elements(u) \cup Pipeline!Elements(v)
        BY <3>1, ElementsConcat, ZenonT(30)
      <3> QED BY <3>1, <3>2, Zenon
    <2> QED BY <2>1, <2>6, <2>7
  <1> QED BY <1>2, <1>3

\* The batch that starts at the offset.
LEMMA BatchPlaces ==
    ASSUME PipelineTypeInv, stage = "batch"
    PROVE  /\ Pipeline!BatchEnd \in Nat
           /\ offset < Pipeline!BatchEnd /\ Pipeline!BatchEnd <= Len(todo)
           /\ Len(Pipeline!Batch) = Pipeline!BatchEnd - offset
           /\ Pipeline!Batch \in Seq(Pipeline!Chunk)
           /\ \A j \in 1 .. Len(Pipeline!Batch) :
                 /\ Pipeline!Batch[j] = todo[offset + j]
                 /\ Pipeline!BatchId(j) = todo[offset + j]
                 /\ offset + j \in (offset + 1) .. Pipeline!BatchEnd
           /\ \A i \in (offset + 1) .. Pipeline!BatchEnd :
                 i - offset \in 1 .. Len(Pipeline!Batch) /\ offset + (i - offset) = i
  <1>1. todo \in Seq(Pipeline!Chunk) /\ offset \in Nat /\ offset < Len(todo) /\ Len(todo) \in Nat
    BY DEF PipelineTypeInv
  <1>2. PICK e : e = Pipeline!BatchEnd
    OBVIOUS
  <1>3. e \in Nat /\ offset < e /\ e <= Len(todo)
    BY <1>1, <1>2, PipelineConstants DEF Pipeline!BatchEnd
  <1>4. Pipeline!Batch = SubSeq(todo, offset + 1, e)
    BY <1>2 DEF Pipeline!Batch
  <1>5. /\ SubSeq(todo, offset + 1, e) \in Seq(Pipeline!Chunk)
        /\ Len(SubSeq(todo, offset + 1, e)) = e - offset
        /\ \A j \in 1 .. (e - offset) : SubSeq(todo, offset + 1, e)[j] = todo[offset + j]
    <2>1. /\ offset + 1 \in 1 .. Len(todo) + 1 /\ e \in offset .. Len(todo)
      BY <1>1, <1>3
    <2> QED BY <1>1, <1>3, <2>1, SubSeqProperties
  <1> QED BY <1>1, <1>2, <1>3, <1>4, <1>5 DEF Pipeline!BatchId

\* Whatever the order of the answer, the j-th embedding after the sort is that
\* of the j-th text.
LEMMA SortedAnswer ==
    ASSUME PipelineTypeInv, stage = "batch", NEW answer \in Pipeline!Answers,
           NEW j \in 1 .. Len(Pipeline!Batch)
    PROVE  Pipeline!ByIndex(answer)[j] = Pipeline!Batch[j]
  <1> DEFINE n == Len(Pipeline!Batch)
             D == 1 .. n
  <1>1. PICK p \in [D -> D] :
           /\ \A i, k \in D : p[i] = p[k] => i = k
           /\ answer = [k \in D |-> [index |-> p[k], embedding |-> Pipeline!Batch[p[k]]]]
    BY DEF Pipeline!Answers
  <1>2. n \in Nat
    BY BatchPlaces
  <1>3. IsFiniteSet(D)
    BY <1>2, FS_Interval
  <1> HIDE DEF n
  <1>4. Len(answer) = n
    BY <1>1, <1>2
  <1> HIDE DEF D
  <1>5. p \in Injection(D, D)
    BY <1>1 DEF Injection, IsInjective
  <1>6. p \in Surjection(D, D)
    BY <1>3, <1>5, FS_Injection
  <1>7. j \in D
    BY DEF D, n
  <1>8. \E k \in D : p[k] = j
    BY <1>6, <1>7 DEF Surjection
  <1>9. \A k \in D : answer[k].index = p[k] /\ answer[k].embedding = Pipeline!Batch[p[k]]
    BY <1>1
  <1>10. PICK k : k = CHOOSE i \in D : answer[i].index = j
    OBVIOUS
  <1>11. k \in D /\ answer[k].index = j
    BY <1>8, <1>9, <1>10, Zenon
  <1>12. Pipeline!ByIndex(answer)[j] = answer[k].embedding
    BY <1>4, <1>7, <1>10 DEF Pipeline!ByIndex, D
  <1> QED BY <1>9, <1>11, <1>12

(***************************************************************************)
(* Types, and what a step does to the files.                               *)
(***************************************************************************)

\* Lines and archive of the files after a write.
LEMMA DiskLines ==
    ASSUME PipelineTypeInv, NEW f \in Pipeline!Flow, NEW l \in Seq(ChunkLine),
           NEW o \in BOOLEAN, disk' = [disk EXCEPT ![f].lines = l, ![f].open = o]
    PROVE  /\ disk' \in [Pipeline!Flow -> DiskFile]
           /\ disk'[f].lines = l /\ disk'[f].open = o
           /\ \A g \in Pipeline!Flow : disk'[g].pairs = disk[g].pairs
           /\ \A g \in Pipeline!Flow \ {f} : disk'[g] = disk[g]
  <1>1. PICK d \in DiskFile : d = disk[f]
    BY DEF PipelineTypeInv
  <1>2. PICK e : e = [d EXCEPT !.lines = l, !.open = o]
    OBVIOUS
  <1>3. e \in DiskFile /\ e.lines = l /\ e.open = o /\ e.pairs = d.pairs
    BY <1>2 DEF DiskFile
  <1>4. disk' = [disk EXCEPT ![f] = e]
    BY <1>1, <1>2
  <1> QED BY <1>1, <1>3, <1>4 DEF PipelineTypeInv

\* An archive or a meta.json cut off by a kill.
LEMMA TornDisk ==
    ASSUME disk \in [Pipeline!Flow -> DiskFile], flow \in Pipeline!Flow
    PROVE  /\ [disk EXCEPT ![flow].zip = "torn"] \in [Pipeline!Flow -> DiskFile]
           /\ [disk EXCEPT ![flow].meta = "torn"] \in [Pipeline!Flow -> DiskFile]
  <1>1. PICK d \in DiskFile : d = disk[flow]
    OBVIOUS
  <1>2. [d EXCEPT !.zip = "torn"] \in DiskFile /\ [d EXCEPT !.meta = "torn"] \in DiskFile
    BY DEF DiskFile
  <1>3. /\ [disk EXCEPT ![flow].zip = "torn"] = [disk EXCEPT ![flow] = [d EXCEPT !.zip = "torn"]]
        /\ [disk EXCEPT ![flow].meta = "torn"] = [disk EXCEPT ![flow] = [d EXCEPT !.meta = "torn"]]
    BY <1>1
  <1> QED BY <1>2, <1>3

\* A new archive leaves the lines alone.
LEMMA DiskPairs ==
    ASSUME PipelineTypeInv, disk' = [disk EXCEPT ![flow].pairs = pairs]
    PROVE  /\ disk' \in [Pipeline!Flow -> DiskFile]
           /\ disk'[flow].pairs = pairs
           /\ \A g \in Pipeline!Flow : disk'[g].lines = disk[g].lines /\ disk'[g].open = disk[g].open
           /\ \A g \in Pipeline!Flow \ {flow} : disk'[g] = disk[g]
  BY DEF PipelineTypeInv, DiskFile

\* A file opened with "w".
LEMMA TruncatedDisk ==
    ASSUME PipelineTypeInv, NEW f \in Pipeline!Flow, disk' = Pipeline!Truncated(f)
    PROVE  /\ disk' \in [Pipeline!Flow -> DiskFile]
           /\ disk'[f].lines = <<>> /\ disk'[f].open = FALSE
           /\ \A g \in Pipeline!Flow : disk'[g].pairs = disk[g].pairs
           /\ \A g \in Pipeline!Flow \ {f} : disk'[g] = disk[g]
  <1>1. <<>> \in Seq(ChunkLine)
    OBVIOUS
  <1> QED BY <1>1, DiskLines DEF Pipeline!Truncated

\* The files after WriteChunks.
LEMMA WrittenDisk ==
    ASSUME PipelineTypeInv, Pipeline!WriteChunks
    PROVE  /\ disk' \in [Pipeline!Flow -> DiskFile]
           /\ disk'[flow].lines = Pipeline!Appended(flow, Pipeline!Exported)
           /\ \A g \in Pipeline!Flow : disk'[g].pairs = disk[g].pairs
           /\ \A g \in Pipeline!Flow \ {flow} : disk'[g] = disk[g]
  <1>1. flow \in Pipeline!Flow /\ disk \in [Pipeline!Flow -> DiskFile]
    BY DEF PipelineTypeInv
  <1>2. Pipeline!Exported \in Seq(ChunkLine)
    BY ExportedChunks DEF ChunkLine
  <1>3. PICK l : l = Pipeline!Appended(flow, Pipeline!Exported)
    OBVIOUS
  <1>4. l \in Seq(ChunkLine)
    BY <1>1, <1>2, <1>3, AppendedLines
  <1>5. PICK o \in BOOLEAN : o = (disk[flow].open /\ Pipeline!Exported = <<>>)
    OBVIOUS
  <1>6. disk' = [disk EXCEPT ![flow].lines = l, ![flow].open = @ /\ Pipeline!Exported = <<>>]
    BY <1>3 DEF Pipeline!WriteChunks
  <1>7. disk' = [disk EXCEPT ![flow].lines = l, ![flow].open = o]
    BY <1>1, <1>5, <1>6 DEF DiskFile
  <1>8. /\ disk' \in [Pipeline!Flow -> DiskFile]
        /\ disk'[flow].lines = l
        /\ \A g \in Pipeline!Flow : disk'[g].pairs = disk[g].pairs
        /\ \A g \in Pipeline!Flow \ {flow} : disk'[g] = disk[g]
    BY <1>1, <1>4, <1>7, DiskLines
  <1> QED BY <1>3, <1>8

\* A kill damages the file being written; it never changes an archive into
\* another readable one, and adds to the lines of a chunk file only what is
\* being exported to it.
LEMMA KilledDisk ==
    ASSUME PipelineTypeInv, Pipeline!Kill
    PROVE  /\ disk' \in [Pipeline!Flow -> DiskFile]
           /\ \A g \in Pipeline!Flow : disk'[g].pairs = disk[g].pairs
           /\ \A g \in Pipeline!Flow :
                 \/ disk'[g].lines = disk[g].lines
                 \/ /\ stage = "write" /\ g = flow
                    /\ \E new \in Seq(ChunkLine) : disk'[g].lines = Pipeline!Appended(g, new)
  <1>0. flow \in Pipeline!Flow /\ disk \in [Pipeline!Flow -> DiskFile]
    BY DEF PipelineTypeInv
  <1>1. disk' \in Pipeline!Damaged
    BY DEF Pipeline!Kill
  <1>2. CASE stage = "write"
    <2>1. PICK x \in Seq(Pipeline!Chunk) : x = Pipeline!Exported
      BY ExportedChunks
    <2>2. disk' \in {Pipeline!Cut(n, <<>>) : n \in 0 .. Len(x)}
             \cup {Pipeline!Cut(n, Pipeline!Torn) : n \in 0 .. (Len(x) - 1)}
             \cup {Pipeline!Cut(n, x[n + 1]) : n \in 0 .. (Len(x) - 1)}
      BY <1>1, <1>2, <2>1 DEF Pipeline!Damaged
    <2>3. \E n \in 0 .. Len(x) : \E last \in ChunkLine \cup {<<>>} : disk' = Pipeline!Cut(n, last)
      <3>1. \A n \in 0 .. (Len(x) - 1) : n \in 0 .. Len(x) /\ x[n + 1] \in ChunkLine
        BY DEF ChunkLine
      <3>2. Pipeline!Torn \in ChunkLine
        BY DEF ChunkLine
      <3> QED BY <2>2, <3>1, <3>2
    <2>4. PICK n \in 0 .. Len(x), last \in ChunkLine \cup {<<>>} : disk' = Pipeline!Cut(n, last)
      BY <2>3
    <2>5. PICK whole : whole = SubSeq(Pipeline!Exported, 1, n)
      OBVIOUS
    <2>6. PICK new : new = IF last = <<>> THEN whole ELSE Append(whole, last)
      OBVIOUS
    <2>7. new \in Seq(ChunkLine)
      <3>1. x \in Seq(ChunkLine)
        BY DEF ChunkLine
      <3>2. whole \in Seq(ChunkLine)
        BY <2>1, <2>5, <3>1
      <3> QED BY <2>6, <3>2
    <2>8. PICK l : l = Pipeline!Appended(flow, new)
      OBVIOUS
    <2>9. l \in Seq(ChunkLine)
      BY <1>0, <2>7, <2>8, AppendedLines
    <2>10. disk' = [disk EXCEPT ![flow].lines = l,
                                ![flow].open = IF new = <<>> THEN @ ELSE last # <<>>]
      BY <2>4, <2>5, <2>6, <2>8 DEF Pipeline!Cut
    <2>11. PICK o \in BOOLEAN : o = IF new = <<>> THEN disk[flow].open ELSE last # <<>>
      BY <1>0 DEF DiskFile
    <2>12. disk' = [disk EXCEPT ![flow].lines = l, ![flow].open = o]
      BY <1>0, <2>10, <2>11 DEF DiskFile
    <2>13. /\ disk' \in [Pipeline!Flow -> DiskFile]
           /\ disk'[flow].lines = l
           /\ \A g \in Pipeline!Flow : disk'[g].pairs = disk[g].pairs
           /\ \A g \in Pipeline!Flow \ {flow} : disk'[g] = disk[g]
      BY <1>0, <2>9, <2>12, DiskLines
    <2> QED BY <1>2, <2>7, <2>8, <2>13
  <1>3. CASE stage \in {"save", "final"}
    <2>1. disk' = disk \/ disk' = [disk EXCEPT ![flow].zip = "torn"]
      BY <1>1, <1>3 DEF Pipeline!Damaged
    <2>2. disk' \in [Pipeline!Flow -> DiskFile]
      BY <1>0, <2>1, TornDisk
    <2>3. ASSUME NEW g \in Pipeline!Flow
          PROVE  disk'[g].pairs = disk[g].pairs /\ disk'[g].lines = disk[g].lines
      <3>1. PICK d \in DiskFile : d = disk[g]
        BY <1>0
      <3>2. disk'[g] = d \/ disk'[g] = [d EXCEPT !.zip = "torn"]
        BY <1>0, <2>1, <3>1
      <3> QED BY <3>1, <3>2 DEF DiskFile
    <2> QED BY <2>2, <2>3
  <1>4. CASE stage = "meta"
    <2>1. disk' = disk \/ disk' = [disk EXCEPT ![flow].meta = "torn"]
      BY <1>1, <1>4 DEF Pipeline!Damaged
    <2>2. disk' \in [Pipeline!Flow -> DiskFile]
      BY <1>0, <2>1, TornDisk
    <2>3. ASSUME NEW g \in Pipeline!Flow
          PROVE  disk'[g].pairs = disk[g].pairs /\ disk'[g].lines = disk[g].lines
      <3>1. PICK d \in DiskFile : d = disk[g]
        BY <1>0
      <3>2. disk'[g] = d \/ disk'[g] = [d EXCEPT !.meta = "torn"]
        BY <1>0, <2>1, <3>1
      <3> QED BY <3>1, <3>2 DEF DiskFile
    <2> QED BY <2>2, <2>3
  <1>5. CASE stage \notin {"write", "save", "final", "meta"}
    <2>1. disk' = disk
      BY <1>1, <1>5 DEF Pipeline!Damaged
    <2> QED BY <1>0, <2>1
  <1> QED BY <1>2, <1>3, <1>4, <1>5
-----------------------------------------------------------------------------
\* Types of the initial state and of each tool's steps.
LEMMA PipelineInitTyped == ASSUME Pipeline!Init PROVE PipelineTypeInv
  <1>1. Len(ChunkCount) \in Nat
    BY PipelineConstants
  <1>2. \A S : <<>> \in Seq(S)
    OBVIOUS
  <1>3. disk \in [Pipeline!Flow -> DiskFile]
    BY <1>2 DEF Pipeline!Init, DiskFile
  <1>4. /\ articles = 0 /\ cursor = 0 /\ upto = 0 /\ since = 0 /\ offset = 0
        /\ stage = "idle" /\ flow = "rag" /\ option = FALSE /\ rewriting = FALSE
        /\ table = {} /\ lost = {} /\ todo = <<>> /\ pairs = <<>> /\ skipped = <<>>
    BY DEF Pipeline!Init
  <1>5. articles \in 0 .. Len(ChunkCount) /\ cursor \in 0 .. articles /\ upto \in 0 .. articles
    BY <1>1, <1>4
  <1> QED BY <1>2, <1>3, <1>4, <1>5 DEF PipelineTypeInv, PipelineStages, EmbedStages, Pipeline!Flow

\* The end of a tool.
LEMMA StopTyped ==
    ASSUME PipelineTypeInv, Pipeline!Stop, articles' = articles, cursor' \in 0 .. articles,
           disk' \in [Pipeline!Flow -> DiskFile], table' = table, rewriting' \in BOOLEAN,
           lost' \subseteq Pipeline!Chunk
    PROVE  PipelineTypeInv'
  <1>1. \A S : <<>> \in Seq(S)
    OBVIOUS
  <1>2. 0 \in 0 .. articles
    BY PipelineConstants DEF PipelineTypeInv
  <1> QED BY <1>1, <1>2 DEF Pipeline!Stop, PipelineTypeInv, PipelineStages, EmbedStages, Pipeline!Flow

\* The table's newest article is one of the table.
LEMMA NewestIngested ==
    ASSUME PipelineTypeInv
    PROVE  /\ Pipeline!MaxIngested \in Nat
           /\ Pipeline!MaxIngested = 0 \/ \E r \in table : r.id[1] = Pipeline!MaxIngested
  <1>1. CASE table = {}
    BY <1>1 DEF Pipeline!MaxIngested
  <1>2. CASE table # {}
    <2> DEFINE M == Len(ChunkCount)
               T == {M - r.id[1] : r \in table}
    <2>1. M \in Nat /\ \A r \in table : r.id[1] \in 1 .. M
      BY PipelineConstants, ChunkShape DEF PipelineTypeInv, Pipeline!Pair
    <2>2. T \subseteq Nat /\ T # {}
      BY <1>2, <2>1
    <2>3. PICK x \in T : \A y \in T : x <= y
      BY <2>2, LeastNumber
    <2>4. PICK r \in table : x = M - r.id[1]
      OBVIOUS
    <2>5. \A q \in table : M - r.id[1] <= M - q.id[1]
      BY <2>3, <2>4
    <2>6. \A q \in table : q.id[1] <= r.id[1]
      BY <2>1, <2>5
    <2>7. \E a \in Pipeline!Articles : /\ \E q \in table : q.id[1] = a
                                       /\ \A q \in table : q.id[1] <= a
      BY <2>1, <2>6 DEF Pipeline!Articles
    <2>8. Pipeline!MaxIngested \in Pipeline!Articles
            /\ \E q \in table : q.id[1] = Pipeline!MaxIngested
      BY <1>2, <2>7 DEF Pipeline!MaxIngested
    <2> QED BY <2>1, <2>8 DEF Pipeline!Articles
  <1> QED BY <1>1, <1>2

\* Tools being started.
LEMMA StartTyped ==
    ASSUME PipelineTypeInv,
           \/ Pipeline!ExportChunks \/ Pipeline!SyncStart \/ Pipeline!EmbedStart
           \/ Pipeline!ImportStart
    PROVE  PipelineTypeInv'
  <1> USE DEF Pipeline!Start, Pipeline!outside, Pipeline!store, Pipeline!embedding
  <1>1. articles \in 0 .. articles /\ articles \in Nat /\ cursor \in Nat /\ articles \in 0 .. Len(ChunkCount)
    BY PipelineConstants DEF PipelineTypeInv
  <1>2. CASE Pipeline!ExportChunks
    <2>1. disk' \in [Pipeline!Flow -> DiskFile]
      <3>1. "rag" \in Pipeline!Flow
        BY DEF Pipeline!Flow
      <3>2. disk' = disk \/ disk' = Pipeline!Truncated("rag")
        BY <1>2 DEF Pipeline!ExportChunks
      <3> QED BY <3>1, <3>2, TruncatedDisk DEF PipelineTypeInv
    <2>2. since' \in Nat /\ upto' \in 0 .. articles /\ rewriting' \in BOOLEAN
      BY <1>1, <1>2 DEF Pipeline!ExportChunks, PipelineTypeInv
    <2> QED BY <1>2, <2>1, <2>2 DEF Pipeline!ExportChunks, PipelineTypeInv, PipelineStages,
            EmbedStages, Pipeline!Flow
  <1>3. CASE Pipeline!SyncStart
    <2>1. disk' \in [Pipeline!Flow -> DiskFile]
      BY <1>3, TruncatedDisk DEF Pipeline!SyncStart, Pipeline!Flow
    <2>2. since' \in Nat /\ upto' \in 0 .. articles
      BY <1>1, <1>3, NewestIngested DEF Pipeline!SyncStart
    <2> QED BY <1>3, <2>1, <2>2 DEF Pipeline!SyncStart, PipelineTypeInv, PipelineStages,
            EmbedStages, Pipeline!Flow
  <1>4. CASE Pipeline!EmbedStart
    BY <1>4 DEF Pipeline!EmbedStart, PipelineTypeInv, PipelineStages, EmbedStages
  <1>5. CASE Pipeline!ImportStart
    BY <1>5 DEF Pipeline!ImportStart, PipelineTypeInv, PipelineStages, EmbedStages
  <1> QED BY <1>2, <1>3, <1>4, <1>5

\* rag_export and the export of sync_vectors.
LEMMA WriteTyped ==
    ASSUME PipelineTypeInv,
           Pipeline!WriteChunks \/ Pipeline!NothingToSync \/ Pipeline!SaveState
    PROVE  PipelineTypeInv'
  <1> USE DEF Pipeline!outside, Pipeline!store, Pipeline!history
  <1>1. CASE Pipeline!WriteChunks
    <2>1. disk' \in [Pipeline!Flow -> DiskFile]
      BY <1>1, WrittenDisk
    <2>2. rewriting' \in BOOLEAN
      BY <1>1 DEF Pipeline!WriteChunks
    <2>3. CASE flow = "rag" /\ option
      BY <1>1, <2>1, <2>2, <2>3, StopTyped DEF Pipeline!WriteChunks, PipelineTypeInv
    <2>4. CASE ~ (flow = "rag" /\ option)
      <3>1. UNCHANGED Pipeline!job /\ stage' \in {"state", "nothing", "load"}
              /\ (stage' = "state" => flow = "rag") /\ (stage' = "nothing" => flow = "sync")
        BY <1>1, <2>4 DEF Pipeline!WriteChunks, PipelineTypeInv, Pipeline!Flow
      <3> QED BY <1>1, <2>1, <2>2, <3>1 DEF Pipeline!WriteChunks, PipelineTypeInv,
              PipelineStages, EmbedStages, Pipeline!job, Pipeline!embedding
    <2> QED BY <2>3, <2>4
  <1>2. CASE Pipeline!NothingToSync
    BY <1>2, StopTyped DEF Pipeline!NothingToSync, PipelineTypeInv
  <1>3. CASE Pipeline!SaveState
    BY <1>3, StopTyped DEF Pipeline!SaveState, PipelineTypeInv
  <1> QED BY <1>1, <1>2, <1>3

\* The elements of a slice.
LEMMA SliceElements ==
    ASSUME NEW S, NEW s \in Seq(S), NEW m \in Nat, NEW n \in Nat, m <= n, n <= Len(s)
    PROVE  /\ Pipeline!Elements(SubSeq(s, m + 1, n)) = {s[i] : i \in (m + 1) .. n}
  <1>1. m + 1 \in 1 .. Len(s) + 1 /\ n \in m .. Len(s) /\ Len(s) \in Nat
    OBVIOUS
  <1>2. /\ Len(SubSeq(s, m + 1, n)) = n - m
        /\ \A j \in 1 .. (n - m) : SubSeq(s, m + 1, n)[j] = s[m + j]
    BY <1>1, SubSeqProperties
  <1>3. \A j \in 1 .. (n - m) : m + j \in (m + 1) .. n
    OBVIOUS
  <1>4. \A i \in (m + 1) .. n : i - m \in 1 .. (n - m) /\ m + (i - m) = i
    OBVIOUS
  <1>5. Pipeline!Elements(SubSeq(s, m + 1, n)) = {s[m + j] : j \in 1 .. (n - m)}
    BY <1>2 DEF Pipeline!Elements
  <1>6. \A i \in (m + 1) .. n : \E j \in 1 .. (n - m) : s[i] = s[m + j]
    BY <1>4
  <1> QED BY <1>3, <1>5, <1>6

\* A chunk file that parses.
LEMMA ReadableLines ==
    ASSUME PipelineTypeInv, NEW f \in Pipeline!Flow, Pipeline!Readable(f)
    PROVE  disk[f].lines \in Seq(Pipeline!Chunk)
  <1>1. PICK l \in Seq(ChunkLine) : l = disk[f].lines
    BY DEF PipelineTypeInv, DiskFile
  <1>2. \A i \in 1 .. Len(l) : l[i] # Pipeline!Torn
    BY <1>1 DEF Pipeline!Readable, Pipeline!Elements
  <1>3. \A i \in 1 .. Len(l) : l[i] \in Pipeline!Chunk
    BY <1>2, ElementOfSeq DEF ChunkLine
  <1>4. l \in Seq(Pipeline!Chunk)
    BY <1>3
  <1> QED BY <1>1, <1>4

\* What Load takes from the files: the archive, and the lines without a vector.
LEMMA LoadedTodo ==
    ASSUME PipelineTypeInv, Pipeline!Load
    PROVE  /\ todo' \in Seq(Pipeline!Chunk)
           /\ Pipeline!Elements(todo')
                = Pipeline!Elements(disk[flow].lines) \ Pipeline!Ids(disk[flow].pairs)
           /\ Distinct(disk[flow].lines) => Distinct(todo')
  <1> DEFINE l == disk[flow].lines
             P == {i \in 1 .. Len(l) : l[i] \notin Pipeline!Ids(disk[flow].pairs)}
  <1>1. l \in Seq(Pipeline!Chunk)
    BY ReadableLines DEF Pipeline!Load, PipelineTypeInv
  <1>2. todo' = Pipeline!At(l, P)
    BY DEF Pipeline!Load
  <1>3. P \in SUBSET (1 .. Len(l))
    OBVIOUS
  <1>4. {l[i] : i \in P} = Pipeline!Elements(l) \ Pipeline!Ids(disk[flow].pairs)
    BY DEF Pipeline!Elements
  <1> HIDE DEF P
  <1>5. /\ Pipeline!At(l, P) \in Seq(Pipeline!Chunk)
        /\ Pipeline!Elements(Pipeline!At(l, P)) = {l[i] : i \in P}
        /\ Distinct(l) => Distinct(Pipeline!At(l, P))
    <2> HIDE DEF l
    <2> QED BY <1>1, <1>3, AtPlaces
  <1> QED BY <1>2, <1>4, <1>5

\* What load_pairs and _row_values keep: the vectors whose chunk is in the file.
LEMMA LoadedPairs ==
    ASSUME PipelineTypeInv, Pipeline!ImportLoad
    PROVE  /\ pairs' \in Seq(Pipeline!Pair)
           /\ Pipeline!Elements(pairs') \subseteq Pipeline!Elements(disk[flow].pairs)
           /\ Pipeline!Ids(pairs')
                = Pipeline!Ids(disk[flow].pairs) \cap Pipeline!Elements(disk[flow].lines)
  <1> DEFINE s == disk[flow].pairs
             P == {i \in 1 .. Len(s) : s[i].id \in Pipeline!Elements(disk[flow].lines)}
  <1>1. s \in Seq(Pipeline!Pair)
    BY DEF PipelineTypeInv, DiskFile
  <1>2. pairs' = Pipeline!At(s, P)
    BY DEF Pipeline!ImportLoad
  <1>3. P \in SUBSET (1 .. Len(s))
    OBVIOUS
  <1>4. {s[i] : i \in P} \subseteq Pipeline!Elements(s)
    BY DEF Pipeline!Elements
  <1>5. {s[i].id : i \in P} = Pipeline!Ids(s) \cap Pipeline!Elements(disk[flow].lines)
    BY DEF Pipeline!Ids
  <1> HIDE DEF P
  <1>6. /\ Pipeline!At(s, P) \in Seq(Pipeline!Pair)
        /\ Pipeline!Elements(Pipeline!At(s, P)) = {s[i] : i \in P}
    <2> HIDE DEF s
    <2> QED BY <1>1, <1>3, AtPlaces
  <1>7. Pipeline!Ids(pairs') = {e.id : e \in Pipeline!Elements(pairs')}
    BY DEF Pipeline!Ids, Pipeline!Elements
  <1>8. Pipeline!Ids(pairs') = {s[i].id : i \in P}
    BY <1>2, <1>6, <1>7
  <1> QED BY <1>2, <1>4, <1>5, <1>6, <1>8

\* The rows of the next transaction and those after them.
LEMMA CopyPlaces ==
    ASSUME PipelineTypeInv, stage = "copy", offset < Len(pairs)
    PROVE  /\ Pipeline!CopyEnd \in Nat /\ Pipeline!CopyEnd <= Len(pairs)
           /\ Pipeline!Elements(Pipeline!CopyBatch) = {pairs[i] : i \in (offset + 1) .. Pipeline!CopyEnd}
           /\ Pipeline!Elements(Pipeline!CopyBatch) \subseteq Pipeline!Elements(pairs)
           /\ (offset + 1) .. Len(pairs)
                = ((offset + 1) .. Pipeline!CopyEnd) \cup ((Pipeline!CopyEnd + 1) .. Len(pairs))
  <1>1. pairs \in Seq(Pipeline!Pair) /\ offset \in Nat /\ Len(pairs) \in Nat
    BY DEF PipelineTypeInv
  <1>2. PICK e : e = Pipeline!CopyEnd
    OBVIOUS
  <1>3. e \in Nat /\ offset < e /\ e <= Len(pairs)
    BY <1>1, <1>2, PipelineConstants DEF Pipeline!CopyEnd
  <1>4. Pipeline!CopyBatch = SubSeq(pairs, offset + 1, e)
    BY <1>2 DEF Pipeline!CopyBatch
  <1>5. Pipeline!Elements(SubSeq(pairs, offset + 1, e)) = {pairs[i] : i \in (offset + 1) .. e}
    BY <1>1, <1>3, SliceElements
  <1>6. \A i \in (offset + 1) .. e : i \in 1 .. Len(pairs)
    BY <1>1, <1>3
  <1>7. {pairs[i] : i \in (offset + 1) .. e} \subseteq Pipeline!Elements(pairs)
    BY <1>6 DEF Pipeline!Elements
  <1>8. (offset + 1) .. Len(pairs) = ((offset + 1) .. e) \cup ((e + 1) .. Len(pairs))
    BY <1>1, <1>3
  <1> QED BY <1>2, <1>3, <1>4, <1>5, <1>7, <1>8

\* The ids of the pairs from a place on.
LEMMA IdsFrom ==
    ASSUME NEW s \in Seq(Pipeline!Pair), NEW m \in Nat, m <= Len(s)
    PROVE  Pipeline!Ids(SubSeq(s, m + 1, Len(s))) = {s[i].id : i \in (m + 1) .. Len(s)}
  <1>1. PICK n \in Nat : n = Len(s)
    BY LenProperties
  <1>2. PICK t : t = SubSeq(s, m + 1, n)
    OBVIOUS
  <1>3. Pipeline!Elements(SubSeq(s, m + 1, n)) = {s[i] : i \in (m + 1) .. n}
    <2>1. m <= n /\ n <= Len(s)
      BY <1>1
    <2> QED BY <1>1, <2>1, SliceElements
  <1>4. Pipeline!Ids(t) = {e.id : e \in Pipeline!Elements(t)}
    BY DEF Pipeline!Ids, Pipeline!Elements
  <1> QED BY <1>1, <1>2, <1>3, <1>4

\* Rows still to be copied.
LEMMA NotCopiedPlaces ==
    ASSUME PipelineTypeInv, stage = "copy"
    PROVE  /\ Pipeline!NotCopied = {pairs[i].id : i \in (offset + 1) .. Len(pairs)}
           /\ Pipeline!NotCopied \subseteq Pipeline!Chunk
  <1>1. pairs \in Seq(Pipeline!Pair) /\ offset \in Nat /\ Len(pairs) \in Nat /\ offset <= Len(pairs)
    BY DEF PipelineTypeInv
  <1>2. Pipeline!NotCopied = {pairs[i].id : i \in (offset + 1) .. Len(pairs)}
    BY <1>1, IdsFrom DEF Pipeline!NotCopied
  <1>3. \A i \in (offset + 1) .. Len(pairs) : i \in 1 .. Len(pairs)
    BY <1>1
  <1>4. \A i \in 1 .. Len(pairs) : pairs[i].id \in Pipeline!Chunk
    <2>1. \A i \in 1 .. Len(pairs) : pairs[i] \in Pipeline!Pair
      BY <1>1, ElementOfSeq
    <2> QED BY <2>1 DEF Pipeline!Pair
  <1> QED BY <1>2, <1>3, <1>4

\* A batch adds its ids, each with the vector of its own text.
LEMMA EmbeddedPairs ==
    ASSUME PipelineTypeInv, Pipeline!EmbedBatch
    PROVE  /\ pairs' \in Seq(Pipeline!Pair)
           /\ Pipeline!Elements(pairs') = Pipeline!Elements(pairs)
                \cup {[id |-> todo[i], vec |-> todo[i]] : i \in (offset + 1) .. Pipeline!BatchEnd}
           /\ Pipeline!Ids(pairs') = Pipeline!Ids(pairs)
                \cup {todo[i] : i \in (offset + 1) .. Pipeline!BatchEnd}
  <1> DEFINE n == Len(Pipeline!Batch)
             I == (offset + 1) .. Pipeline!BatchEnd
             pair(c) == [id |-> c, vec |-> c]
  <1>0. stage = "batch"
    BY DEF Pipeline!EmbedBatch
  <1>1. PICK answer \in Pipeline!Answers :
          pairs' = pairs \o [j \in 1 .. n |->
                               [id |-> Pipeline!BatchId(j), vec |-> Pipeline!ByIndex(answer)[j]]]
    BY DEF Pipeline!EmbedBatch
  <1>2. n \in Nat /\ \A j \in 1 .. n : /\ Pipeline!BatchId(j) = todo[offset + j]
                                       /\ Pipeline!Batch[j] = todo[offset + j]
                                       /\ offset + j \in I /\ todo[offset + j] \in Pipeline!Chunk
    <2>1. n \in Nat /\ Pipeline!Batch \in Seq(Pipeline!Chunk)
      BY <1>0, BatchPlaces
    <2>2. \A j \in 1 .. n : Pipeline!Batch[j] \in Pipeline!Chunk
      BY <2>1, ElementOfSeq
    <2> QED BY <1>0, <2>1, <2>2, BatchPlaces
  <1>3. \A j \in 1 .. n : Pipeline!ByIndex(answer)[j] = todo[offset + j]
    BY <1>0, <1>2, SortedAnswer
  <1>4. \A i \in I : i - offset \in 1 .. n /\ offset + (i - offset) = i
    BY <1>0, BatchPlaces
  <1> HIDE DEF n, I
  <1>5. PICK new : new = [j \in 1 .. n |-> pair(todo[offset + j])]
    OBVIOUS
  <1>6. pairs' = pairs \o new
    BY <1>1, <1>2, <1>3, <1>5
  <1>7. new \in Seq(Pipeline!Pair) /\ Len(new) = n
    BY <1>2, <1>5 DEF Pipeline!Pair
  <1> HIDE DEF pair
  <1>8. Pipeline!Elements(new) = {pair(todo[i]) : i \in I}
    <2>1. Pipeline!Elements(new) = {pair(todo[offset + j]) : j \in 1 .. n}
      BY <1>5, <1>7 DEF Pipeline!Elements
    <2>2. \A i \in I : \E j \in 1 .. n : pair(todo[i]) = pair(todo[offset + j])
      BY <1>4
    <2> QED BY <1>2, <2>1, <2>2
  <1>9. /\ pairs' \in Seq(Pipeline!Pair)
        /\ Pipeline!Elements(pairs') = Pipeline!Elements(pairs) \cup {pair(todo[i]) : i \in I}
    BY <1>6, <1>7, <1>8, ElementsConcat DEF PipelineTypeInv
  <1>10. /\ Pipeline!Ids(pairs') = {e.id : e \in Pipeline!Elements(pairs')}
         /\ Pipeline!Ids(pairs) = {e.id : e \in Pipeline!Elements(pairs)}
    BY DEF Pipeline!Ids, Pipeline!Elements
  <1>11. \A c : pair(c).id = c
    BY DEF pair
  <1>12. Pipeline!Ids(pairs') = Pipeline!Ids(pairs) \cup {todo[i] : i \in I}
    BY <1>9, <1>10, <1>11
  <1> QED BY <1>9, <1>12 DEF pair, I

\* A failed batch adds its ids to failed_ids.
LEMMA SkippedIds ==
    ASSUME PipelineTypeInv, Pipeline!SkipBatch
    PROVE  /\ skipped' \in Seq(Pipeline!Chunk)
           /\ Pipeline!Elements(skipped') = Pipeline!Elements(skipped)
                \cup {todo[i] : i \in (offset + 1) .. Pipeline!BatchEnd}
           /\ lost' = lost \cup {todo[i] : i \in (offset + 1) .. Pipeline!BatchEnd}
           /\ {todo[i] : i \in (offset + 1) .. Pipeline!BatchEnd} \subseteq Pipeline!Chunk
  <1> DEFINE n == Len(Pipeline!Batch)
             I == (offset + 1) .. Pipeline!BatchEnd
  <1>0. stage = "batch"
    BY DEF Pipeline!SkipBatch
  <1>1. n \in Nat /\ Pipeline!Batch \in Seq(Pipeline!Chunk)
    BY <1>0, BatchPlaces
  <1>2. \A j \in 1 .. n : /\ Pipeline!BatchId(j) = Pipeline!Batch[j]
                          /\ Pipeline!Batch[j] = todo[offset + j]
                          /\ offset + j \in I
    BY <1>0, BatchPlaces
  <1>3. \A i \in I : i - offset \in 1 .. n /\ offset + (i - offset) = i
    BY <1>0, BatchPlaces
  <1> HIDE DEF n, I
  <1>4. PICK new : new = [j \in 1 .. n |-> Pipeline!Batch[j]]
    OBVIOUS
  <1>5. new \in Seq(Pipeline!Chunk) /\ Len(new) = n
    BY <1>1, <1>4, ElementOfSeq DEF n
  <1>6. Pipeline!Elements(new) = {todo[i] : i \in I} /\ Pipeline!Elements(Pipeline!Batch) = {todo[i] : i \in I}
    <2>1. Pipeline!Elements(new) = {Pipeline!Batch[j] : j \in 1 .. n}
            /\ Pipeline!Elements(Pipeline!Batch) = {Pipeline!Batch[j] : j \in 1 .. n}
      BY <1>4, <1>5 DEF Pipeline!Elements, n
    <2>2. \A i \in I : \E j \in 1 .. n : todo[i] = Pipeline!Batch[j]
      BY <1>2, <1>3
    <2> QED BY <1>2, <2>1, <2>2
  <1>7. skipped' = skipped \o new
    BY <1>2, <1>4 DEF Pipeline!SkipBatch, n
  <1>8. /\ skipped' \in Seq(Pipeline!Chunk)
        /\ Pipeline!Elements(skipped') = Pipeline!Elements(skipped) \cup {todo[i] : i \in I}
    BY <1>5, <1>6, <1>7, ElementsConcat DEF PipelineTypeInv
  <1>9. lost' = lost \cup {todo[i] : i \in I}
    BY <1>6 DEF Pipeline!SkipBatch
  <1>10. {todo[i] : i \in I} \subseteq Pipeline!Chunk
    BY <1>1, <1>6, ElementsSeq
  <1> QED BY <1>8, <1>9, <1>10 DEF I

\* meta.json leaves lines and archives alone.
LEMMA MetaDisk ==
    ASSUME PipelineTypeInv, Pipeline!WriteMeta
    PROVE  /\ disk' \in [Pipeline!Flow -> DiskFile]
           /\ \A g \in Pipeline!Flow : /\ disk'[g].lines = disk[g].lines
                                       /\ disk'[g].open = disk[g].open
                                       /\ disk'[g].pairs = disk[g].pairs
  <1>1. PICK v \in {"ok", "torn"} : disk' = [disk EXCEPT ![flow].meta = v]
    BY DEF Pipeline!WriteMeta
  <1>2. disk \in [Pipeline!Flow -> DiskFile] /\ flow \in Pipeline!Flow
    BY DEF PipelineTypeInv
  <1>3. disk' \in [Pipeline!Flow -> DiskFile]
    BY <1>1, <1>2 DEF DiskFile
  <1>4. ASSUME NEW g \in Pipeline!Flow
        PROVE  /\ disk'[g].lines = disk[g].lines /\ disk'[g].open = disk[g].open
               /\ disk'[g].pairs = disk[g].pairs
    <2>1. PICK d \in DiskFile : d = disk[g]
      BY <1>2
    <2>2. disk'[g] = d \/ disk'[g] = [d EXCEPT !.meta = v]
      BY <1>1, <1>2, <2>1
    <2> QED BY <2>1, <2>2 DEF DiskFile
  <1> QED BY <1>3, <1>4

\* embed_chunks.
LEMMA EmbedTyped ==
    ASSUME PipelineTypeInv,
           \/ Pipeline!Load \/ Pipeline!LoadRaises \/ Pipeline!EmbedBatch \/ Pipeline!SkipBatch
           \/ Pipeline!Save \/ Pipeline!FinalSave \/ Pipeline!WriteMeta \/ Pipeline!ReportFailed
    PROVE  PipelineTypeInv'
  <1> USE DEF Pipeline!outside, Pipeline!store, Pipeline!history
  <1>1. CASE Pipeline!Load
    <2>1. todo' \in Seq(Pipeline!Chunk) /\ Len(todo') \in Nat
      BY <1>1, LoadedTodo
    <2>2. pairs' \in Seq(Pipeline!Pair)
      BY <1>1 DEF Pipeline!Load, PipelineTypeInv, DiskFile
    <2>3. /\ offset' = 0 /\ skipped' = <<>> /\ skipped' \in Seq(Pipeline!Chunk)
          /\ stage' = IF 0 < Len(todo') THEN "batch" ELSE "final"
      BY <1>1 DEF Pipeline!Load, Pipeline!Continue
    <2>4. /\ stage' \in {"batch", "final"} /\ offset' <= Len(todo')
          /\ stage' = "batch" => offset' < Len(todo')
          /\ stage' = "final" => offset' = Len(todo')
      BY <2>1, <2>3
    <2> QED BY <1>1, <2>1, <2>2, <2>3, <2>4 DEF Pipeline!Load, PipelineTypeInv, PipelineStages,
            EmbedStages
  <1>2. CASE Pipeline!LoadRaises
    BY <1>2, StopTyped DEF Pipeline!LoadRaises, PipelineTypeInv
  <1>3. CASE Pipeline!EmbedBatch
    <2>0. stage = "batch"
      BY <1>3 DEF Pipeline!EmbedBatch
    <2>1. pairs' \in Seq(Pipeline!Pair)
      BY <1>3, EmbeddedPairs
    <2>2. PICK e \in Nat : e = Pipeline!BatchEnd
      BY <2>0, BatchPlaces
    <2>3. e <= Len(todo) /\ Len(todo) \in Nat
      BY <2>0, <2>2, BatchPlaces DEF PipelineTypeInv
    <2>4. stage' = "save" \/ stage' = IF e < Len(todo) THEN "batch" ELSE "final"
      BY <1>3, <2>2 DEF Pipeline!EmbedBatch, Pipeline!Continue
    <2>5. /\ stage' \in {"save", "batch", "final"}
          /\ stage' = "batch" => e < Len(todo)
          /\ stage' = "final" => e = Len(todo)
      BY <2>3, <2>4
    <2>6. offset' = e /\ todo' = todo
      BY <1>3, <2>2 DEF Pipeline!EmbedBatch
    <2> QED BY <1>3, <2>1, <2>3, <2>5, <2>6 DEF Pipeline!EmbedBatch, PipelineTypeInv,
            PipelineStages, EmbedStages
  <1>4. CASE Pipeline!SkipBatch
    <2>0. stage = "batch"
      BY <1>4 DEF Pipeline!SkipBatch
    <2>1. skipped' \in Seq(Pipeline!Chunk) /\ lost' \subseteq Pipeline!Chunk
      BY <1>4, SkippedIds DEF PipelineTypeInv
    <2>2. PICK e \in Nat : e = Pipeline!BatchEnd
      BY <2>0, BatchPlaces
    <2>3. e <= Len(todo) /\ Len(todo) \in Nat
      BY <2>0, <2>2, BatchPlaces DEF PipelineTypeInv
    <2>4. stage' = IF e < Len(todo) THEN "batch" ELSE "final"
      BY <1>4, <2>2 DEF Pipeline!SkipBatch, Pipeline!Continue
    <2>5. /\ stage' \in {"batch", "final"}
          /\ stage' = "batch" => e < Len(todo)
          /\ stage' = "final" => e = Len(todo)
      BY <2>3, <2>4
    <2>6. offset' = e /\ todo' = todo
      BY <1>4, <2>2 DEF Pipeline!SkipBatch
    <2> QED BY <1>4, <2>1, <2>3, <2>5, <2>6 DEF Pipeline!SkipBatch, PipelineTypeInv,
            PipelineStages, EmbedStages
  <1>5. CASE Pipeline!Save
    <2>1. disk' \in [Pipeline!Flow -> DiskFile]
      BY <1>5, DiskPairs DEF Pipeline!Save
    <2>2. /\ stage = "save" /\ offset \in Nat /\ Len(todo) \in Nat /\ offset <= Len(todo)
          /\ stage' = IF offset < Len(todo) THEN "batch" ELSE "final"
      BY <1>5 DEF Pipeline!Save, Pipeline!Continue, PipelineTypeInv, EmbedStages
    <2>3. /\ stage' \in {"batch", "final"}
          /\ stage' = "batch" => offset < Len(todo)
          /\ stage' = "final" => offset = Len(todo)
      BY <2>2
    <2> QED BY <1>5, <2>1, <2>2, <2>3 DEF Pipeline!Save, PipelineTypeInv, PipelineStages, EmbedStages
  <1>6. CASE Pipeline!FinalSave
    <2>1. disk' \in [Pipeline!Flow -> DiskFile]
      BY <1>6, DiskPairs DEF Pipeline!FinalSave
    <2> QED BY <1>6, <2>1 DEF Pipeline!FinalSave, PipelineTypeInv, PipelineStages, EmbedStages,
            Pipeline!job, Pipeline!embedding
  <1>7. CASE Pipeline!WriteMeta
    <2>1. disk' \in [Pipeline!Flow -> DiskFile]
      BY <1>7, MetaDisk
    <2>2. CASE pairs = <<>>
      BY <1>7, <2>1, <2>2, StopTyped DEF Pipeline!WriteMeta, PipelineTypeInv
    <2>3. CASE pairs # <<>>
      BY <1>7, <2>1, <2>3 DEF Pipeline!WriteMeta, PipelineTypeInv, PipelineStages, EmbedStages,
         Pipeline!job, Pipeline!embedding
    <2> QED BY <2>2, <2>3
  <1>8. CASE Pipeline!ReportFailed
    <2>1. CASE flow = "sync"
      BY <1>8, <2>1 DEF Pipeline!ReportFailed, PipelineTypeInv, PipelineStages, EmbedStages,
         Pipeline!job, Pipeline!embedding
    <2>2. CASE flow # "sync"
      BY <1>8, <2>2, StopTyped DEF Pipeline!ReportFailed, PipelineTypeInv
    <2> QED BY <2>1, <2>2
  <1> QED BY <1>1, <1>2, <1>3, <1>4, <1>5, <1>6, <1>7, <1>8

\* import_pgvector.
LEMMA ImportTyped ==
    ASSUME PipelineTypeInv,
           \/ Pipeline!ImportRaises \/ Pipeline!ImportLoad \/ Pipeline!CopyRows
           \/ Pipeline!Copied \/ Pipeline!UpsertIncremental \/ Pipeline!BuildIndex
    PROVE  PipelineTypeInv'
  <1> USE DEF Pipeline!outside, Pipeline!store, Pipeline!history
  <1>1. CASE Pipeline!ImportRaises
    BY <1>1, StopTyped DEF Pipeline!ImportRaises, PipelineTypeInv
  <1>2. CASE Pipeline!ImportLoad
    <2>1. pairs' \in Seq(Pipeline!Pair) /\ Len(pairs') \in Nat
      BY <1>2, LoadedPairs
    <2>2. lost' \subseteq Pipeline!Chunk
      BY <1>2 DEF Pipeline!ImportLoad, PipelineTypeInv
    <2>3. /\ offset' = 0 /\ todo' = <<>> /\ skipped' = <<>> /\ stage' \in {"copy", "upsert"}
          /\ offset' <= Len(pairs') /\ <<>> \in Seq(Pipeline!Chunk)
      BY <1>2, <2>1 DEF Pipeline!ImportLoad
    <2> QED BY <1>2, <2>1, <2>2, <2>3 DEF Pipeline!ImportLoad, PipelineTypeInv, PipelineStages,
            EmbedStages
  <1>3. CASE Pipeline!CopyRows
    <2>1. stage = "copy" /\ offset < Len(pairs)
      BY <1>3 DEF Pipeline!CopyRows
    <2>2. CASE Pipeline!Duplicate
      BY <1>3, <2>1, <2>2, NotCopiedPlaces, StopTyped DEF Pipeline!CopyRows, PipelineTypeInv
    <2>3. CASE ~ Pipeline!Duplicate
      <3>1. Pipeline!CopyEnd \in Nat /\ Pipeline!CopyEnd <= Len(pairs)
        BY <2>1, CopyPlaces
      <3>2. Pipeline!Elements(Pipeline!CopyBatch) \subseteq Pipeline!Pair
        BY <2>1, CopyPlaces, ElementsSeq DEF PipelineTypeInv
      <3> QED BY <1>3, <2>3, <3>1, <3>2 DEF Pipeline!CopyRows, PipelineTypeInv, EmbedStages
    <2> QED BY <2>2, <2>3
  <1>4. CASE Pipeline!Copied
    BY <1>4 DEF Pipeline!Copied, PipelineTypeInv, PipelineStages, EmbedStages, Pipeline!job,
       Pipeline!embedding
  <1>5. CASE Pipeline!UpsertIncremental
    <2>1. CASE pairs = <<>> /\ kept = 0
      BY <1>5, <2>1 DEF Pipeline!UpsertIncremental, PipelineTypeInv, PipelineStages, EmbedStages,
         Pipeline!job, Pipeline!embedding
    <2>2. CASE ~ (pairs = <<>> /\ kept = 0)
      BY <1>5, <2>2, StopTyped DEF Pipeline!UpsertIncremental, PipelineTypeInv
    <2> QED BY <2>1, <2>2
  <1>6. CASE Pipeline!BuildIndex
    BY <1>6, StopTyped DEF Pipeline!BuildIndex, PipelineTypeInv
  <1> QED BY <1>1, <1>2, <1>3, <1>4, <1>5, <1>6

\* Types are kept by every step.
LEMMA PipelineTyped ==
    ASSUME PipelineTypeInv, [Pipeline!Next]_(Pipeline!vectorVars) PROVE PipelineTypeInv'
  <1> USE DEF Pipeline!outside, Pipeline!store, Pipeline!history
  <1>1. CASE Pipeline!Publish
    <2>1. articles \in Nat /\ articles' = articles + 1 /\ articles' \in 0 .. Len(ChunkCount)
      BY <1>1, PipelineConstants DEF Pipeline!Publish, PipelineTypeInv
    <2>2. cursor' \in 0 .. articles' /\ upto' \in 0 .. articles'
      BY <1>1, <2>1 DEF Pipeline!Publish, PipelineTypeInv, Pipeline!job
    <2> QED BY <1>1, <2>1, <2>2 DEF Pipeline!Publish, PipelineTypeInv, Pipeline!job,
            Pipeline!embedding
  <1>2. CASE Pipeline!Kill
    <2>1. disk' \in [Pipeline!Flow -> DiskFile]
      BY <1>2, KilledDisk
    <2>2. lost' \subseteq Pipeline!Chunk
      BY <1>2, NotCopiedPlaces DEF Pipeline!Kill, PipelineTypeInv
    <2> QED BY <1>2, <2>1, <2>2, StopTyped DEF Pipeline!Kill, PipelineTypeInv
  <1>3. CASE UNCHANGED Pipeline!vectorVars
    BY <1>3 DEF Pipeline!vectorVars, PipelineTypeInv, Pipeline!job, Pipeline!embedding
  <1> QED BY <1>1, <1>2, <1>3, StartTyped, WriteTyped, EmbedTyped, ImportTyped DEF Pipeline!Next

(***************************************************************************)
(* Vectors stay with their chunks.                                         *)
(***************************************************************************)

\* Steps that neither embed, import nor copy: the pairs in memory are kept,
\* dropped or taken from an archive, and an archive is kept or takes them.
LEMMA CarriesMatch ==
    ASSUME MatchInv,
           pairs' = pairs \/ pairs' = <<>> \/ (\E f \in Pipeline!Flow : pairs' = disk[f].pairs),
           \A f \in Pipeline!Flow : disk'[f].pairs = disk[f].pairs \/ disk'[f].pairs = pairs,
           table' = table
    PROVE  MatchInv'
  <1>1. Matching(<<>>)
    BY DEF Matching, Pipeline!Elements
  <1>2. Matching(pairs) /\ \A f \in Pipeline!Flow : Matching(disk[f].pairs)
    BY DEF MatchInv
  <1>3. Matching(pairs')
    BY <1>1, <1>2
  <1>4. \A f \in Pipeline!Flow : Matching(disk'[f].pairs)
    BY <1>2
  <1> QED BY <1>3, <1>4 DEF MatchInv, Matching

\* Vectors stay matched in every step.
LEMMA NextMatch ==
    ASSUME PipelineTypeInv, MatchInv, [Pipeline!Next]_(Pipeline!vectorVars) PROVE MatchInv'
  <1> USE DEF Pipeline!outside, Pipeline!store, Pipeline!history, Pipeline!job, Pipeline!embedding
  <1>1. CASE Pipeline!Publish \/ UNCHANGED Pipeline!vectorVars
    BY <1>1, CarriesMatch DEF Pipeline!Publish, Pipeline!vectorVars
  <1>2. CASE Pipeline!ExportChunks \/ Pipeline!SyncStart
    <2>1. "rag" \in Pipeline!Flow /\ "sync" \in Pipeline!Flow
      BY DEF Pipeline!Flow
    <2>2. disk' = disk \/ disk' = Pipeline!Truncated("rag") \/ disk' = Pipeline!Truncated("sync")
      BY <1>2 DEF Pipeline!ExportChunks, Pipeline!SyncStart
    <2>3. \A f \in Pipeline!Flow : disk'[f].pairs = disk[f].pairs
      BY <2>1, <2>2, TruncatedDisk
    <2>4. pairs' = pairs /\ table' = table
      BY <1>2 DEF Pipeline!ExportChunks, Pipeline!SyncStart, Pipeline!Start
    <2> QED BY <2>3, <2>4, CarriesMatch
  <1>3. CASE Pipeline!EmbedStart \/ Pipeline!ImportStart
    BY <1>3, CarriesMatch DEF Pipeline!EmbedStart, Pipeline!ImportStart, Pipeline!Start
  <1>4. CASE Pipeline!WriteChunks
    <2>1. \A f \in Pipeline!Flow : disk'[f].pairs = disk[f].pairs
      BY <1>4, WrittenDisk
    <2>2. (pairs' = pairs \/ pairs' = <<>>) /\ table' = table
      BY <1>4 DEF Pipeline!WriteChunks, Pipeline!Stop
    <2> QED BY <2>1, <2>2, CarriesMatch
  <1>5. CASE \/ Pipeline!NothingToSync \/ Pipeline!SaveState \/ Pipeline!LoadRaises
             \/ Pipeline!ReportFailed \/ Pipeline!ImportRaises \/ Pipeline!Copied
             \/ Pipeline!UpsertIncremental \/ Pipeline!BuildIndex
    <2>1. (pairs' = pairs \/ pairs' = <<>>) /\ table' = table /\ disk' = disk
      BY <1>5 DEF Pipeline!NothingToSync, Pipeline!SaveState, Pipeline!LoadRaises,
         Pipeline!ReportFailed, Pipeline!ImportRaises, Pipeline!Copied,
         Pipeline!UpsertIncremental, Pipeline!BuildIndex, Pipeline!Stop
    <2> QED BY <2>1, CarriesMatch
  <1>6. CASE Pipeline!Load
    BY <1>6, CarriesMatch DEF Pipeline!Load, PipelineTypeInv
  <1>7. CASE Pipeline!EmbedBatch
    <2>1. Matching(pairs')
      BY <1>7, EmbeddedPairs DEF MatchInv, Matching
    <2> QED BY <1>7, <2>1 DEF Pipeline!EmbedBatch, MatchInv, Matching
  <1>8. CASE Pipeline!SkipBatch
    BY <1>8, CarriesMatch DEF Pipeline!SkipBatch
  <1>9. CASE Pipeline!Save \/ Pipeline!FinalSave
    <2>1. \A f \in Pipeline!Flow : disk'[f].pairs = disk[f].pairs \/ disk'[f].pairs = pairs
      BY <1>9, DiskPairs DEF Pipeline!Save, Pipeline!FinalSave, PipelineTypeInv
    <2>2. pairs' = pairs /\ table' = table
      BY <1>9 DEF Pipeline!Save, Pipeline!FinalSave
    <2> QED BY <2>1, <2>2, CarriesMatch
  <1>10. CASE Pipeline!WriteMeta
    <2>1. (pairs' = pairs \/ pairs' = <<>>) /\ table' = table
      BY <1>10 DEF Pipeline!WriteMeta, Pipeline!Stop
    <2> QED BY <1>10, <2>1, MetaDisk, CarriesMatch
  <1>11. CASE Pipeline!ImportLoad
    <2>1. Matching(pairs')
      BY <1>11, LoadedPairs DEF MatchInv, Matching, PipelineTypeInv
    <2> QED BY <1>11, <2>1 DEF Pipeline!ImportLoad, MatchInv, Matching
  <1>12. CASE Pipeline!CopyRows
    <2>1. CASE Pipeline!Duplicate
      BY <1>12, <2>1, CarriesMatch DEF Pipeline!CopyRows, Pipeline!Stop
    <2>2. CASE ~ Pipeline!Duplicate
      <3>1. table' = table \cup Pipeline!Elements(Pipeline!CopyBatch) /\ pairs' = pairs /\ disk' = disk
        BY <1>12, <2>2 DEF Pipeline!CopyRows
      <3>2. Pipeline!Elements(Pipeline!CopyBatch) \subseteq Pipeline!Elements(pairs)
        BY <1>12, CopyPlaces DEF Pipeline!CopyRows
      <3> QED BY <3>1, <3>2 DEF MatchInv, Matching
    <2> QED BY <2>1, <2>2
  <1>13. CASE Pipeline!Kill
    <2>1. pairs' = <<>> /\ table' = table
      BY <1>13 DEF Pipeline!Kill, Pipeline!Stop
    <2> QED BY <1>13, <2>1, KilledDisk, CarriesMatch
  <1> QED BY <1>1, <1>2, <1>3, <1>4, <1>5, <1>6, <1>7, <1>8, <1>9, <1>10, <1>11, <1>12, <1>13
      DEF Pipeline!Next

\* embed_chunks, import_pgvector and sync_vectors store every vector under the
\* chunk it was computed from (embed_chunks.py, run): for any chunks, batch
\* sizes and saves, whatever the order of the API's answers, whichever batches
\* were skipped, and wherever a tool was killed and started again.
THEOREM VectorsStayMatched == Spec => []VectorsMatch
  <1>1. Init => PipelineTypeInv /\ MatchInv
    <2>1. ASSUME Pipeline!Init PROVE MatchInv
      <3>1. Pipeline!Elements(<<>>) = {}
        BY DEF Pipeline!Elements
      <3>2. pairs = <<>> /\ table = {} /\ \A f \in Pipeline!Flow : disk[f].pairs = <<>>
        BY <2>1 DEF Pipeline!Init
      <3> QED BY <3>1, <3>2 DEF MatchInv, Matching
    <2> QED BY <2>1, PipelineInitTyped DEF Init
  <1>2. PipelineTypeInv /\ MatchInv /\ [Next]_vars => PipelineTypeInv' /\ MatchInv'
    BY PipelineStep, PipelineTyped, NextMatch
  <1>3. MatchInv => VectorsMatch
    BY DEF MatchInv, Matching, VectorsMatch, Pipeline!VectorsMatch, Pipeline!Elements
  <1> QED BY <1>1, <1>2, <1>3, PTL DEF Spec

(***************************************************************************)
(* The cursor of rag_export and its corpus file.                           *)
(***************************************************************************)

\* The corpus is left alone, or added to; cursor and rewriting do not change;
\* and the step begins no export.
LEMMA CorpusKept ==
    ASSUME CorpusInv, cursor' = cursor, rewriting' = rewriting,
           Pipeline!Readable("rag")' => /\ Pipeline!Readable("rag")
                                        /\ Pipeline!Elements(disk["rag"].lines)
                                             \subseteq Pipeline!Elements(disk["rag"].lines)',
           stage' = "state" => stage = "state" /\ upto' = upto,
           stage' = "write" => /\ stage = "write"
                               /\ UNCHANGED <<flow, option, since, upto>>
    PROVE  CorpusInv'
  <1>1. Pipeline!Readable("rag")' /\ ~ rewriting' => CorpusHas(cursor)'
    BY DEF CorpusInv, CorpusHas, Exports
  <1>2. stage' = "state" => (Pipeline!Readable("rag")' /\ ~ rewriting' => CorpusHas(upto)')
    BY DEF CorpusInv, CorpusHas, Exports
  <1>3. stage' = "write" /\ flow' = "rag" =>
          IF option' THEN since' = 0 /\ cursor' <= upto' /\ rewriting' ELSE since' = cursor'
    BY DEF CorpusInv
  <1> QED BY <1>1, <1>2, <1>3 DEF CorpusInv

\* The same for a step that leaves the chunk file of the corpus as it is.
LEMMA CorpusUntouched ==
    ASSUME CorpusInv, cursor' = cursor, rewriting' = rewriting,
           disk'["rag"].lines = disk["rag"].lines,
           stage' = "state" => stage = "state" /\ upto' = upto,
           stage' = "write" => stage = "write" /\ UNCHANGED <<flow, option, since, upto>>
    PROVE  CorpusInv'
  BY CorpusKept DEF Pipeline!Readable

\* An export adds what its query returned; the part below was there, or is
\* written anew.
LEMMA WriteCorpus == ASSUME PipelineTypeInv, CorpusInv, Pipeline!WriteChunks PROVE CorpusInv'
  <1>0. "rag" \in Pipeline!Flow /\ stage = "write" /\ stage' # "write" /\ cursor' = cursor
    BY DEF Pipeline!Flow, Pipeline!WriteChunks, Pipeline!Stop, Pipeline!outside
  <1>1. CASE flow # "rag"
    <2>1. disk'["rag"] = disk["rag"]
      BY <1>0, <1>1, WrittenDisk
    <2>2. rewriting' = rewriting /\ stage' # "state"
      BY <1>1 DEF Pipeline!WriteChunks, PipelineTypeInv
    <2> QED BY <1>0, <2>1, <2>2, CorpusUntouched
  <1>2. CASE flow = "rag"
    <2>1. disk'["rag"].lines = Pipeline!Appended("rag", Pipeline!Exported)
      BY <1>2, WrittenDisk
    <2>2. Pipeline!Exported \in Seq(ChunkLine) /\ Pipeline!Elements(Pipeline!Exported) = Pipeline!Queried
      BY ExportedChunks DEF ChunkLine
    <2>3. Pipeline!Readable("rag")' <=> Pipeline!Torn \notin Pipeline!Elements(disk'["rag"].lines)
      BY DEF Pipeline!Readable, Pipeline!Elements
    <2>4. Pipeline!Readable("rag")' =>
             Pipeline!Elements(disk'["rag"].lines)
               = Pipeline!Elements(disk["rag"].lines) \cup Pipeline!Queried
      BY <1>0, <2>1, <2>2, <2>3, AppendedLines
    <2>5. Pipeline!Readable("rag")' => Pipeline!Readable("rag")
      BY <2>3, <2>4 DEF Pipeline!Readable
    <2>6. \A c \in Pipeline!Chunk : c[1] \in Nat
      BY ChunkShape
    <2>7. since \in Nat /\ upto \in Nat /\ cursor \in Nat
      BY PipelineConstants DEF PipelineTypeInv
    <2>8. ASSUME Pipeline!Readable("rag")', ~ rewriting'
          PROVE  Exports(cursor) \cup Exports(upto) \subseteq Pipeline!Elements(disk'["rag"].lines)
      <3>1. CASE option
        <4>1. since = 0 /\ cursor <= upto
          BY <1>0, <1>2, <3>1 DEF CorpusInv
        <4>2. Exports(cursor) \cup Exports(upto) \subseteq Pipeline!Queried
          BY <2>6, <2>7, <4>1, ChunkShape DEF Exports, Pipeline!Queried
        <4> QED BY <2>4, <2>8, <4>2
      <3>2. CASE ~ option
        <4>1. since = cursor
          BY <1>0, <1>2, <3>2 DEF CorpusInv
        <4>2. ~ rewriting
          BY <2>8, <3>2 DEF Pipeline!WriteChunks, PipelineTypeInv
        <4>3. Exports(cursor) \subseteq Pipeline!Elements(disk["rag"].lines)
          BY <2>5, <2>8, <4>2 DEF CorpusInv, CorpusHas
        <4>4. Exports(upto) \subseteq Exports(cursor) \cup Pipeline!Queried
          BY <2>6, <2>7, <4>1 DEF Exports, Pipeline!Queried
        <4> QED BY <2>4, <2>8, <4>3, <4>4
      <3> QED BY <3>1, <3>2
    <2>9. stage' = "state" => upto' = upto
      BY DEF Pipeline!WriteChunks, Pipeline!Stop, Pipeline!job
    <2>10. Pipeline!Elements(disk["rag"].lines)' = Pipeline!Elements(disk'["rag"].lines)
      BY DEF Pipeline!Elements
    <2>11. Pipeline!Readable("rag")' /\ ~ rewriting' => CorpusHas(cursor)'
      BY <1>0, <2>8, <2>10 DEF CorpusHas, Exports
    <2>12. stage' = "state" => (Pipeline!Readable("rag")' /\ ~ rewriting' => CorpusHas(upto)')
      BY <2>8, <2>9, <2>10 DEF CorpusHas, Exports
    <2> QED BY <1>0, <2>11, <2>12 DEF CorpusInv
  <1> QED BY <1>1, <1>2

\* A kill may leave part of an export behind, or spoil the file.
LEMMA KillCorpus == ASSUME PipelineTypeInv, CorpusInv, Pipeline!Kill PROVE CorpusInv'
  <1>1. "rag" \in Pipeline!Flow /\ cursor' = cursor /\ rewriting' = rewriting /\ stage' = "idle"
    BY DEF Pipeline!Flow, Pipeline!Kill, Pipeline!Stop, Pipeline!outside
  <1>2. CASE disk'["rag"].lines = disk["rag"].lines
    BY <1>1, <1>2, CorpusUntouched
  <1>3. CASE disk'["rag"].lines # disk["rag"].lines
    <2>1. PICK new \in Seq(ChunkLine) : disk'["rag"].lines = Pipeline!Appended("rag", new)
      BY <1>1, <1>3, KilledDisk
    <2>2. Pipeline!Torn \notin Pipeline!Elements(disk'["rag"].lines) =>
             Pipeline!Elements(disk'["rag"].lines)
               = Pipeline!Elements(disk["rag"].lines) \cup Pipeline!Elements(new)
      BY <1>1, <2>1, AppendedLines
    <2>3. Pipeline!Elements(disk["rag"].lines)' = Pipeline!Elements(disk'["rag"].lines)
      BY DEF Pipeline!Elements
    <2>4. Pipeline!Readable("rag")' => /\ Pipeline!Readable("rag")
                                       /\ Pipeline!Elements(disk["rag"].lines)
                                            \subseteq Pipeline!Elements(disk["rag"].lines)'
      BY <2>2, <2>3 DEF Pipeline!Readable
    <2> QED BY <1>1, <2>4, CorpusKept
  <1> QED BY <1>2, <1>3

\* The corpus invariant is kept by every step.
LEMMA NextCorpus ==
    ASSUME PipelineTypeInv, CorpusInv, [Pipeline!Next]_(Pipeline!vectorVars) PROVE CorpusInv'
  <1> USE DEF Pipeline!outside, Pipeline!store, Pipeline!history, Pipeline!job, Pipeline!embedding
  <1>0. "rag" \in Pipeline!Flow /\ "sync" \in Pipeline!Flow /\ "rag" # "sync"
    BY DEF Pipeline!Flow
  <1>1. CASE Pipeline!Publish \/ UNCHANGED Pipeline!vectorVars
    BY <1>1, CorpusUntouched DEF Pipeline!Publish, Pipeline!vectorVars
  <1>2. CASE Pipeline!ExportChunks
    <2>1. /\ cursor' = cursor /\ stage' = "write" /\ flow' = "rag" /\ option' \in BOOLEAN
          /\ since' = (IF option' THEN 0 ELSE cursor) /\ upto' = articles
          /\ rewriting' = (rewriting \/ option')
      BY <1>2 DEF Pipeline!ExportChunks
    <2>2. cursor <= articles
      BY PipelineConstants DEF PipelineTypeInv
    <2>3. CASE option' = TRUE
      BY <2>1, <2>2, <2>3 DEF CorpusInv
    <2>4. CASE option' = FALSE
      <3>1. rewriting' = rewriting /\ disk' = disk
        BY <1>2, <2>1, <2>4 DEF Pipeline!ExportChunks, PipelineTypeInv
      <3>2. Pipeline!Readable("rag")' /\ ~ rewriting' => CorpusHas(cursor)'
        BY <2>1, <3>1 DEF CorpusInv, CorpusHas, Exports, Pipeline!Readable, Pipeline!Elements
      <3> QED BY <2>1, <2>4, <3>2 DEF CorpusInv
    <2> QED BY <2>1, <2>3, <2>4
  <1>3. CASE Pipeline!SyncStart
    <2>1. disk'["rag"] = disk["rag"]
      BY <1>0, <1>3, TruncatedDisk DEF Pipeline!SyncStart
    <2>2. /\ cursor' = cursor /\ rewriting' = rewriting /\ stage' = "write" /\ flow' = "sync"
      BY <1>3 DEF Pipeline!SyncStart
    <2>3. Pipeline!Readable("rag")' /\ ~ rewriting' => CorpusHas(cursor)'
      BY <2>1, <2>2 DEF CorpusInv, CorpusHas, Exports, Pipeline!Readable, Pipeline!Elements
    <2> QED BY <1>0, <2>2, <2>3 DEF CorpusInv
  <1>4. CASE Pipeline!EmbedStart \/ Pipeline!ImportStart
    BY <1>4, CorpusUntouched DEF Pipeline!EmbedStart, Pipeline!ImportStart, Pipeline!Start
  <1>5. CASE \/ Pipeline!NothingToSync \/ Pipeline!LoadRaises
             \/ Pipeline!ReportFailed \/ Pipeline!ImportRaises \/ Pipeline!Copied
             \/ Pipeline!UpsertIncremental \/ Pipeline!BuildIndex
    <2>1. cursor' = cursor /\ rewriting' = rewriting /\ disk' = disk /\ stage' \notin {"state", "write"}
      BY <1>5 DEF Pipeline!NothingToSync, Pipeline!LoadRaises, Pipeline!ReportFailed,
         Pipeline!ImportRaises, Pipeline!Copied, Pipeline!UpsertIncremental,
         Pipeline!BuildIndex, Pipeline!Stop
    <2> QED BY <2>1, CorpusUntouched
  <1>6. CASE Pipeline!SaveState
    <2>1. /\ cursor' = upto /\ rewriting' = rewriting /\ disk' = disk /\ stage' = "idle"
          /\ stage = "state"
      BY <1>6 DEF Pipeline!SaveState, Pipeline!Stop
    <2>2. Pipeline!Readable("rag")' /\ ~ rewriting' => CorpusHas(cursor)'
      BY <2>1 DEF CorpusInv, CorpusHas, Exports, Pipeline!Readable, Pipeline!Elements
    <2> QED BY <2>1, <2>2 DEF CorpusInv
  <1>7. CASE Pipeline!Load \/ Pipeline!EmbedBatch \/ Pipeline!SkipBatch \/ Pipeline!ImportLoad
    <2>1. cursor' = cursor /\ rewriting' = rewriting /\ disk' = disk /\ stage' \notin {"state", "write"}
      BY <1>7 DEF Pipeline!Load, Pipeline!EmbedBatch, Pipeline!SkipBatch, Pipeline!ImportLoad,
         Pipeline!Continue
    <2> QED BY <2>1, CorpusUntouched
  <1>8. CASE Pipeline!CopyRows
    <2>1. cursor' = cursor /\ rewriting' = rewriting /\ disk' = disk /\ stage' \notin {"state", "write"}
      BY <1>8 DEF Pipeline!CopyRows, Pipeline!Stop
    <2> QED BY <2>1, CorpusUntouched
  <1>9. CASE Pipeline!Save \/ Pipeline!FinalSave \/ Pipeline!WriteMeta
    <2>1. cursor' = cursor /\ rewriting' = rewriting /\ stage' \notin {"state", "write"}
      BY <1>9 DEF Pipeline!Save, Pipeline!FinalSave, Pipeline!WriteMeta, Pipeline!Stop,
         Pipeline!Continue
    <2>2. disk'["rag"].lines = disk["rag"].lines
      BY <1>0, <1>9, DiskPairs, MetaDisk DEF Pipeline!Save, Pipeline!FinalSave
    <2> QED BY <2>1, <2>2, CorpusUntouched
  <1> QED BY <1>1, <1>2, <1>3, <1>4, <1>5, <1>6, <1>7, <1>8, <1>9, WriteCorpus, KillCorpus
      DEF Pipeline!Next

\* A chunk file of rag_export that parses holds every chunk of the articles up
\* to last_id of the state file (rag_export.py, export_chunks and save_state),
\* wherever exports were killed, unless a --full export has not been finished
\* since: for any articles and any number of chunks in each.
THEOREM CursorBehindCorpus == Spec => []CorpusComplete
  <1>1. Init => PipelineTypeInv /\ CorpusInv
    <2>1. ASSUME Pipeline!Init PROVE CorpusInv
      <3>1. cursor = 0 /\ stage = "idle"
        BY <2>1 DEF Pipeline!Init
      <3>2. Exports(0) = {}
        BY ChunkShape DEF Exports
      <3> QED BY <3>1, <3>2 DEF CorpusInv, CorpusHas
    <2> QED BY <2>1, PipelineInitTyped DEF Init
  <1>2. PipelineTypeInv /\ CorpusInv /\ [Next]_vars => PipelineTypeInv' /\ CorpusInv'
    BY PipelineStep, PipelineTyped, NextCorpus
  <1>3. PipelineTypeInv /\ CorpusInv => CorpusComplete
    <2>1. SUFFICES ASSUME PipelineTypeInv, CorpusInv, Pipeline!Readable("rag"), ~ rewriting,
                          NEW a \in 1 .. cursor, NEW c \in Pipeline!Elements(Pipeline!ChunksOf(a))
                   PROVE  c \in Pipeline!Elements(disk["rag"].lines)
      BY DEF CorpusComplete, Pipeline!CorpusComplete
    <2>2. cursor \in 0 .. Len(ChunkCount)
      BY <2>1, PipelineConstants DEF PipelineTypeInv
    <2>3. c \in Exports(cursor)
      BY <2>1, <2>2, ChunksOfArticles
    <2> QED BY <2>1, <2>3 DEF CorpusInv, CorpusHas
  <1> QED BY <1>1, <1>2, <1>3, PTL DEF Spec

(***************************************************************************)
(* embed_chunks accounts for every line of its file.                       *)
(***************************************************************************)

\* A step inside embed_chunks that attempts nothing.
LEMMA EmbedKept ==
    ASSUME EmbedInv, stage \in EmbedStages,
           UNCHANGED <<flow, todo, offset, pairs, skipped, lost>>,
           disk'[flow].lines = disk[flow].lines,
           stage' \in {"meta", "report"} => disk'[flow].pairs = pairs
    PROVE  EmbedInv'
  <1>1. Waiting' = Waiting /\ Attempted' = Attempted
    BY DEF Waiting, Attempted, Pipeline!Ids, Pipeline!Elements
  <1>2. Pipeline!Elements(disk[flow].lines)' = Pipeline!Elements(disk[flow].lines)
          /\ Distinct(disk[flow].lines)' = Distinct(disk[flow].lines)
    BY DEF Pipeline!Elements, Distinct
  <1>3. /\ Pipeline!Elements(todo)' = Pipeline!Elements(todo)
        /\ Pipeline!Elements(skipped)' = Pipeline!Elements(skipped)
        /\ Pipeline!Ids(pairs)' = Pipeline!Ids(pairs) /\ Distinct(todo)' = Distinct(todo)
    BY DEF Pipeline!Elements, Pipeline!Ids, Distinct
  <1>4. Pipeline!Readable(flow)' = Pipeline!Readable(flow)
    BY DEF Pipeline!Readable, Pipeline!Elements
  <1> QED BY <1>1, <1>2, <1>3, <1>4 DEF EmbedInv

\* The file is parsed; vectors of an earlier run are kept (load_existing).
LEMMA LoadEmbeds == ASSUME PipelineTypeInv, Pipeline!Load PROVE EmbedInv'
  <1>0. flow \in Pipeline!Flow /\ flow' = flow /\ disk' = disk
    BY DEF PipelineTypeInv, Pipeline!Load
  <1>1. /\ todo' \in Seq(Pipeline!Chunk)
        /\ Pipeline!Elements(todo')
             = Pipeline!Elements(disk[flow].lines) \ Pipeline!Ids(disk[flow].pairs)
        /\ Distinct(disk[flow].lines) => Distinct(todo')
    BY LoadedTodo
  <1>2. /\ offset' = 0 /\ skipped' = <<>> /\ pairs' = disk[flow].pairs
        /\ stage' \in {"batch", "final"} /\ Pipeline!Readable(flow)
    BY DEF Pipeline!Load, Pipeline!Continue
  <1>3. Waiting' = Pipeline!Elements(todo')
    BY <1>2 DEF Waiting, Pipeline!Elements
  <1>4. Pipeline!Elements(skipped)' = {} /\ Pipeline!Elements(todo)' = Pipeline!Elements(todo')
    BY <1>2 DEF Pipeline!Elements
  <1>5. Pipeline!Ids(pairs)' = Pipeline!Ids(disk[flow].pairs)
    BY <1>2 DEF Pipeline!Ids
  <1>6. /\ Pipeline!Elements(disk[flow].lines)' = Pipeline!Elements(disk[flow].lines)
        /\ Distinct(disk[flow].lines)' = Distinct(disk[flow].lines)
        /\ Distinct(todo)' = Distinct(todo')
        /\ Pipeline!Readable(flow)'
    BY <1>0, <1>2 DEF Pipeline!Elements, Distinct, Pipeline!Readable
  <1>7. Attempted' = Pipeline!Ids(disk[flow].pairs)
    BY <1>4, <1>5 DEF Attempted
  <1> QED BY <1>1, <1>2, <1>3, <1>4, <1>5, <1>6, <1>7 DEF EmbedInv, EmbedStages

\* The chunks of the batch, and those after it.
LEMMA WaitingSplits ==
    ASSUME PipelineTypeInv, stage = "batch", offset' = Pipeline!BatchEnd, todo' = todo
    PROVE  LET B == {todo[i] : i \in (offset + 1) .. Pipeline!BatchEnd}
           IN  /\ Waiting = B \cup Waiting'
               /\ B \subseteq Pipeline!Elements(todo)
               /\ Distinct(todo) => B \cap Waiting' = {}
  <1> DEFINE I == (offset + 1) .. Pipeline!BatchEnd
             J == (Pipeline!BatchEnd + 1) .. Len(todo)
             B == {todo[i] : i \in I}
  <1>1. PICK e \in Nat : e = Pipeline!BatchEnd
    BY BatchPlaces
  <1>2. e <= Len(todo) /\ offset < e /\ offset \in Nat /\ Len(todo) \in Nat
    BY <1>1, BatchPlaces DEF PipelineTypeInv
  <1>3. /\ (offset + 1) .. Len(todo) = I \cup J
        /\ \A i \in I : i \in 1 .. Len(todo)
        /\ \A j \in J : j \in 1 .. Len(todo)
        /\ \A i \in I, j \in J : i # j
    BY <1>1, <1>2
  <1>4. Waiting' = {todo[j] : j \in J}
    BY DEF Waiting
  <1> HIDE DEF I, J
  <1>5. Waiting = B \cup Waiting'
    BY <1>3, <1>4 DEF Waiting
  <1>6. B \subseteq Pipeline!Elements(todo)
    BY <1>3 DEF Pipeline!Elements
  <1>7. Distinct(todo) => B \cap Waiting' = {}
    BY <1>3, <1>4 DEF Distinct
  <1> QED BY <1>5, <1>6, <1>7 DEF I

\* A batch moves its chunks from those waiting to those with a vector, or to
\* the failed ones.
LEMMA BatchEmbeds ==
    ASSUME PipelineTypeInv, EmbedInv, Pipeline!EmbedBatch \/ Pipeline!SkipBatch
    PROVE  EmbedInv'
  <1> DEFINE B == {todo[i] : i \in (offset + 1) .. Pipeline!BatchEnd}
  <1>0. /\ stage = "batch" /\ flow' = flow /\ disk' = disk /\ todo' = todo
        /\ offset' = Pipeline!BatchEnd /\ stage' \notin {"meta", "report"}
        /\ stage' \in EmbedStages
    BY DEF Pipeline!EmbedBatch, Pipeline!SkipBatch, Pipeline!Continue, EmbedStages
  <1>1. /\ Waiting = B \cup Waiting' /\ B \subseteq Pipeline!Elements(todo)
        /\ Distinct(todo) => B \cap Waiting' = {}
    BY <1>0, WaitingSplits
  <1> HIDE DEF B
  <1>2. /\ Pipeline!Elements(disk[flow].lines)' = Pipeline!Elements(disk[flow].lines)
        /\ Distinct(disk[flow].lines)' = Distinct(disk[flow].lines)
        /\ Distinct(todo)' = Distinct(todo)
        /\ Pipeline!Elements(todo)' = Pipeline!Elements(todo)
        /\ Pipeline!Readable(flow)' = Pipeline!Readable(flow)
    BY <1>0 DEF Pipeline!Elements, Distinct, Pipeline!Readable
  <1>3. /\ Pipeline!Readable(flow)
        /\ Pipeline!Elements(disk[flow].lines) \subseteq Attempted \cup Waiting
        /\ Pipeline!Elements(todo) \subseteq Pipeline!Elements(disk[flow].lines)
        /\ Pipeline!Elements(skipped) \subseteq Pipeline!Elements(disk[flow].lines) \cap lost
        /\ Distinct(disk[flow].lines) =>
              /\ Distinct(todo)
              /\ Waiting \cap Attempted = {}
              /\ Pipeline!Elements(skipped) \cap Pipeline!Ids(pairs) = {}
    BY <1>0 DEF EmbedInv, EmbedStages
  <1>4. CASE Pipeline!EmbedBatch
    <2>1. Pipeline!Ids(pairs)' = Pipeline!Ids(pairs) \cup B
      BY <1>4, EmbeddedPairs DEF B, Pipeline!Ids
    <2>2. skipped' = skipped /\ lost' = lost /\ Pipeline!Elements(skipped)' = Pipeline!Elements(skipped)
      BY <1>4 DEF Pipeline!EmbedBatch, Pipeline!history, Pipeline!Elements
    <2>3. Attempted' = Attempted \cup B
      BY <2>1, <2>2 DEF Attempted
    <2>4. Pipeline!Elements(skipped) \subseteq Attempted
      BY DEF Attempted
    <2> QED BY <1>0, <1>1, <1>2, <1>3, <2>1, <2>2, <2>3, <2>4 DEF EmbedInv
  <1>5. CASE Pipeline!SkipBatch
    <2>1. /\ Pipeline!Elements(skipped)' = Pipeline!Elements(skipped) \cup B
          /\ lost' = lost \cup B
      BY <1>5, SkippedIds DEF B, Pipeline!Elements
    <2>2. Pipeline!Ids(pairs)' = Pipeline!Ids(pairs)
      BY <1>5 DEF Pipeline!SkipBatch, Pipeline!Ids
    <2>3. Attempted' = Attempted \cup B
      BY <2>1, <2>2 DEF Attempted
    <2>4. Pipeline!Ids(pairs) \subseteq Attempted
      BY DEF Attempted
    <2> QED BY <1>0, <1>1, <1>2, <1>3, <2>1, <2>2, <2>3, <2>4 DEF EmbedInv
  <1> QED BY <1>4, <1>5

\* The accounting of embed_chunks is kept by every step.
LEMMA NextEmbed ==
    ASSUME PipelineTypeInv, EmbedInv, [Pipeline!Next]_(Pipeline!vectorVars) PROVE EmbedInv'
  <1> USE DEF Pipeline!outside, Pipeline!store, Pipeline!history, Pipeline!job, Pipeline!embedding
  <1>0. flow \in Pipeline!Flow
    BY DEF PipelineTypeInv
  <1>1. CASE Pipeline!Publish \/ UNCHANGED Pipeline!vectorVars
    <2>1. UNCHANGED <<flow, todo, offset, pairs, skipped, lost, disk, stage>>
      BY <1>1 DEF Pipeline!Publish, Pipeline!vectorVars
    <2>2. CASE stage \in EmbedStages
      BY <2>1, <2>2, EmbedKept DEF EmbedInv
    <2>3. CASE stage \notin EmbedStages
      BY <2>1, <2>3 DEF EmbedInv
    <2> QED BY <2>2, <2>3
  <1>2. CASE \/ Pipeline!ExportChunks \/ Pipeline!SyncStart \/ Pipeline!EmbedStart
             \/ Pipeline!ImportStart \/ Pipeline!WriteChunks \/ Pipeline!NothingToSync
             \/ Pipeline!SaveState \/ Pipeline!LoadRaises \/ Pipeline!ReportFailed
             \/ Pipeline!ImportRaises \/ Pipeline!ImportLoad \/ Pipeline!Copied
             \/ Pipeline!UpsertIncremental \/ Pipeline!BuildIndex \/ Pipeline!Kill
    <2>1. stage' \notin EmbedStages
      BY <1>2 DEF Pipeline!ExportChunks, Pipeline!SyncStart, Pipeline!EmbedStart,
         Pipeline!ImportStart, Pipeline!WriteChunks, Pipeline!NothingToSync,
         Pipeline!SaveState, Pipeline!LoadRaises, Pipeline!ReportFailed,
         Pipeline!ImportRaises, Pipeline!ImportLoad, Pipeline!Copied,
         Pipeline!UpsertIncremental, Pipeline!BuildIndex, Pipeline!Kill, Pipeline!Stop, EmbedStages
    <2> QED BY <2>1 DEF EmbedInv
  <1>3. CASE Pipeline!CopyRows
    <2>1. stage' \notin EmbedStages
      BY <1>3 DEF Pipeline!CopyRows, Pipeline!Stop, EmbedStages
    <2> QED BY <2>1 DEF EmbedInv
  <1>4. CASE Pipeline!Save \/ Pipeline!FinalSave
    <2>1. /\ stage \in {"save", "final"} /\ stage \in EmbedStages
          /\ UNCHANGED <<flow, todo, offset, pairs, skipped, lost>>
      BY <1>4 DEF Pipeline!Save, Pipeline!FinalSave, EmbedStages
    <2>2. disk'[flow].pairs = pairs /\ disk'[flow].lines = disk[flow].lines
      BY <1>0, <1>4, DiskPairs DEF Pipeline!Save, Pipeline!FinalSave
    <2> QED BY <2>1, <2>2, EmbedKept
  <1>5. CASE Pipeline!WriteMeta
    <2>1. disk'[flow].lines = disk[flow].lines /\ disk'[flow].pairs = disk[flow].pairs
      BY <1>0, <1>5, MetaDisk
    <2>2. CASE pairs = <<>>
      BY <1>5, <2>2 DEF Pipeline!WriteMeta, Pipeline!Stop, EmbedInv, EmbedStages
    <2>3. CASE pairs # <<>>
      <3>1. UNCHANGED <<flow, todo, offset, pairs, skipped, lost>> /\ stage = "meta"
        BY <1>5, <2>3 DEF Pipeline!WriteMeta
      <3>2. disk[flow].pairs = pairs
        BY <3>1 DEF EmbedInv, EmbedStages
      <3> QED BY <2>1, <3>1, <3>2, EmbedKept DEF EmbedStages
    <2> QED BY <2>2, <2>3
  <1> QED BY <1>1, <1>2, <1>3, <1>4, <1>5, LoadEmbeds, BatchEmbeds DEF Pipeline!Next

\* A file in which no line occurs twice.
LEMMA DistinctLines ==
    ASSUME NEW S, NEW s \in Seq(S)
    PROVE  Distinct(s) \/ Pipeline!Cardinality(Pipeline!Elements(s)) < Len(s)
  <1> DEFINE E == Pipeline!Elements(s)
             D == 1 .. Len(s)
             f == [i \in D |-> s[i]]
  <1>1. f \in Surjection(D, E)
    BY DEF Surjection, Pipeline!Elements
  <1>2. Len(s) \in Nat
    OBVIOUS
  <1>3. IsFiniteSet(D) /\ Cardinality(D) = Len(s)
    <2>1. \A n \in Nat : IsFiniteSet(1 .. n) /\ Cardinality(1 .. n) = n
      BY FS_Interval
    <2> QED BY <1>2, <2>1
  <1> HIDE DEF E, f, D
  <1>4. /\ IsFiniteSet(E) /\ Cardinality(E) <= Cardinality(D)
        /\ Cardinality(E) = Cardinality(D) => f \in Injection(D, E)
    BY <1>1, <1>3, FS_Surjection
  <1>5. Cardinality(E) \in Nat
    BY <1>4, FS_CardinalityType
  <1>6. CASE Cardinality(E) < Len(s)
    BY <1>6, PipelineCardinality DEF E
  <1>7. CASE Cardinality(E) = Len(s)
    <2>1. f \in Injection(D, E)
      BY <1>3, <1>4, <1>7
    <2>2. \A i, j \in D : f[i] = f[j] => i = j
      BY <2>1 DEF Injection, IsInjective
    <2> QED BY <2>2 DEF f, D, Distinct
  <1> QED BY <1>2, <1>3, <1>4, <1>5, <1>6, <1>7

\* When embed_chunks reports, the lines without a vector are among the failed
\* ids, and are exactly those if no line occurs twice (embed_chunks.py, run):
\* for any file, archive, batch and save sizes, and any batches skipped.
THEOREM FailedIdsExact == Spec => []RetriesExactly
  <1>1. Init => PipelineTypeInv /\ EmbedInv
    <2>1. Pipeline!Init => EmbedInv
      BY DEF Pipeline!Init, EmbedInv, EmbedStages
    <2> QED BY <2>1, PipelineInitTyped DEF Init
  <1>2. PipelineTypeInv /\ EmbedInv /\ [Next]_vars => PipelineTypeInv' /\ EmbedInv'
    BY PipelineStep, PipelineTyped, NextEmbed
  <1>3. PipelineTypeInv /\ EmbedInv => RetriesExactly
    <2>1. SUFFICES ASSUME PipelineTypeInv, EmbedInv, stage = "report"
                   PROVE  Pipeline!RetriesExactly
      BY DEF RetriesExactly, Pipeline!RetriesExactly
    <2> DEFINE L == disk[flow].lines
               missing == Pipeline!Elements(L) \ Pipeline!Ids(disk[flow].pairs)
    <2>2. /\ Pipeline!Elements(L) \subseteq Attempted \cup Waiting
          /\ Pipeline!Elements(skipped) \subseteq Pipeline!Elements(L)
          /\ Distinct(L) => Pipeline!Elements(skipped) \cap Pipeline!Ids(pairs) = {}
          /\ disk[flow].pairs = pairs
      BY <2>1 DEF EmbedInv, EmbedStages
    <2>3. Waiting = {}
      <3>1. offset = Len(todo) /\ Len(todo) \in Nat
        BY <2>1 DEF PipelineTypeInv
      <3>2. (offset + 1) .. Len(todo) = {}
        BY <3>1
      <3> QED BY <3>2 DEF Waiting
    <2>4. missing \subseteq Pipeline!Elements(skipped)
      BY <2>2, <2>3 DEF Attempted
    <2>5. Distinct(L) => missing = Pipeline!Elements(skipped)
      BY <2>2, <2>4
    <2>6. Distinct(L) \/ Pipeline!Cardinality(Pipeline!Elements(L)) < Len(L)
      <3>1. L \in Seq(ChunkLine)
        BY <2>1 DEF PipelineTypeInv, DiskFile
      <3> HIDE DEF L
      <3> QED BY <3>1, DistinctLines
    <2> QED BY <2>4, <2>5, <2>6 DEF Pipeline!RetriesExactly
  <1> QED BY <1>1, <1>2, <1>3, PTL DEF Spec

(***************************************************************************)
(* sync_vectors leaves nothing behind.                                     *)
(***************************************************************************)

\* A step that neither begins nor ends a copy.
LEMMA TableKept ==
    ASSUME TableInv, table' = table, lost \subseteq lost',
           \/ stage # "copy" /\ stage' # "copy"
           \/ stage' = stage /\ UNCHANGED <<pairs, offset>>
    PROVE  TableInv'
  <1>1. Done \subseteq Done' /\ Ingested' = Ingested
    BY DEF Done, Ingested
  <1>2. Coming' = Coming /\ NotYet' = NotYet
    BY DEF Coming, NotYet, Pipeline!NotCopied, Pipeline!Ids
  <1>3. \A c : Exports(c[1])' = Exports(c[1])
    BY DEF Exports
  <1> QED BY <1>1, <1>2, <1>3 DEF TableInv, Exports

\* A copy that ends early gives up the rest.
LEMMA CopyCutShort ==
    ASSUME TableInv, stage = "copy", stage' # "copy", table' = table,
           lost' = lost \cup Pipeline!NotCopied
    PROVE  TableInv'
  <1>1. Done' = Done \cup NotYet /\ Ingested' = Ingested /\ Coming' = {} /\ NotYet' = {}
    BY DEF Done, Ingested, NotYet, Coming
  <1> QED BY <1>1 DEF TableInv, Exports

\* One transaction of a copy.
LEMMA CopyTable == ASSUME PipelineTypeInv, TableInv, Pipeline!CopyRows PROVE TableInv'
  <1>0. stage = "copy" /\ offset < Len(pairs)
    BY DEF Pipeline!CopyRows
  <1>1. CASE Pipeline!Duplicate
    BY <1>0, <1>1, CopyCutShort DEF Pipeline!CopyRows, Pipeline!Stop
  <1>2. CASE ~ Pipeline!Duplicate
    <2> DEFINE I == (offset + 1) .. Pipeline!CopyEnd
               J == (Pipeline!CopyEnd + 1) .. Len(pairs)
    <2>1. /\ table' = table \cup Pipeline!Elements(Pipeline!CopyBatch)
          /\ offset' = Pipeline!CopyEnd /\ stage' = stage /\ pairs' = pairs /\ lost' = lost
      BY <1>2 DEF Pipeline!CopyRows
    <2>2. /\ Pipeline!Elements(Pipeline!CopyBatch) = {pairs[i] : i \in I}
          /\ Pipeline!Elements(Pipeline!CopyBatch) \subseteq Pipeline!Elements(pairs)
          /\ (offset + 1) .. Len(pairs) = I \cup J
      BY <1>0, CopyPlaces
    <2>3. NotYet = {pairs[i].id : i \in I \cup J}
      BY <1>0, <2>2, NotCopiedPlaces DEF NotYet
    <2>4. NotYet' = {pairs[i].id : i \in J}
      <3>1. pairs \in Seq(Pipeline!Pair) /\ Pipeline!CopyEnd \in Nat /\ Pipeline!CopyEnd <= Len(pairs)
        BY <1>0, CopyPlaces DEF PipelineTypeInv
      <3>2. Pipeline!Ids(SubSeq(pairs, Pipeline!CopyEnd + 1, Len(pairs))) = {pairs[i].id : i \in J}
        BY <3>1, IdsFrom
      <3>3. Pipeline!NotCopied' = Pipeline!Ids(SubSeq(pairs, Pipeline!CopyEnd + 1, Len(pairs)))
        BY <2>1 DEF Pipeline!NotCopied, Pipeline!Ids
      <3> QED BY <1>0, <2>1, <3>2, <3>3 DEF NotYet
    <2> HIDE DEF I, J
    <2>5. Ingested' = Ingested \cup {pairs[i].id : i \in I}
      BY <2>1, <2>2 DEF Ingested
    <2>6. {pairs[i].id : i \in I} \subseteq Pipeline!Ids(pairs)
      BY <2>2 DEF Pipeline!Ids, Pipeline!Elements
    <2>7. Done \cup NotYet \subseteq Done' \cup NotYet'
      BY <2>1, <2>3, <2>4, <2>5 DEF Done
    <2>8. Ingested' \cup Coming' \subseteq Ingested \cup Coming
      BY <1>0, <2>1, <2>5, <2>6 DEF Coming, Pipeline!Ids
    <2> QED BY <2>7, <2>8 DEF TableInv, Exports
  <1> QED BY <1>1, <1>2

\* An import begins to copy: what --initial of import_pgvector leaves out is
\* given up, and sync_vectors --initial has embedded or skipped everything.
LEMMA ImportTable ==
    ASSUME PipelineTypeInv, TableInv, SyncInv, Pipeline!ImportLoad PROVE TableInv'
  <1>0. /\ stage = "import" /\ table' = table /\ lost \subseteq lost' /\ offset' = 0
        /\ flow \in Pipeline!Flow /\ option \in BOOLEAN
    BY DEF Pipeline!ImportLoad, PipelineTypeInv
  <1>1. CASE ~ option
    <2>1. stage' = "upsert"
      BY <1>1 DEF Pipeline!ImportLoad
    <2> QED BY <1>0, <2>1, TableKept
  <1>2. CASE option
    <2>1. stage' = "copy"
      BY <1>2 DEF Pipeline!ImportLoad
    <2>2. Pipeline!Ids(pairs)' = Pipeline!Ids(pairs')
      BY DEF Pipeline!Ids
    <2>3. NotYet' = Pipeline!Ids(pairs') /\ Coming' = Pipeline!Ids(pairs')
      <3>1. pairs' \in Seq(Pipeline!Pair) /\ 0 <= Len(pairs')
        BY ImportTyped DEF PipelineTypeInv
      <3>2. Pipeline!Ids(SubSeq(pairs', 1, Len(pairs'))) = {pairs'[i].id : i \in 1 .. Len(pairs')}
        BY <3>1, IdsFrom
      <3>3. Pipeline!NotCopied' = Pipeline!Ids(SubSeq(pairs', 1, Len(pairs')))
        BY <1>0 DEF Pipeline!NotCopied, Pipeline!Ids
      <3>4. NotYet' = Pipeline!NotCopied' /\ Coming' = Pipeline!Ids(pairs')
        BY <2>1, <2>2 DEF NotYet, Coming
      <3> QED BY <3>2, <3>3, <3>4 DEF Pipeline!Ids
    <2>4. Ingested' = Ingested /\ Done \subseteq Done' /\ lost' \subseteq Done'
      BY <1>0 DEF Done, Ingested
    <2>5. \A c \in Ingested : Exports(c[1]) \subseteq Done'
      BY <1>0, <2>4 DEF TableInv, NotYet, Coming
    <2>6. \A c \in Pipeline!Ids(pairs') : Exports(c[1]) \subseteq Done' \cup Pipeline!Ids(pairs')
      <3>1. CASE flow = "rag"
        <4>1. Pipeline!Chunk \subseteq lost' \cup Pipeline!Ids(pairs')
          BY <1>2, <3>1 DEF Pipeline!ImportLoad
        <4> QED BY <2>4, <4>1 DEF Exports
      <3>2. CASE flow = "sync"
        <4>1. /\ since = 0 /\ Pipeline!Elements(disk["sync"].lines) = Pipeline!Queried
              /\ Pipeline!Queried \subseteq Pipeline!Ids(disk["sync"].pairs) \cup lost
          BY <1>0, <1>2, <3>2 DEF SyncInv
        <4>2. Pipeline!Ids(pairs') = Pipeline!Ids(disk["sync"].pairs) \cap Pipeline!Queried
          BY <3>2, <4>1, LoadedPairs
        <4>3. \A c \in Pipeline!Queried : Exports(c[1]) \subseteq Pipeline!Queried
          <5>1. \A c \in Pipeline!Chunk : c[1] \in Nat /\ c[1] > 0
            BY ChunkShape
          <5>2. upto \in Nat
            BY PipelineConstants DEF PipelineTypeInv
          <5> QED BY <4>1, <5>1, <5>2 DEF Exports, Pipeline!Queried
        <4> QED BY <1>0, <2>4, <4>1, <4>2, <4>3
      <3> QED BY <1>0, <3>1, <3>2 DEF Pipeline!Flow
    <2> QED BY <2>3, <2>4, <2>5, <2>6 DEF TableInv, Exports
  <1> QED BY <1>0, <1>1, <1>2

\* The table invariant is kept by every step.
LEMMA NextTable ==
    ASSUME PipelineTypeInv, TableInv, SyncInv, [Pipeline!Next]_(Pipeline!vectorVars) PROVE TableInv'
  <1> USE DEF Pipeline!outside, Pipeline!store, Pipeline!history, Pipeline!job, Pipeline!embedding
  <1>1. CASE Pipeline!Publish \/ UNCHANGED Pipeline!vectorVars
    BY <1>1, TableKept DEF Pipeline!Publish, Pipeline!vectorVars
  <1>2. CASE \/ Pipeline!ExportChunks \/ Pipeline!SyncStart \/ Pipeline!EmbedStart
             \/ Pipeline!ImportStart
    <2>1. stage # "copy" /\ stage' # "copy" /\ table' = table /\ lost' = lost
      BY <1>2 DEF Pipeline!ExportChunks, Pipeline!SyncStart, Pipeline!EmbedStart,
         Pipeline!ImportStart, Pipeline!Start
    <2> QED BY <2>1, TableKept
  <1>3. CASE \/ Pipeline!WriteChunks \/ Pipeline!NothingToSync \/ Pipeline!SaveState
             \/ Pipeline!Load \/ Pipeline!LoadRaises \/ Pipeline!EmbedBatch \/ Pipeline!SkipBatch
             \/ Pipeline!Save \/ Pipeline!FinalSave \/ Pipeline!WriteMeta \/ Pipeline!ReportFailed
             \/ Pipeline!ImportRaises \/ Pipeline!UpsertIncremental \/ Pipeline!BuildIndex
    <2>1. stage # "copy" /\ stage' # "copy" /\ table' = table /\ lost \subseteq lost'
      BY <1>3 DEF Pipeline!WriteChunks, Pipeline!NothingToSync, Pipeline!SaveState,
         Pipeline!Load, Pipeline!LoadRaises, Pipeline!EmbedBatch, Pipeline!SkipBatch,
         Pipeline!Save, Pipeline!FinalSave, Pipeline!WriteMeta, Pipeline!ReportFailed,
         Pipeline!ImportRaises, Pipeline!UpsertIncremental, Pipeline!BuildIndex,
         Pipeline!Stop, Pipeline!Continue
    <2> QED BY <2>1, TableKept
  <1>4. CASE Pipeline!Copied
    <2>1. /\ stage = "copy" /\ stage' # "copy" /\ table' = table /\ lost' = lost
          /\ offset = Len(pairs)
      BY <1>4 DEF Pipeline!Copied
    <2>2. offset \in Nat /\ (offset + 1) .. Len(pairs) = {}
      BY <2>1 DEF PipelineTypeInv
    <2>3. Pipeline!NotCopied = {}
      BY <2>1, <2>2, NotCopiedPlaces
    <2> QED BY <2>1, <2>3, CopyCutShort
  <1>5. CASE Pipeline!Kill
    <2>1. stage' = "idle" /\ table' = table
            /\ lost' = IF stage = "copy" THEN lost \cup Pipeline!NotCopied ELSE lost
      BY <1>5 DEF Pipeline!Kill, Pipeline!Stop
    <2> QED BY <2>1, TableKept, CopyCutShort
  <1> QED BY <1>1, <1>2, <1>3, <1>4, <1>5, ImportTable, CopyTable DEF Pipeline!Next
-----------------------------------------------------------------------------
\* Once the file is written the query's result, the file and --initial do not
\* change any more.
LEMMA SyncKept ==
    ASSUME SyncInv, UNCHANGED <<flow, option, since, upto, table>>, lost \subseteq lost',
           disk'["sync"].lines = disk["sync"].lines, disk'["sync"].open = disk["sync"].open,
           stage' \in {"write", "nothing"} => stage' = stage,
           stage' \in EmbedStages \cup {"load", "import"} =>
              stage \in EmbedStages \cup {"load", "import"},
           stage' = "import" => stage = "import" /\ disk' = disk
    PROVE  SyncInv'
  <1>1. Done \subseteq Done'
    BY DEF Done, Ingested
  <1>2. Pipeline!Queried' = Pipeline!Queried
    BY DEF Pipeline!Queried
  <1>3. Exports(since)' = Exports(since) /\ Exports(upto)' = Exports(upto)
    BY DEF Exports
  <1>4. Pipeline!Elements(disk["sync"].lines)' = Pipeline!Elements(disk["sync"].lines)
    BY DEF Pipeline!Elements
  <1>5. stage' = "import" => Pipeline!Ids(disk["sync"].pairs)' = Pipeline!Ids(disk["sync"].pairs)
    BY DEF Pipeline!Ids
  <1>6. CASE flow = "sync"
    <2>1. option' => since' = 0
      BY <1>6 DEF SyncInv
    <2>2. stage' = "write" => /\ Exports(since)' \subseteq Done'
                              /\ disk'["sync"].lines = <<>> /\ ~ disk'["sync"].open
      BY <1>1, <1>3, <1>6 DEF SyncInv
    <2>3. stage' = "nothing" => Exports(upto)' \subseteq Done'
      BY <1>1, <1>3, <1>6 DEF SyncInv
    <2>4. stage' \in EmbedStages \cup {"load", "import"} =>
             Pipeline!Elements(disk["sync"].lines)' = Pipeline!Queried'
      BY <1>2, <1>4, <1>6 DEF SyncInv
    <2>5. stage' = "import" =>
             Pipeline!Queried' \subseteq Pipeline!Ids(disk["sync"].pairs)' \cup lost'
      BY <1>2, <1>5, <1>6 DEF SyncInv
    <2> QED BY <2>1, <2>2, <2>3, <2>4, <2>5 DEF SyncInv
  <1>7. CASE flow # "sync"
    BY <1>7 DEF SyncInv
  <1> QED BY <1>6, <1>7

\* The query starts after the newest article of the table, below which
\* everything is accounted for.
LEMMA StartSync == ASSUME PipelineTypeInv, TableInv, Pipeline!SyncStart PROVE SyncInv'
  <1>1. /\ stage = "idle" /\ stage' = "write" /\ option' \in BOOLEAN
        /\ since' = (IF option' THEN 0 ELSE Pipeline!MaxIngested)
        /\ table' = table /\ lost' = lost /\ disk' = Pipeline!Truncated("sync")
    BY DEF Pipeline!SyncStart, Pipeline!Start, Pipeline!store
  <1>2. disk'["sync"].lines = <<>> /\ ~ disk'["sync"].open
    BY <1>1, TruncatedDisk DEF Pipeline!Flow
  <1>3. Exports(0) = {}
    BY ChunkShape DEF Exports
  <1>4. Exports(Pipeline!MaxIngested) \subseteq Done
    <2>1. CASE Pipeline!MaxIngested = 0
      BY <1>3, <2>1
    <2>2. CASE Pipeline!MaxIngested # 0
      <3>1. PICK r \in table : r.id[1] = Pipeline!MaxIngested
        BY <2>2, NewestIngested
      <3>2. Exports(r.id[1]) \subseteq Done
        BY <1>1 DEF TableInv, Ingested, NotYet, Coming
      <3> QED BY <3>1, <3>2
    <2> QED BY <2>1, <2>2
  <1>5. Exports(since)' \subseteq Done'
    <2>1. Exports(since') \subseteq Done
      BY <1>1, <1>3, <1>4
    <2> QED BY <1>1, <2>1 DEF Exports, Done, Ingested
  <1> QED BY <1>1, <1>2, <1>5 DEF SyncInv, EmbedStages

\* The file is the result of the query; an empty one means everything is in.
LEMMA WriteSync == ASSUME PipelineTypeInv, SyncInv, Pipeline!WriteChunks PROVE SyncInv'
  <1>1. CASE flow # "sync"
    <2>1. flow' # "sync"
      BY <1>1 DEF Pipeline!WriteChunks, Pipeline!Stop, Pipeline!job
    <2> QED BY <2>1 DEF SyncInv
  <1>2. CASE flow = "sync"
    <2>1. /\ stage = "write" /\ UNCHANGED <<flow, option, since, upto, table, lost>>
          /\ stage' = IF Pipeline!Exported = <<>> THEN "nothing" ELSE "load"
      BY <1>2 DEF Pipeline!WriteChunks, Pipeline!job, Pipeline!store
    <2>2. /\ option => since = 0
          /\ Exports(since) \subseteq Done
          /\ disk["sync"].lines = <<>> /\ ~ disk["sync"].open
      BY <1>2, <2>1 DEF SyncInv
    <2>3. /\ Pipeline!Exported \in Seq(Pipeline!Chunk)
          /\ Pipeline!Elements(Pipeline!Exported) = Pipeline!Queried
          /\ Pipeline!Exported = <<>> => Pipeline!Queried = {}
      BY ExportedChunks
    <2>4. disk'["sync"].lines = Pipeline!Exported
      <3>1. disk'["sync"].lines = Pipeline!Appended("sync", Pipeline!Exported)
        BY <1>2, WrittenDisk
      <3>2. Pipeline!Appended("sync", Pipeline!Exported) = <<>> \o Pipeline!Exported
        BY <2>2 DEF Pipeline!Appended
      <3>3. <<>> \o Pipeline!Exported = Pipeline!Exported
        BY <2>3, ConcatEmptySeq
      <3> QED BY <3>1, <3>2, <3>3
    <2>5. Pipeline!Elements(disk["sync"].lines)' = Pipeline!Queried'
      <3>1. Pipeline!Elements(disk'["sync"].lines) = Pipeline!Queried
        BY <2>3, <2>4
      <3> QED BY <2>1, <3>1 DEF Pipeline!Elements, Pipeline!Queried
    <2>6. stage' = "nothing" => Exports(upto)' \subseteq Done'
      <3>1. stage' = "nothing" => Pipeline!Queried = {}
        BY <2>1, <2>3
      <3>2. \A c \in Pipeline!Chunk : c[1] \in Nat
        BY ChunkShape
      <3>3. since \in Nat /\ upto \in Nat
        BY PipelineConstants DEF PipelineTypeInv
      <3>4. Pipeline!Queried = {} => Exports(upto) \subseteq Exports(since)
        BY <3>2, <3>3 DEF Exports, Pipeline!Queried
      <3>5. Done' = Done /\ Exports(upto)' = Exports(upto)
        BY <2>1 DEF Done, Ingested, Exports
      <3> QED BY <2>2, <3>1, <3>4, <3>5
    <2>7. stage' \in {"nothing", "load"}
      BY <2>1
    <2> QED BY <2>1, <2>2, <2>5, <2>6, <2>7 DEF SyncInv, EmbedStages
  <1> QED BY <1>1, <1>2

\* At the end of embed_chunks every line has a vector or was skipped.
LEMMA ReportSync ==
    ASSUME PipelineTypeInv, EmbedInv, SyncInv, Pipeline!ReportFailed PROVE SyncInv'
  <1>1. CASE flow # "sync"
    BY <1>1 DEF Pipeline!ReportFailed, Pipeline!Stop, SyncInv
  <1>2. CASE flow = "sync"
    <2>1. /\ stage = "report" /\ stage' = "import" /\ disk' = disk /\ lost' = lost
          /\ UNCHANGED <<flow, option, since, upto>>
      BY <1>2 DEF Pipeline!ReportFailed, Pipeline!job, Pipeline!history
    <2>2. /\ Pipeline!Elements(disk["sync"].lines) \subseteq Attempted \cup Waiting
          /\ Pipeline!Elements(skipped) \subseteq lost
          /\ disk["sync"].pairs = pairs
      BY <1>2, <2>1 DEF EmbedInv, EmbedStages
    <2>3. Waiting = {}
      <3>1. offset = Len(todo) /\ Len(todo) \in Nat
        BY <2>1 DEF PipelineTypeInv
      <3>2. (offset + 1) .. Len(todo) = {}
        BY <3>1
      <3> QED BY <3>2 DEF Waiting
    <2>4. /\ option => since = 0
          /\ Pipeline!Elements(disk["sync"].lines) = Pipeline!Queried
      BY <1>2, <2>1 DEF SyncInv, EmbedStages
    <2>5. Pipeline!Queried \subseteq Pipeline!Ids(disk["sync"].pairs) \cup lost
      BY <2>2, <2>3, <2>4 DEF Attempted
    <2>6. /\ Pipeline!Queried' = Pipeline!Queried
          /\ Pipeline!Elements(disk["sync"].lines)' = Pipeline!Elements(disk["sync"].lines)
          /\ Pipeline!Ids(disk["sync"].pairs)' = Pipeline!Ids(disk["sync"].pairs)
      BY <2>1 DEF Pipeline!Queried, Pipeline!Elements, Pipeline!Ids
    <2> QED BY <2>1, <2>4, <2>5, <2>6 DEF SyncInv
  <1> QED BY <1>1, <1>2

\* The invariant of sync_vectors is kept by every step.
LEMMA NextSync ==
    ASSUME PipelineTypeInv, EmbedInv, TableInv, SyncInv, [Pipeline!Next]_(Pipeline!vectorVars)
    PROVE  SyncInv'
  <1> USE DEF Pipeline!outside, Pipeline!store, Pipeline!history, Pipeline!job, Pipeline!embedding
  <1>0. "sync" \in Pipeline!Flow /\ "rag" # "sync"
    BY DEF Pipeline!Flow
  <1>1. CASE Pipeline!Publish \/ UNCHANGED Pipeline!vectorVars
    BY <1>1, SyncKept DEF Pipeline!Publish, Pipeline!vectorVars
  <1>2. CASE Pipeline!ExportChunks \/ Pipeline!EmbedStart \/ Pipeline!ImportStart
    <2>1. flow' = "rag"
      BY <1>2 DEF Pipeline!ExportChunks, Pipeline!EmbedStart, Pipeline!ImportStart,
         Pipeline!Start, PipelineTypeInv
    <2> QED BY <1>0, <2>1 DEF SyncInv
  <1>3. CASE \/ Pipeline!NothingToSync \/ Pipeline!SaveState \/ Pipeline!LoadRaises
             \/ Pipeline!ImportRaises \/ Pipeline!BuildIndex \/ Pipeline!Kill
    <2>1. flow' = "rag"
      BY <1>3 DEF Pipeline!NothingToSync, Pipeline!SaveState, Pipeline!LoadRaises,
         Pipeline!ImportRaises, Pipeline!BuildIndex, Pipeline!Kill, Pipeline!Stop
    <2> QED BY <1>0, <2>1 DEF SyncInv
  <1>4. CASE Pipeline!Load \/ Pipeline!EmbedBatch \/ Pipeline!SkipBatch
    <2>1. /\ UNCHANGED <<flow, option, since, upto, table, disk>> /\ lost \subseteq lost'
          /\ stage' \in EmbedStages /\ stage \in EmbedStages \cup {"load"}
      BY <1>4 DEF Pipeline!Load, Pipeline!EmbedBatch, Pipeline!SkipBatch, Pipeline!Continue,
         EmbedStages
    <2> QED BY <2>1, SyncKept DEF EmbedStages
  <1>5. CASE Pipeline!Save \/ Pipeline!FinalSave
    <2>1. /\ UNCHANGED <<flow, option, since, upto, table, lost>>
          /\ stage' \in EmbedStages /\ stage \in EmbedStages
      BY <1>5 DEF Pipeline!Save, Pipeline!FinalSave, Pipeline!Continue, EmbedStages
    <2>2. disk'["sync"].lines = disk["sync"].lines /\ disk'["sync"].open = disk["sync"].open
      BY <1>0, <1>5, DiskPairs DEF Pipeline!Save, Pipeline!FinalSave
    <2> QED BY <2>1, <2>2, SyncKept DEF EmbedStages
  <1>6. CASE Pipeline!WriteMeta
    <2>1. CASE pairs = <<>>
      BY <1>0, <1>6, <2>1 DEF Pipeline!WriteMeta, Pipeline!Stop, SyncInv
    <2>2. CASE pairs # <<>>
      <3>1. /\ UNCHANGED <<flow, option, since, upto, table, lost>>
            /\ stage' = "report" /\ stage = "meta"
        BY <1>6, <2>2 DEF Pipeline!WriteMeta
      <3>2. disk'["sync"].lines = disk["sync"].lines /\ disk'["sync"].open = disk["sync"].open
        BY <1>0, <1>6, MetaDisk
      <3> QED BY <3>1, <3>2, SyncKept DEF EmbedStages
    <2> QED BY <2>1, <2>2
  <1>7. CASE Pipeline!ImportLoad \/ Pipeline!Copied
    <2>1. UNCHANGED <<flow, option, since>> /\ stage' \in {"copy", "upsert", "index"}
      BY <1>7 DEF Pipeline!ImportLoad, Pipeline!Copied
    <2> QED BY <2>1 DEF SyncInv, EmbedStages
  <1>8. CASE Pipeline!CopyRows \/ Pipeline!UpsertIncremental
    <2>1. \/ flow' = "rag"
          \/ UNCHANGED <<flow, option, since>> /\ stage' \in {"copy", "index"}
      BY <1>8 DEF Pipeline!CopyRows, Pipeline!UpsertIncremental, Pipeline!Stop
    <2> QED BY <1>0, <2>1 DEF SyncInv, EmbedStages
  <1> QED BY <1>1, <1>2, <1>3, <1>4, <1>5, <1>6, <1>7, <1>8, StartSync, WriteSync, ReportSync
      DEF Pipeline!Next

\* When sync_vectors finds nothing to sync, every chunk of every article it saw
\* is in the table or given up by a skipped batch, an import cut short or a
\* --initial import of an incomplete archive (sync_vectors.py, main): for any
\* articles, batch and transaction sizes, and wherever tools were killed.
THEOREM SyncCatchesUp == Spec => []NothingLeftBehind
  <1> DEFINE Inv == PipelineTypeInv /\ EmbedInv /\ TableInv /\ SyncInv
  <1>1. Init => Inv
    <2>1. ASSUME Pipeline!Init PROVE EmbedInv /\ TableInv /\ SyncInv
      <3>1. stage = "idle" /\ flow = "rag" /\ table = {}
        BY <2>1 DEF Pipeline!Init
      <3> QED BY <3>1 DEF EmbedInv, EmbedStages, TableInv, Ingested, Coming, SyncInv
    <2> QED BY <2>1, PipelineInitTyped DEF Init
  <1>2. Inv /\ [Next]_vars => Inv'
    BY PipelineStep, PipelineTyped, NextEmbed, NextTable, NextSync
  <1>3. Inv => NothingLeftBehind
    <2>1. SUFFICES ASSUME PipelineTypeInv, SyncInv, stage = "nothing", NEW a \in 1 .. upto,
                          NEW c \in Pipeline!Elements(Pipeline!ChunksOf(a))
                   PROVE  c \in lost \/ \E r \in table : r.id = c
      BY DEF NothingLeftBehind, Pipeline!NothingLeftBehind
    <2>2. upto \in 0 .. Len(ChunkCount)
      BY <2>1, PipelineConstants DEF PipelineTypeInv
    <2>3. c \in Exports(upto)
      BY <2>1, <2>2, ChunksOfArticles
    <2>4. Exports(upto) \subseteq Done
      BY <2>1 DEF SyncInv, PipelineTypeInv
    <2> QED BY <2>3, <2>4 DEF Done, Ingested
  <1> QED BY <1>1, <1>2, <1>3, PTL DEF Spec
-----------------------------------------------------------------------------
(***************************************************************************)
(* The monitor's deltas per source.                                        *)
(***************************************************************************)
Counts == [Sources -> Nat]
Sample == [known: BOOLEAN, total: Nat, by: Counts]
SampleTypeInv ==
    /\ added \in [total: Nat, by: Counts]
    /\ bySource \in Counts /\ counted \in Counts
    /\ total \in Nat /\ cur \in Sample /\ prev \in Sample

\* What bySource has grown by since a sample, and what the rows still to be
\* inserted may add to the deltas of a source: at "insert" the delta is computed
\* from the sample in hand, and later ones build on that sample.
Grown(sample, s) == IF bySource[s] > sample.by[s] THEN bySource[s] - sample.by[s] ELSE 0
Uncounted(s) ==
    IF step = "insert" THEN Sampling!ComputeBySource[s] + Grown(cur, s)
    ELSE IF prev.known THEN Grown(prev, s) ELSE 0

\* Every increment of the hash is at most one of: counted, and to be counted by
\* a later row.
DeltaInv == \A s \in Sources : counted[s] + Uncounted(s) <= added.by[s]
-----------------------------------------------------------------------------
LEMMA SamplingStep ==
    ASSUME [Next]_vars PROVE [Sampling!Next]_(Sampling!monitorVars)
  <1> USE DEF monitorVars, Sampling!monitorVars, Sampling!pipelineVars, Sampling!samplerVars
  <1>1. CASE UNCHANGED vars
    BY <1>1 DEF vars
  <1> QED BY <1>1 DEF Next

\* max(0, x).
LEMMA Clamped ==
    ASSUME NEW x \in Int PROVE Sampling!Max({0, x}) = IF x > 0 THEN x ELSE 0
  <1>1. PICK m : m = CHOOSE y \in {0, x} : \A z \in {0, x} : y >= z
    OBVIOUS
  <1>2. \E y \in {0, x} : \A z \in {0, x} : y >= z
    OBVIOUS
  <1>3. m \in {0, x} /\ \A z \in {0, x} : m >= z
    BY <1>1, <1>2, Zenon
  <1>4. Sampling!Max({0, x}) = m
    BY <1>1 DEF Sampling!Max
  <1> QED BY <1>3, <1>4

\* A first sample has no deltas, a negative one is zero.
LEMMA DeltaFromPrevious ==
    ASSUME SampleTypeInv
    PROVE  /\ Sampling!ComputeBySource \in Counts
           /\ \A s \in Sources :
                 Sampling!ComputeBySource[s] =
                    IF prev.known /\ cur.by[s] > prev.by[s] THEN cur.by[s] - prev.by[s] ELSE 0
  <1>1. \A x \in Int : Sampling!Max({0, x}) = IF x > 0 THEN x ELSE 0
    BY Clamped
  <1>2. \A s \in Sources : cur.by[s] \in Nat /\ prev.by[s] \in Nat
    BY DEF SampleTypeInv, Sample, Counts
  <1>3. \A s \in Sources :
           Sampling!ComputeBySource[s] =
              IF prev.known /\ cur.by[s] > prev.by[s] THEN cur.by[s] - prev.by[s] ELSE 0
    <2>1. TAKE s \in Sources
    <2>2. Sampling!ComputeBySource[s] =
             IF prev.known THEN Sampling!Max({0, cur.by[s] - prev.by[s]}) ELSE 0
      BY DEF Sampling!ComputeBySource
    <2>3. cur.by[s] - prev.by[s] \in Int
      BY <1>2
    <2> QED BY <1>1, <1>2, <2>2, <2>3
  <1>4. \A s \in Sources : Sampling!ComputeBySource[s] \in Nat
    BY <1>2, <1>3
  <1>5. Sampling!ComputeBySource = [s \in Sources |-> Sampling!ComputeBySource[s]]
    BY DEF Sampling!ComputeBySource
  <1> QED BY <1>3, <1>4, <1>5 DEF Counts

\* The deltas of an INSERT that raised may have been committed.
LEMMA EffectOnCounted ==
    ASSUME NEW e \in Sampling!Effects
    PROVE  e[2] = counted \/ (step = "insert" /\ e[2] = Sampling!CountedToo)
  <1>1. CASE step = "insert"
    BY <1>1 DEF Sampling!Effects
  <1>2. CASE step = "prune"
    BY <1>2 DEF Sampling!Effects
  <1>3. CASE step \notin {"insert", "prune"}
    BY <1>3 DEF Sampling!Effects
  <1> QED BY <1>1, <1>2, <1>3

\* What a row adds to the deltas.
LEMMA CountedWithRow ==
    ASSUME SampleTypeInv
    PROVE  /\ Sampling!CountedToo \in Counts
           /\ \A s \in Sources :
                 Sampling!CountedToo[s] = counted[s] + Sampling!ComputeBySource[s]
  BY DeltaFromPrevious DEF SampleTypeInv, Counts, Sampling!CountedToo

\* Types and numbers of a source.
LEMMA SampleNumbers ==
    ASSUME SampleTypeInv, NEW s \in Sources
    PROVE  /\ added.by[s] \in Nat /\ bySource[s] \in Nat /\ counted[s] \in Nat
           /\ cur.by[s] \in Nat /\ prev.by[s] \in Nat
           /\ cur.known \in BOOLEAN /\ prev.known \in BOOLEAN
           /\ Grown(cur, s) \in Nat /\ Grown(prev, s) \in Nat
           /\ Sampling!ComputeBySource[s] \in Nat /\ Uncounted(s) \in Nat
  <1>1. /\ added.by[s] \in Nat /\ bySource[s] \in Nat /\ counted[s] \in Nat
        /\ cur.by[s] \in Nat /\ prev.by[s] \in Nat
        /\ cur.known \in BOOLEAN /\ prev.known \in BOOLEAN
    BY DEF SampleTypeInv, Sample, Counts
  <1>2. Grown(cur, s) \in Nat /\ Grown(prev, s) \in Nat
    BY <1>1 DEF Grown
  <1>3. Sampling!ComputeBySource[s] \in Nat
    BY DeltaFromPrevious DEF Counts
  <1> QED BY <1>1, <1>2, <1>3 DEF Uncounted

LEMMA SendsType == Sends \in Nat
  BY ToolsAssumption DEF Sampling!MonitorAssumption

LEMMA SampleTyped ==
    ASSUME SampleTypeInv, [Sampling!Next]_(Sampling!monitorVars) PROVE SampleTypeInv'
  <1> USE DEF Sampling!pipelineVars, Sampling!samplerVars
  <1>0. Sampling!Zero \in Counts /\ Sampling!None \in Sample
    BY DEF Sampling!Zero, Sampling!None, Counts, Sample
  <1>1. ASSUME NEW s \in Sources, Sampling!CountTotal(s) PROVE SampleTypeInv'
    <2>1. PICK n \in 0 .. Sends : total' = total + n /\ added' = [added EXCEPT !.total = @ + n]
      BY <1>1 DEF Sampling!CountTotal
    <2>2. total' \in Nat /\ added' \in [total: Nat, by: Counts]
      BY <2>1, SendsType DEF SampleTypeInv
    <2> QED BY <1>1, <2>2 DEF Sampling!CountTotal, SampleTypeInv
  <1>2. ASSUME NEW s \in Sources, Sampling!CountSource(s) PROVE SampleTypeInv'
    <2>1. PICK n \in 0 .. Sends : /\ bySource' = [bySource EXCEPT ![s] = @ + n]
                                  /\ added' = [added EXCEPT !.by[s] = @ + n]
      BY <1>2 DEF Sampling!CountSource
    <2>2. n \in Nat
      BY <2>1, SendsType
    <2>3. bySource' \in Counts
      BY <2>1, <2>2 DEF SampleTypeInv, Counts
    <2>4. added' \in [total: Nat, by: Counts]
      BY <2>1, <2>2 DEF SampleTypeInv, Counts
    <2> QED BY <1>2, <2>3, <2>4 DEF Sampling!CountSource, SampleTypeInv
  <1>3. CASE Sampling!Reset
    BY <1>0, <1>3 DEF Sampling!Reset, SampleTypeInv
  <1>4. CASE Sampling!ReadTotals
    BY <1>0, <1>4 DEF Sampling!ReadTotals, SampleTypeInv, Sample
  <1>5. CASE Sampling!ReadHashes
    BY <1>5 DEF Sampling!ReadHashes, SampleTypeInv, Sample
  <1>6. CASE Sampling!Insert
    BY <1>0, <1>6, CountedWithRow DEF Sampling!Insert, SampleTypeInv
  <1>7. CASE Sampling!PruneOld \/ Sampling!Sleep \/ UNCHANGED Sampling!monitorVars
    BY <1>7 DEF Sampling!PruneOld, Sampling!Sleep, Sampling!monitorVars, SampleTypeInv
  <1>8. CASE Sampling!Fail \/ Sampling!Restart
    <2>1. PICK e \in Sampling!Effects : counted' = e[2]
      BY <1>8 DEF Sampling!Fail, Sampling!Restart
    <2>2. counted' \in Counts
      BY <2>1, EffectOnCounted, CountedWithRow DEF SampleTypeInv
    <2> QED BY <1>0, <1>8, <2>2 DEF Sampling!Fail, Sampling!Restart, SampleTypeInv
  <1> QED BY <1>1, <1>2, <1>3, <1>4, <1>5, <1>6, <1>7, <1>8 DEF Sampling!Next

\* The total is another counter.
LEMMA TotalCounted ==
    ASSUME SampleTypeInv, DeltaInv, NEW t \in Sources, Sampling!CountTotal(t) PROVE DeltaInv'
  <1>1. UNCHANGED <<bySource, step, cur, prev, counted>> /\ added'.by = added.by
    BY DEF Sampling!CountTotal, Sampling!samplerVars, SampleTypeInv
  <1>2. SUFFICES ASSUME NEW s \in Sources PROVE counted'[s] + Uncounted(s)' <= added'.by[s]
    BY DEF DeltaInv
  <1>3. Uncounted(s)' = Uncounted(s)
    BY <1>1 DEF Uncounted, Grown, Sampling!ComputeBySource
  <1> QED BY <1>1, <1>3 DEF DeltaInv

\* No delta grows by more than is added, however often the call was executed.
LEMMA SourceCounted ==
    ASSUME SampleTypeInv, DeltaInv, NEW t \in Sources, Sampling!CountSource(t) PROVE DeltaInv'
  <1>0. PICK n \in 0 .. Sends : /\ bySource' = [bySource EXCEPT ![t] = @ + n]
                                /\ added' = [added EXCEPT !.by[t] = @ + n]
    BY DEF Sampling!CountSource
  <1>1. UNCHANGED <<step, cur, prev, counted>> /\ n \in Nat
    BY SendsType DEF Sampling!CountSource, Sampling!samplerVars
  <1>2. SUFFICES ASSUME NEW s \in Sources PROVE counted'[s] + Uncounted(s)' <= added'.by[s]
    BY DEF DeltaInv
  <1>3. counted[s] + Uncounted(s) <= added.by[s]
    BY DEF DeltaInv
  <1>4. Sampling!ComputeBySource' = Sampling!ComputeBySource
    BY <1>1 DEF Sampling!ComputeBySource
  <1>5. CASE s # t
    <2>1. bySource'[s] = bySource[s] /\ added'.by[s] = added.by[s]
      BY <1>0, <1>5 DEF SampleTypeInv, Counts
    <2>2. Uncounted(s)' = Uncounted(s)
      BY <1>1, <1>4, <2>1 DEF Uncounted, Grown
    <2> QED BY <1>1, <1>3, <2>1, <2>2
  <1>6. CASE s = t
    <2>1. bySource'[s] = bySource[s] + n /\ added'.by[s] = added.by[s] + n
      BY <1>0, <1>6 DEF SampleTypeInv, Counts
    <2>2. /\ Grown(cur, s)' \in Nat /\ Grown(cur, s)' <= Grown(cur, s) + n
          /\ Grown(prev, s)' \in Nat /\ Grown(prev, s)' <= Grown(prev, s) + n
      BY <1>1, <2>1, SampleNumbers DEF Grown
    <2>3. Uncounted(s)' \in Nat /\ Uncounted(s)' <= Uncounted(s) + n
      BY <1>1, <1>4, <2>2, SampleNumbers DEF Uncounted
    <2> QED BY <1>1, <1>3, <2>1, <2>3, SampleNumbers
  <1> QED BY <1>5, <1>6

\* The sampler and a loss of the counters only ever lessen what is uncounted.
LEMMA NothingGained ==
    ASSUME SampleTypeInv, DeltaInv, UNCHANGED added,
           \A s \in Sources : /\ counted'[s] \in Nat /\ Uncounted(s)' \in Nat
                              /\ counted'[s] + Uncounted(s)' <= counted[s] + Uncounted(s)
    PROVE  DeltaInv'
  <1>1. SUFFICES ASSUME NEW s \in Sources
                 PROVE  counted'[s] + Uncounted(s)' <= added'.by[s]
    BY DEF DeltaInv
  <1>2. counted[s] + Uncounted(s) <= added.by[s]
    BY DEF DeltaInv
  <1> QED BY <1>2, SampleNumbers

\* Every step keeps the account of the deltas.
LEMMA NextDelta ==
    ASSUME SampleTypeInv, DeltaInv, [Sampling!Next]_(Sampling!monitorVars) PROVE DeltaInv'
  <1> USE DEF Sampling!pipelineVars, Sampling!samplerVars
  <1>1. CASE Sampling!Reset
    <2>1. ASSUME NEW s \in Sources
          PROVE  /\ counted'[s] \in Nat /\ Uncounted(s)' \in Nat
                 /\ counted'[s] + Uncounted(s)' <= counted[s] + Uncounted(s)
      <3>1. UNCHANGED <<added, step, cur, prev, counted>> /\ bySource'[s] = 0
        BY <1>1 DEF Sampling!Reset, Sampling!Zero
      <3>2. Sampling!ComputeBySource' = Sampling!ComputeBySource
        BY <3>1 DEF Sampling!ComputeBySource
      <3>3. Grown(cur, s)' = 0 /\ Grown(prev, s)' = 0
        BY <3>1, SampleNumbers DEF Grown
      <3> QED BY <3>1, <3>2, <3>3, SampleNumbers DEF Uncounted
    <2> QED BY <1>1, <2>1, NothingGained DEF Sampling!Reset
  <1>2. CASE \/ Sampling!ReadTotals \/ Sampling!PruneOld \/ Sampling!Sleep
             \/ UNCHANGED Sampling!monitorVars
    <2>1. ASSUME NEW s \in Sources
          PROVE  /\ counted'[s] \in Nat /\ Uncounted(s)' \in Nat
                 /\ counted'[s] + Uncounted(s)' <= counted[s] + Uncounted(s)
      <3>1. /\ UNCHANGED <<added, prev, counted, bySource>>
            /\ \/ step # "insert" /\ step' # "insert"
               \/ step' = step /\ cur' = cur
        BY <1>2 DEF Sampling!ReadTotals, Sampling!PruneOld, Sampling!Sleep, Sampling!monitorVars
      <3>2. Uncounted(s)' = Uncounted(s)
        BY <3>1 DEF Uncounted, Grown, Sampling!ComputeBySource
      <3> QED BY <3>1, <3>2, SampleNumbers
    <2> QED BY <1>2, <2>1, NothingGained DEF Sampling!ReadTotals, Sampling!PruneOld,
            Sampling!Sleep, Sampling!monitorVars
  <1>3. CASE Sampling!ReadHashes
    <2>1. ASSUME NEW s \in Sources
          PROVE  /\ counted'[s] \in Nat /\ Uncounted(s)' \in Nat
                 /\ counted'[s] + Uncounted(s)' <= counted[s] + Uncounted(s)
      <3>1. /\ UNCHANGED <<added, prev, counted, bySource>>
            /\ step = "hashes" /\ step' = "insert" /\ cur'.by = bySource
        BY <1>3 DEF Sampling!ReadHashes, SampleTypeInv, Sample
      <3>2. Sampling!ComputeBySource'[s] =
               IF prev.known THEN Sampling!Max({0, bySource[s] - prev.by[s]}) ELSE 0
        BY <3>1 DEF Sampling!ComputeBySource, Sampling!Max
      <3>3. bySource[s] - prev.by[s] \in Int
        BY SampleNumbers
      <3>4. Grown(cur, s)' = 0
        BY <3>1, SampleNumbers DEF Grown
      <3>5. Uncounted(s)' = Uncounted(s)
        BY <3>1, <3>2, <3>3, <3>4, Clamped, SampleNumbers DEF Uncounted, Grown
      <3> QED BY <3>1, <3>5, SampleNumbers
    <2> QED BY <1>3, <2>1, NothingGained DEF Sampling!ReadHashes
  <1>4. CASE Sampling!Insert
    <2>1. ASSUME NEW s \in Sources
          PROVE  /\ counted'[s] \in Nat /\ Uncounted(s)' \in Nat
                 /\ counted'[s] + Uncounted(s)' <= counted[s] + Uncounted(s)
      <3>1. /\ bySource' = bySource /\ step = "insert" /\ step' # "insert" /\ prev' = cur
            /\ counted'[s] = counted[s] + Sampling!ComputeBySource[s]
        BY <1>4, CountedWithRow DEF Sampling!Insert
      <3>2. Uncounted(s)' = IF cur.known THEN Grown(cur, s) ELSE 0
        BY <3>1 DEF Uncounted, Grown
      <3> QED BY <3>1, <3>2, SampleNumbers DEF Uncounted
    <2> QED BY <1>4, <2>1, NothingGained DEF Sampling!Insert
  <1>5. CASE Sampling!Fail \/ Sampling!Restart
    <2>1. ASSUME NEW s \in Sources
          PROVE  /\ counted'[s] \in Nat /\ Uncounted(s)' \in Nat
                 /\ counted'[s] + Uncounted(s)' <= counted[s] + Uncounted(s)
      <3>1. step' # "insert" /\ ~ prev'.known
        BY <1>5 DEF Sampling!Fail, Sampling!Restart, Sampling!None
      <3>2. Uncounted(s)' = 0
        BY <3>1 DEF Uncounted
      <3>3. PICK e \in Sampling!Effects : counted' = e[2]
        BY <1>5 DEF Sampling!Fail, Sampling!Restart
      <3>4. CASE counted' = counted
        BY <3>2, <3>4, SampleNumbers
      <3>5. CASE step = "insert" /\ counted' = Sampling!CountedToo
        BY <3>2, <3>5, CountedWithRow, SampleNumbers DEF Uncounted
      <3> QED BY <3>3, <3>4, <3>5, EffectOnCounted
    <2> QED BY <1>5, <2>1, NothingGained DEF Sampling!Fail, Sampling!Restart
  <1> QED BY <1>1, <1>2, <1>3, <1>4, <1>5, TotalCounted, SourceCounted DEF Sampling!Next

\* The deltas monitor.py records for a source never add up to more than was
\* added to its counter (compute_by_source and the loop's except branch), for
\* any sources and however long it runs: whatever samples failed with or without
\* effect, however often the sampler was killed, an increment was executed again
\* and Redis lost the counters.
THEOREM SourceDeltasOnce == Spec => []Sampling!SourcesCountOnce
  <1> DEFINE Inv == SampleTypeInv /\ DeltaInv
  <1>1. Init => Inv
    <2>1. SUFFICES ASSUME Sampling!Init PROVE Inv
      BY DEF Init
    <2>2. SampleTypeInv
      BY <2>1 DEF Sampling!Init, Sampling!Zero, Sampling!None, SampleTypeInv, Sample, Counts
    <2>3. \A s \in Sources : Uncounted(s) = 0 /\ counted[s] = 0 /\ added.by[s] = 0
      BY <2>1 DEF Sampling!Init, Sampling!Zero, Sampling!None, Uncounted
    <2> QED BY <2>2, <2>3 DEF DeltaInv
  <1>2. Inv /\ [Next]_vars => Inv'
    BY SamplingStep, SampleTyped, NextDelta
  <1>3. Inv => Sampling!SourcesCountOnce
    <2>1. SUFFICES ASSUME SampleTypeInv, DeltaInv, NEW s \in Sources
                   PROVE  counted[s] <= added.by[s]
      BY DEF Sampling!SourcesCountOnce
    <2>2. counted[s] + Uncounted(s) <= added.by[s]
      BY <2>1 DEF DeltaInv
    <2> QED BY <2>1, <2>2, SampleNumbers
  <1> QED BY <1>1, <1>2, <1>3, PTL DEF Spec
=============================================================================
