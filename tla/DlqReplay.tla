----------------------------- MODULE DlqReplay -----------------------------
(***************************************************************************)
(* The operator's tool py-processor/dlq_replay.py: rounds of replay_round, *)
(* which puts the oldest entries of the dead-letter stream back on the     *)
(* article stream while the processor consumes that stream and may park    *)
(* what it gets a second time.                                             *)
(*                                                                         *)
(* One action is one call to Redis, so the tool may die between any two of *)
(* them, and a call that fails is a death before or after it.  Every entry *)
(* has an article: push_dlq writes no other.  A Redis stream is ordered by *)
(* its ids, so the dead-letter stream is the set of its entries.  Articles *)
(* that are parked for the first time meanwhile get later ids and are left *)
(* out, except that they count towards the MAXLEN that trims it.           *)
(***************************************************************************)
EXTENDS Integers, Sequences, FiniteSets

CONSTANTS
    Parked,     \* number of articles parked when the tool is first run
    PerRound,   \* --batch, or --limit without --loop; 0: all
    MaxRounds,  \* --max-rounds
    MaxParks,   \* bound: number of replayed articles parked again
    MaxCrashes  \* bound: number of deaths of the tool

\* What the options and bounds are.
ReplayAssumption ==
    /\ Parked \in Nat
    /\ PerRound \in Nat
    /\ MaxRounds \in Nat \ {0}
    /\ MaxParks \in Nat /\ MaxCrashes \in Nat

VARIABLES
    dlq,       \* the dead-letter stream: its entries [id, article]
    stream,    \* articles on the article stream, not yet acknowledged
    settled,   \* articles the processor has stored or rejected
    parks,     \* articles parked again
    mode,      \* options of the run: --loop, --delete, --dry-run
    pc,        \* next call of the tool
    left,      \* entries of the round still to be replayed
    replayed,  \* entries replayed in the round
    round,     \* round_no
    ever,      \* history: ids of the entries ever replayed
    gone,      \* history: articles lost by a trim or by the processor
    crashes    \* deaths so far

toolVars == <<mode, pc, left, replayed, round>>
replayVars == <<dlq, stream, settled, parks, toolVars, ever, gone, crashes>>

Articles == 1 .. Parked

\* Articles are numbered in the order in which they were parked.
Init ==
    /\ dlq = {[id |-> i, article |-> i] : i \in Articles}
    /\ stream = <<>>
    /\ settled = {}
    /\ parks = 0
    /\ mode = [loop |-> FALSE, delete |-> FALSE, dry |-> FALSE]
    /\ pc = "stopped"
    /\ left = {}
    /\ replayed = 0
    /\ round = 1
    /\ ever = {}
    /\ gone = {}
    /\ crashes = 0
-----------------------------------------------------------------------------
\* The operator starts the tool with any options.
Run ==
    /\ pc = "stopped"
    /\ mode' \in [loop: BOOLEAN, delete: BOOLEAN, dry: BOOLEAN]
    /\ pc' = "xrange" /\ round' = 1
    /\ UNCHANGED <<dlq, stream, settled, parks, left, replayed, ever, gone, crashes>>

\* Mutant: the newest entries are read.
Newest == {e \in dlq : PerRound = 0 \/ Cardinality({f \in dlq : f.id > e.id}) < PerRound}

\* replay_round reads the oldest entries.
Oldest == {e \in dlq : PerRound = 0 \/ Cardinality({f \in dlq : f.id < e.id}) < PerRound}

XRange ==
    /\ pc = "xrange"
    /\ left' = IF mode.dry THEN {} ELSE Oldest
    /\ replayed' = 0
    /\ pc' = IF left' = {} THEN "xlen" ELSE "xadd"
    /\ UNCHANGED <<dlq, stream, settled, parks, mode, round, ever, gone, crashes>>

\* The entry of the round whose turn it is.
First == CHOOSE e \in left : \A f \in left : e.id <= f.id

\* The next entry of the round, or its end.
Following ==
    /\ left' = left \ {First}
    /\ pc' = IF left' = {} THEN "xlen" ELSE "xadd"

XAdd ==
    /\ pc = "xadd"
    /\ stream' = Append(stream, First.article)
    /\ replayed' = replayed + 1
    /\ ever' = ever \cup {First.id}
    /\ IF mode.delete THEN pc' = "xdel" /\ UNCHANGED left ELSE Following
    /\ UNCHANGED <<dlq, settled, parks, mode, round, gone, crashes>>

\* Mutant: the whole round is deleted after its first XADD.
XDelRound ==
    /\ pc = "xdel"
    /\ dlq' = {e \in dlq : \A f \in left : e.id # f.id}
    /\ Following
    /\ UNCHANGED <<stream, settled, parks, mode, replayed, round, ever, gone, crashes>>

XDel ==
    /\ pc = "xdel"
    /\ dlq' = {e \in dlq : e.id # First.id}
    /\ Following
    /\ UNCHANGED <<stream, settled, parks, mode, replayed, round, ever, gone, crashes>>

\* The end of a round: XLEN, and the next round after a pause, or the end.
Again == mode.loop /\ replayed # 0 /\ dlq # {} /\ round < MaxRounds

EndRound ==
    /\ pc = "xlen"
    /\ IF Again
         THEN pc' = "xrange" /\ round' = round + 1
         ELSE pc' = "done" /\ UNCHANGED round
    /\ UNCHANGED <<dlq, stream, settled, parks, mode, left, replayed, ever, gone, crashes>>

\* The tool dies and the operator will run it again.
Crash ==
    /\ pc \notin {"stopped", "done"}
    /\ crashes < MaxCrashes
    /\ crashes' = crashes + 1
    /\ pc' = "stopped" /\ left' = {} /\ replayed' = 0
    /\ UNCHANGED <<dlq, stream, settled, parks, mode, round, ever, gone>>

(***************************************************************************)
(* The processor: module Processor in one step per message.                *)
(***************************************************************************)
\* process_batch stores or rejects the article and acknowledges it.
Settle ==
    /\ stream # <<>>
    /\ settled' = settled \cup {Head(stream)}
    /\ stream' = Tail(stream)
    /\ UNCHANGED <<dlq, parks, toolVars, ever, gone, crashes>>

\* What MAXLEN ~ may leave of the entries S: the newest ones.
Trims(S) == {T \in SUBSET S : \A e \in T, f \in S : f.id > e.id => f \in T}

\* Entries fall off the dead-letter stream.
Trimmed(S, T) ==
    /\ dlq' = T
    /\ gone' = gone \cup {e.article : e \in S \ T}

\* push_dlq parks it again.  A replayed message has a new id, so dlq:seen does
\* not know it.
ParkAgain ==
    /\ stream # <<>>
    /\ parks < MaxParks
    /\ parks' = parks + 1
    /\ LET new == [id |-> Parked + parks + 1, article |-> Head(stream)] IN
         \E T \in Trims(dlq) : Trimmed(dlq \cup {new}, T \cup {new})
    /\ stream' = Tail(stream)
    /\ UNCHANGED <<settled, toolVars, ever, crashes>>

\* push_dlq parks an article for the first time.
ParkAnother ==
    /\ \E T \in Trims(dlq) : Trimmed(dlq, T)
    /\ UNCHANGED <<stream, settled, parks, toolVars, ever, crashes>>

\* An entry of the article stream is consumed and nothing comes of it.
Vanish ==
    /\ stream # <<>>
    /\ gone' = gone \cup {Head(stream)}
    /\ stream' = Tail(stream)
    /\ UNCHANGED <<dlq, settled, parks, toolVars, ever, crashes>>

\* "never raises": push_dlq failed, and the batch is acknowledged all the same.
ParkFails == Vanish
\* push_dlq had cut the JSON after 10000 characters: process_batch skips it.
SkipCut == Vanish
\* The crawler's Publish trims the article stream before the entry is read.
TrimStream == Vanish
-----------------------------------------------------------------------------
Tool == Run \/ XRange \/ XAdd \/ XDel \/ EndRound

Consumer == Settle \/ ParkAgain \/ ParkAnother \/ ParkFails \/ SkipCut \/ TrimStream

Next == Tool \/ Crash \/ Consumer

Spec == Init /\ [][Next]_replayVars
-----------------------------------------------------------------------------
(***************************************************************************)
(* Properties.                                                             *)
(***************************************************************************)
OnDlq(a) == \E e \in dlq : e.article = a
OnStream(a) == \E i \in 1 .. Len(stream) : stream[i] = a

\* The tool drops no parked article: wherever it dies, the article is on the
\* dead-letter stream, on the article stream or dealt with, unless a trim took
\* it or the processor lost it.
NothingDropped ==
    \A a \in Articles : OnDlq(a) \/ OnStream(a) \/ a \in settled \/ a \in gone

\* "keep replaying --batch entries ... until the DLQ is empty": with --delete a
\* loop of enough rounds replays every entry that was parked when it began,
\* whatever runs came before it, but for those that a trim took.  Without
\* --delete its rounds would read the same entries again.
LoopReachesAll ==
    pc = "done" /\ mode = [loop |-> TRUE, delete |-> TRUE, dry |-> FALSE]
       /\ (PerRound = 0 \/ MaxRounds * PerRound >= Parked)
    => 1 .. Parked \subseteq ever \cup gone
=============================================================================
