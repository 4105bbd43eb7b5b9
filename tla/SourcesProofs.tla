--------------------------- MODULE SourcesProofs ---------------------------
(***************************************************************************)
(* Theorems about Sources for every value of its constants.                *)
(***************************************************************************)
EXTENDS Sources, FiniteSetTheorems, TLAPS

-----------------------------------------------------------------------------
(***************************************************************************)
(* Types.                                                                  *)
(***************************************************************************)

\* A call that has returned takes no other step, and one that has not has no
\* result.
CallOK ==
    /\ kind \in {"devto", "stackexchange", "rss"}
    /\ page \in Nat \ {0}
    /\ fresh \in 0 .. Upstream
    /\ attempt \in Nat
    /\ feed \in Nat \ {0}
    /\ pc = "done" <=> result # "none"

LEMMA InitCall == Init => CallOK
  BY SourcesAssumption DEF Init, CallOK

LEMMA NextCall == ASSUME CallOK, [Next]_vars PROVE CallOK'
  <1>1. CASE DevTo
    BY <1>1 DEF CallOK, DevTo, DevToListed, DevToGarbled, DevToListFails, BodyFetched,
       BodyMissing, BodyFails, DevToPage, BodyDone, TryAgain, Return, argVars
  <1>2. CASE StackExchange
    BY <1>2 DEF CallOK, StackExchange, SEListed, SEBodies, SEAnswers, SEFails, SEGarbled,
       TryAgain, Return, argVars
  <1>3. CASE RSS
    BY <1>3 DEF CallOK, RSS, RSSOtherPage, RSSFeed, RSSReturn, RSSEnd, Return, argVars
  <1>4. CASE Cancel \/ UNCHANGED vars
    BY <1>4 DEF CallOK, Cancel, argVars, vars
  <1> QED BY <1>1, <1>2, <1>3, <1>4 DEF Next, FetchSince

-----------------------------------------------------------------------------
(***************************************************************************)
(* The window.                                                             *)
(***************************************************************************)

\* Of the articles shown so far the call holds those of the window.  An RSS
\* poll may have left some out, but only once the page is full; it has read
\* the feeds before the next one and no other.  The questions kept are those
\* whose bodies and answers Stack Exchange is asked for.
SEWindow ==
    /\ shown \subseteq InWindow
    /\ pc = "list" => out = {}
    /\ pc \in {"bodies", "answers"} => out = {} /\ todo = shown \cap kept
    /\ result = "empty" => out = {} /\ shown = {}
    /\ result = "articles" => out = shown \cap kept \cap Composed(bodies, answered)

WindowInv ==
    /\ kind = "stackexchange" => SEWindow
    /\ kind = "devto" => result = "failed" \/ out = Wanted
    /\ kind = "rss" => /\ shown \subseteq UNION {Feeds[f] : f \in 1 .. feed - 1}
                       /\ feed <= Len(Feeds) + 1
                       /\ out \subseteq Wanted
                       /\ out = Wanted \/ Cardinality(Wanted) > PerPage

\* A part of the window is finite.
LEMMA WindowFinite ==
    ASSUME CallOK, NEW S \in SUBSET InWindow
    PROVE  IsFiniteSet(S) /\ Cardinality(S) \in Nat
  <1>1. fresh \in Nat
    BY SourcesAssumption DEF CallOK
  <1>2. IsFiniteSet(1 .. fresh)
    BY <1>1, FS_Interval
  <1> QED BY <1>2, FS_Subset, FS_CardinalityType DEF InWindow

\* What a page of n articles does not take of a feed's new items exceeds it:
\* with n articles before it, the feed has more than PerPage - n.
LEMMA TakenAllOrFull ==
    ASSUME CallOK, NEW W \in SUBSET InWindow, NEW S \in SUBSET InWindow, W \cap S = {}
    PROVE  /\ Taken(S, Cardinality(W)) \subseteq S
           /\ \/ Taken(S, Cardinality(W)) = S
              \/ Cardinality(W \cup S) > PerPage
  <1>1. Taken(S, Cardinality(W)) \subseteq S
    BY DEF Taken
  <1>2. CASE Taken(S, Cardinality(W)) # S
    <2>1. PICK i \in S : ~ (Cardinality(W) + Cardinality({j \in S : j < i}) < PerPage)
      BY <1>1, <1>2 DEF Taken
    <2> DEFINE before == {j \in S : j < i}
    <2>2. /\ IsFiniteSet(W) /\ Cardinality(W) \in Nat
          /\ IsFiniteSet(S) /\ Cardinality(S) \in Nat
          /\ IsFiniteSet(before) /\ Cardinality(before) \in Nat
      BY WindowFinite
    <2>3. i \in Int /\ i \notin before
      BY DEF InWindow, CallOK
    <2>4. before \cup {i} \subseteq S
      OBVIOUS
    <2>5. Cardinality(before \cup {i}) = Cardinality(before) + 1
      BY <2>2, <2>3, FS_AddElement
    <2>6. Cardinality(before \cup {i}) <= Cardinality(S)
      BY <2>2, <2>4, FS_Subset
    <2>7. Cardinality(W \cup S) = Cardinality(W) + Cardinality(S)
      <3>1. Cardinality(W \cup S)
              = Cardinality(W) + Cardinality(S) - Cardinality(W \cap S)
        BY <2>2, FS_Union
      <3>2. Cardinality(W \cap S) = 0
        BY FS_EmptySet
      <3> QED BY <2>2, <3>1, <3>2
    <2>8. Cardinality(W) + Cardinality(before) >= PerPage /\ PerPage \in Nat
      BY <2>1, <2>2, SourcesAssumption
    <2> HIDE DEF before
    <2> QED BY <1>1, <2>2, <2>5, <2>6, <2>7, <2>8
  <1> QED BY <1>1, <1>2

LEMMA InitWindow == Init => WindowInv
  BY SourcesAssumption DEF Init, WindowInv, SEWindow, Wanted

\* A feed adds its items of the window, or as many as the page still takes.
LEMMA FeedWindow == ASSUME CallOK, WindowInv, RSSFeed PROVE WindowInv'
  <1>1. /\ kind' = kind /\ kind = "rss" /\ feed' = feed + 1 /\ feed <= Len(Feeds)
        /\ InWindow' = InWindow
    BY DEF RSSFeed, argVars, InWindow
  <1>2. feed \in 1 .. Len(Feeds) /\ Len(Feeds) \in Nat
    BY <1>1, SourcesAssumption DEF CallOK
  <1>3. feed' <= Len(Feeds) + 1 /\ feed' - 1 = feed
    BY <1>1, <1>2
  <1>4. /\ shown \subseteq UNION {Feeds[f] : f \in 1 .. feed - 1}
        /\ out \subseteq Wanted
        /\ out = Wanted \/ Cardinality(Wanted) > PerPage
    BY <1>1 DEF WindowInv
  <1>5. \A f \in 1 .. feed - 1 : f \in 1 .. feed
    BY <1>2
  <1>6. CASE UNCHANGED <<shown, out>>
    <2>1. Wanted' = Wanted
      BY <1>1, <1>6 DEF Wanted
    <2>2. shown' \subseteq UNION {Feeds[f] : f \in 1 .. feed' - 1}
      BY <1>3, <1>4, <1>5, <1>6
    <2> QED BY <1>1, <1>3, <1>4, <1>6, <2>1, <2>2 DEF WindowInv
  <1>7. CASE /\ shown' = shown \cup Feeds[feed]
             /\ out' = out \cup Taken(Feeds[feed] \cap InWindow, Cardinality(out))
    <2> DEFINE S == Feeds[feed] \cap InWindow
    <2>1. Wanted' = Wanted \cup S
      BY <1>1, <1>7 DEF Wanted
    <2>2. shown' \subseteq UNION {Feeds[f] : f \in 1 .. feed' - 1}
      <3>1. feed \in 1 .. feed
        BY <1>2
      <3> QED BY <1>3, <1>4, <1>5, <1>7, <3>1
    <2>3. Wanted \cap S = {}
      <3>1. \A f \in 1 .. feed - 1 : f \in 1 .. Len(Feeds) /\ f # feed
        BY <1>2
      <3>2. \A f \in 1 .. feed - 1 : Feeds[f] \cap Feeds[feed] = {}
        BY <1>2, <3>1, SourcesAssumption
      <3> QED BY <1>4, <3>2 DEF Wanted
    <2>4. Wanted \in SUBSET InWindow /\ S \in SUBSET InWindow
      BY DEF Wanted
    <2>5. CASE out = Wanted
      <3>1. /\ Taken(S, Cardinality(Wanted)) \subseteq S
            /\ Taken(S, Cardinality(Wanted)) = S \/ Cardinality(Wanted \cup S) > PerPage
        BY <2>3, <2>4, TakenAllOrFull
      <3>2. out' = Wanted \cup Taken(S, Cardinality(Wanted))
        BY <1>7, <2>5
      <3>3. out' \subseteq Wanted' /\ (out' = Wanted' \/ Cardinality(Wanted') > PerPage)
        BY <2>1, <3>1, <3>2
      <3> QED BY <1>1, <1>3, <2>2, <3>3 DEF WindowInv
    <2>6. CASE Cardinality(Wanted) > PerPage
      <3>1. out' \subseteq Wanted'
        BY <1>4, <1>7, <2>1 DEF Taken
      <3>2. IsFiniteSet(Wanted \cup S) /\ Cardinality(Wanted \cup S) \in Nat
              /\ Cardinality(Wanted) \in Nat
        BY <2>4, WindowFinite
      <3>3. Cardinality(Wanted) <= Cardinality(Wanted \cup S)
        BY <3>2, FS_Subset
      <3>4. Cardinality(Wanted') > PerPage
        BY <2>1, <2>6, <3>2, <3>3, SourcesAssumption
      <3> QED BY <1>1, <1>3, <2>2, <3>1, <3>4 DEF WindowInv
    <2> QED BY <1>4, <2>5, <2>6
  <1> QED BY <1>6, <1>7 DEF RSSFeed

LEMMA NextWindow == ASSUME CallOK, WindowInv, [Next]_vars PROVE WindowInv'
  <1>1. CASE DevTo
    <2>1. kind = "devto" /\ kind' = kind /\ InWindow' = InWindow
      BY <1>1 DEF DevTo, DevToListed, DevToGarbled, DevToListFails, BodyFetched,
         BodyMissing, BodyFails, argVars, InWindow
    <2>2. CASE DevToListed
      <3>1. result' = "failed" \/ (out' = PageOf(page) \cap InWindow /\ shown' = PageOf(page))
        BY <2>2 DEF DevToListed, DevToPage, Return
      <3> QED BY <2>1, <3>1 DEF WindowInv, Wanted
    <2>3. CASE DevToGarbled
      BY <2>1, <2>3 DEF DevToGarbled, Return, WindowInv
    <2>4. CASE DevToListFails
      <3>1. result' = "failed" \/ UNCHANGED <<shown, out, result>>
        BY <2>4 DEF DevToListFails, TryAgain, DevToPage, Return
      <3> QED BY <2>1, <3>1 DEF WindowInv, Wanted
    <2>5. CASE BodyFetched \/ BodyMissing \/ BodyFails
      <3>1. UNCHANGED <<shown, out>> /\ result # "failed"
        BY <2>5 DEF BodyFetched, BodyMissing, BodyFails, CallOK
      <3> QED BY <2>1, <3>1 DEF WindowInv, Wanted
    <2> QED BY <1>1, <2>2, <2>3, <2>4, <2>5 DEF DevTo
  <1>2. CASE StackExchange
    <2>1. kind = "stackexchange" /\ kind' = kind
      BY <1>2 DEF StackExchange, SEListed, SEBodies, SEAnswers, SEFails, SEGarbled, argVars
    <2>2. SEWindow /\ InWindow' = InWindow /\ kept' = kept
      BY <1>2, <2>1 DEF WindowInv, InWindow, StackExchange, SEListed, SEBodies, SEAnswers,
         SEFails, SEGarbled, argVars
    <2>3. CASE SEListed
      <3>1. /\ shown' = PageOf(page) \cap InWindow /\ out' = out /\ out = {}
            /\ todo' = shown' \cap kept
            /\ \/ result' = "empty" /\ pc' = "done" /\ shown' = {}
               \/ result' = "articles" /\ pc' = "done" /\ shown' \cap kept = {}
               \/ pc' = "bodies" /\ result' = "none"
        BY <2>2, <2>3 DEF SEListed, SEWindow, Return, CallOK
      <3> QED BY <2>1, <2>2, <3>1 DEF WindowInv, SEWindow
    <2>4. CASE SEBodies
      BY <2>1, <2>2, <2>4 DEF SEBodies, CallOK, WindowInv, SEWindow, Return, argVars
    <2>5. CASE SEAnswers
      <3>1. out' = shown \cap kept \cap Composed(bodies, answered')
        BY <2>2, <2>5 DEF SEAnswers, SEWindow
      <3>2. /\ shown' = shown /\ bodies' = bodies
            /\ pc' = "done" /\ result' = "articles"
        BY <2>5 DEF SEAnswers, Return
      <3>3. Composed(bodies, answered)' = Composed(bodies, answered')
        BY <3>2 DEF Composed
      <3> QED BY <2>1, <2>2, <3>1, <3>2, <3>3 DEF WindowInv, SEWindow
    <2>6. CASE SEFails \/ SEGarbled
      <3>1. /\ UNCHANGED <<shown, todo, out, bodies, answered>>
            /\ (pc' = "done" /\ result' = "failed") \/ UNCHANGED <<pc, result>>
        BY <2>6 DEF SEFails, SEGarbled, TryAgain, Return, seVars
      <3>2. Composed(bodies, answered)' = Composed(bodies, answered)
        BY <3>1 DEF Composed
      <3> QED BY <2>1, <2>2, <3>1, <3>2 DEF WindowInv, SEWindow
    <2> QED BY <1>2, <2>3, <2>4, <2>5, <2>6 DEF StackExchange
  <1>3. CASE RSSOtherPage \/ RSSReturn
    BY <1>3 DEF RSSOtherPage, RSSReturn, WindowInv, Wanted, InWindow, argVars
  <1>4. CASE Cancel \/ UNCHANGED vars
    <2>1. UNCHANGED <<kind, fresh, kept, shown, feed, todo, bodies, answered, out, result, pc>>
      BY <1>4 DEF Cancel, vars, argVars, seVars
    <2>2. InWindow' = InWindow /\ Composed(bodies, answered)' = Composed(bodies, answered)
      BY <2>1 DEF InWindow, Composed
    <2>3. Wanted' = Wanted
      BY <2>1, <2>2 DEF Wanted
    <2>4. SEWindow' = SEWindow
      BY <2>1, <2>2 DEF SEWindow
    <2> QED BY <2>1, <2>3, <2>4 DEF WindowInv
  <1> QED BY <1>1, <1>2, <1>3, <1>4, FeedWindow DEF Next, FetchSince, RSS

\* Of the articles the listing or the feeds have shown, a call of a source that
\* succeeds returns those of its window and no others, whatever failed, was
\* retried or skipped before (FetchSince of devto.go, rss.go, stackexchange.go):
\* DEV.to's with or without their bodies; of an RSS poll all, unless they are
\* more than a page; of Stack Exchange, whose window is of last activity, those
\* that pass its filters and of which composeDoc makes an article.
THEOREM WindowReturned == Spec => []ReturnsWindow
  <1>1. Init => CallOK /\ WindowInv
    BY InitCall, InitWindow
  <1>2. CallOK /\ WindowInv /\ [Next]_vars => CallOK' /\ WindowInv'
    BY NextCall, NextWindow
  <1>3. CallOK /\ WindowInv => ReturnsWindow
    BY DEF CallOK, WindowInv, SEWindow, ReturnsWindow, Wanted
  <1> QED BY <1>1, <1>2, <1>3, PTL DEF Spec

-----------------------------------------------------------------------------
(***************************************************************************)
(* The end of the listing.                                                 *)
(***************************************************************************)

\* An empty verdict was given on a page without an article of the window.
EmptyInv == result = "empty" /\ kind # "rss" => PageOf(page) \cap InWindow = {}

\* The first article of page q + 1, and where the article i is.
LEMMA PageStart ==
    ASSUME NEW k \in Nat \ {0}, NEW q \in Nat, NEW i \in Nat, NEW p \in Nat,
           i \div k = p, q <= p
    PROVE  (q * k) \div k = q /\ q * k <= i /\ q * k \in Nat
  OBVIOUS

\* The pages are filled in order: what is empty stays empty on later pages.
LEMMA EmptyFromHere ==
    ASSUME CallOK, PageOf(page) \cap InWindow = {},
           NEW p \in Int, p >= page
    PROVE  PageOf(p) \cap InWindow = {}
  <1>1. SUFFICES ASSUME NEW i \in PageOf(p) \cap InWindow PROVE FALSE
    OBVIOUS
  <1>2. /\ i \in 1 .. Upstream /\ i <= fresh /\ (i - 1) \div PerPage = p - 1
        /\ i - 1 \in Nat /\ page - 1 \in Nat /\ p - 1 \in Nat /\ page - 1 <= p - 1
        /\ PerPage \in Nat \ {0} /\ Upstream \in Nat /\ fresh \in Nat
    BY SourcesAssumption DEF PageOf, Articles, InWindow, CallOK
  <1>3. PICK o : o = (page - 1) * PerPage
    OBVIOUS
  <1>4. o \div PerPage = page - 1 /\ o <= i - 1 /\ o \in Nat
    BY <1>2, <1>3, PageStart
  <1>5. o + 1 \in 1 .. Upstream /\ o + 1 \in 1 .. fresh /\ (o + 1) - 1 = o
    BY <1>2, <1>4
  <1> QED BY <1>4, <1>5 DEF PageOf, Articles, InWindow

LEMMA NextEmpty == ASSUME CallOK, EmptyInv, [Next]_vars PROVE EmptyInv'
  <1>1. UNCHANGED argVars
    BY DEF Next, FetchSince, DevTo, DevToListed, DevToGarbled, DevToListFails, BodyFetched,
       BodyMissing, BodyFails, StackExchange, SEListed, SEBodies, SEAnswers, SEFails,
       SEGarbled, RSS, RSSOtherPage, RSSFeed, RSSReturn, Cancel, vars
  <1>2. kind' = kind /\ InWindow' = InWindow /\ PageOf(page)' = PageOf(page)
    BY <1>1 DEF argVars, InWindow, PageOf, Articles
  <1>3. CASE DevTo
    <2>1. \/ result' # "empty"
          \/ result' = result
          \/ PageOf(page) \cap InWindow = {}
      BY <1>3 DEF DevTo, DevToListed, DevToGarbled, DevToListFails, BodyFetched,
         BodyMissing, BodyFails, DevToPage, BodyDone, TryAgain, Return
    <2> QED BY <1>2, <2>1 DEF EmptyInv
  <1>4. CASE StackExchange
    <2>1. \/ result' # "empty"
          \/ result' = result
          \/ PageOf(page) \cap InWindow = {}
      BY <1>4 DEF StackExchange, SEListed, SEBodies, SEAnswers, SEFails, SEGarbled,
         TryAgain, Return
    <2> QED BY <1>2, <2>1 DEF EmptyInv
  <1>5. CASE RSS
    <2>1. kind = "rss"
      BY <1>5 DEF RSS, RSSOtherPage, RSSFeed, RSSReturn
    <2> QED BY <1>2, <2>1 DEF EmptyInv
  <1>6. CASE Cancel \/ UNCHANGED vars
    <2>1. result' = result
      BY <1>6 DEF Cancel, vars
    <2> QED BY <1>2, <2>1 DEF EmptyInv
  <1> QED BY <1>3, <1>4, <1>5, <1>6 DEF Next, FetchSince

\* The scheduler may stop at a page that the DEV.to or Stack Exchange source
\* calls empty (scheduler.go, runSource): neither it nor any later page has an
\* article of the window.
THEOREM EmptyIsTheEnd == Spec => []EmptyMeansExhausted
  <1>1. Init => CallOK /\ EmptyInv
    BY InitCall DEF Init, EmptyInv
  <1>2. CallOK /\ EmptyInv /\ [Next]_vars => CallOK' /\ EmptyInv'
    BY NextCall, NextEmpty
  <1>3. CallOK /\ EmptyInv => EmptyMeansExhausted
    <2>1. SUFFICES ASSUME CallOK, EmptyInv, result = "empty", kind # "rss",
                          NEW p \in page .. (page + Upstream)
                   PROVE  PageOf(p) \cap InWindow = {}
      BY DEF EmptyMeansExhausted
    <2>2. p \in Int /\ p >= page
      BY <2>1, SourcesAssumption DEF CallOK
    <2> QED BY <2>1, <2>2, EmptyFromHere DEF EmptyInv
  <1> QED BY <1>1, <1>2, <1>3, PTL DEF Spec

-----------------------------------------------------------------------------
(***************************************************************************)
(* Retries of getJSON.                                                     *)
(***************************************************************************)

\* A request that is still tried has failed fewer than MaxTries times.
RetryInv ==
    kind = "stackexchange" =>
       /\ pc # "done" => attempt < MaxTries
       /\ result = "failed" => cancelled \/ garbled \/ attempt = MaxTries

LEMMA NextRetry == ASSUME CallOK, RetryInv, [Next]_vars PROVE RetryInv'
  <1>1. CASE StackExchange
    <2>1. kind = "stackexchange" /\ attempt \in Nat /\ MaxTries \in Nat \ {0} /\ pc # "done"
      BY <1>1, SourcesAssumption DEF CallOK, StackExchange, SEListed, SEBodies, SEAnswers,
         SEFails, SEGarbled
    <2>2. result = "none" /\ attempt < MaxTries
      BY <2>1 DEF CallOK, RetryInv
    <2>3. CASE SEListed \/ SEBodies \/ SEAnswers
      <3>1. attempt' = 0 /\ result' # "failed"
        BY <2>2, <2>3 DEF SEListed, SEBodies, SEAnswers, Return
      <3> QED BY <2>1, <3>1 DEF RetryInv
    <2>4. CASE SEFails
      BY <2>1, <2>2, <2>4 DEF SEFails, TryAgain, Exhausted, Return, RetryInv
    <2>5. CASE SEGarbled
      BY <2>5 DEF SEGarbled, Return, RetryInv
    <2> QED BY <1>1, <2>3, <2>4, <2>5 DEF StackExchange
  <1>2. CASE DevTo \/ RSS
    <2>1. kind' # "stackexchange"
      BY <1>2 DEF DevTo, DevToListed, DevToGarbled, DevToListFails, BodyFetched,
         BodyMissing, BodyFails, RSS, RSSOtherPage, RSSFeed, RSSReturn, argVars
    <2> QED BY <2>1 DEF RetryInv
  <1>3. CASE Cancel \/ UNCHANGED vars
    BY <1>3 DEF Cancel, vars, argVars, RetryInv
  <1> QED BY <1>1, <1>2, <1>3 DEF Next, FetchSince

\* getJSON gives up on a request of a page that is not interrupted, and whose
\* answers decode, only when the request has failed maxSERetries times
\* (stackexchange.go).
THEOREM RetriesExhausted == Spec => []SEFailsAfterRetries
  <1>1. Init => CallOK /\ RetryInv
    BY InitCall, SourcesAssumption DEF Init, RetryInv
  <1>2. CallOK /\ RetryInv /\ [Next]_vars => CallOK' /\ RetryInv'
    BY NextCall, NextRetry
  <1>3. RetryInv => SEFailsAfterRetries
    BY DEF RetryInv, SEFailsAfterRetries, FailsAfterRetries
  <1> QED BY <1>1, <1>2, <1>3, PTL DEF Spec
=============================================================================
