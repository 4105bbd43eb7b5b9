------------------------------ MODULE Sources ------------------------------
(***************************************************************************)
(* FetchSince of the three sources of go-crawler/internal/source: one call *)
(* for one page, request by request.  A request may fail and is retried    *)
(* MaxTries times; ctx may be done at any time, which ends the backoff.    *)
(*                                                                         *)
(* The upstream's articles are 1 .. Upstream, the newest first; the first  *)
(* `fresh' of them are at or after since, by the time of publication at    *)
(* DEV.to and in the feeds, by that of the last activity at Stack Exchange.*)
(***************************************************************************)
EXTENDS Integers, Sequences, FiniteSets

CONSTANTS
    Kinds,     \* the sources to be called: "devto", "stackexchange", "rss"
    Upstream,  \* number of articles upstream
    PerPage,   \* per_page
    MaxPage,   \* bound: the pages asked for
    MaxTries,  \* maxDevToRetries, maxSERetries
    FetchBody, \* crawler.fetch_body
    RequireAnswered, \* crawler.stackexchange.require_answered
    Feeds      \* the items of each RSS feed: one that two feeds list is two items

ASSUME SourcesAssumption ==
    /\ Kinds \subseteq {"devto", "stackexchange", "rss"}
    /\ Upstream \in Nat
    /\ PerPage \in Nat \ {0} /\ MaxPage \in Nat \ {0} /\ MaxTries \in Nat \ {0}
    /\ FetchBody \in BOOLEAN /\ RequireAnswered \in BOOLEAN
    /\ Feeds \in Seq(SUBSET (1 .. Upstream))
    /\ \A f, g \in 1 .. Len(Feeds) : f # g => Feeds[f] \cap Feeds[g] = {}

VARIABLES
    \* the call and the upstream
    kind,       \* the source it is made to
    page,
    fresh,      \* articles 1 .. fresh are in the window
    kept,       \* articles that pass the score and answered filters
    cancelled,  \* ctx is done
    \* the call
    pc,         \* the next request: listing, bodies or answers
    attempt,    \* failed attempts of the request
    lastErr,    \* whether lastErr is set
    feed,       \* the next RSS feed
    shown,      \* articles the listings that arrived have shown
    todo,       \* articles whose body is still to be fetched
    bodies,     \* questions that came with a body that converts
    answered,   \* questions that came with an accepted or positive answer
    out,        \* articles returned
    inline,     \* those with content_md
    result,     \* what the call has returned, "none" before
    garbled     \* history: an answer did not decode into what is expected

argVars == <<kind, page, fresh, kept>>
seVars == <<bodies, answered>>
vars == <<argVars, cancelled, pc, attempt, lastErr, feed, shown, todo, seVars, out, inline,
          result, garbled>>

Articles == 1 .. Upstream

Init ==
    /\ kind \in Kinds
    /\ page \in 1 .. MaxPage
    /\ fresh \in 0 .. Upstream
    /\ kept \in SUBSET Articles
    /\ cancelled = FALSE
    /\ pc = "list"
    /\ attempt = 0
    /\ lastErr = FALSE
    /\ feed = 1
    /\ shown = {}
    /\ todo = {}
    /\ bodies = {}
    /\ answered = {}
    /\ out = {}
    /\ inline = {}
    /\ result = "none"
    /\ garbled = FALSE
-----------------------------------------------------------------------------
InWindow == 1 .. fresh
PageOf(p) == {i \in Articles : (i - 1) \div PerPage = p - 1}

Return(r) == pc' = "done" /\ result' = r

\* The request is sent once more, unless the backoff is cut short.
TryAgain ==
    \/ cancelled /\ Return("failed") /\ UNCHANGED attempt
    \/ /\ ~ cancelled /\ attempt + 1 < MaxTries
       /\ attempt' = attempt + 1 /\ UNCHANGED <<pc, result>>

Exhausted == attempt + 1 = MaxTries

(***************************************************************************)
(* DEV.to.                                                                 *)
(***************************************************************************)

\* After the retry loop: an error, an empty page, or the articles of the
\* window, whose bodies are fetched next.
DevToPage(err, items) ==
    LET wanted == items \cap InWindow IN
    /\ shown' = items
    /\ out' = IF err THEN {} ELSE wanted
    /\ todo' = IF ~ err /\ FetchBody THEN wanted ELSE {}
    /\ IF err THEN Return("failed")
       ELSE IF wanted = {} THEN Return("empty")
       ELSE IF FetchBody THEN pc' = "bodies" /\ UNCHANGED result
       ELSE Return("articles")

DevToListed ==
    /\ kind = "devto" /\ pc = "list"
    /\ DevToPage(lastErr, PageOf(page))
    /\ attempt' = 0
    /\ UNCHANGED <<argVars, seVars, garbled, cancelled, lastErr, feed, inline>>

\* A 200 whose body does not decode is not retried.
DevToGarbled ==
    /\ kind = "devto" /\ pc = "list"
    /\ Return("failed")
    /\ garbled' = TRUE
    /\ UNCHANGED <<argVars, seVars, cancelled, attempt, lastErr, feed, shown, todo, out, inline>>

DevToListFails ==
    /\ kind = "devto" /\ pc = "list"
    /\ lastErr' = TRUE
    /\ \/ TryAgain /\ UNCHANGED <<shown, todo, out>>
       \/ Exhausted /\ DevToPage(TRUE, {}) /\ attempt' = attempt + 1
    /\ UNCHANGED <<argVars, seVars, garbled, cancelled, feed, inline>>

\* The article whose body comes next, and what follows it.
NextBody(i) == i \in todo /\ \A j \in todo : i <= j

BodyDone(i) ==
    /\ todo' = todo \ {i}
    /\ attempt' = 0
    /\ IF todo = {i} THEN Return("articles") ELSE UNCHANGED <<pc, result>>

\* fetchBodyMarkdown returns the body,
BodyFetched ==
    /\ kind = "devto" /\ pc = "bodies"
    /\ \E i \in todo : NextBody(i) /\ BodyDone(i) /\ inline' = inline \cup {i}
    /\ UNCHANGED <<argVars, seVars, garbled, cancelled, lastErr, feed, shown, out>>

\* Mutant: an article without a body is dropped.
BodyMissingDrops ==
    /\ kind = "devto" /\ pc = "bodies"
    /\ \E i \in todo : NextBody(i) /\ BodyDone(i) /\ out' = out \ {i}
    /\ UNCHANGED <<argVars, seVars, garbled, cancelled, lastErr, feed, shown, inline>>

\* or "", at once (4xx, garbled, ctx done) or after the last attempt,
BodyMissing ==
    /\ kind = "devto" /\ pc = "bodies"
    /\ \E i \in todo : NextBody(i) /\ BodyDone(i)
    /\ UNCHANGED <<argVars, seVars, garbled, cancelled, lastErr, feed, shown, out, inline>>

\* or tries again.
BodyFails ==
    /\ kind = "devto" /\ pc = "bodies"
    /\ attempt + 1 < MaxTries
    /\ attempt' = attempt + 1
    /\ UNCHANGED <<argVars, seVars, garbled, cancelled, pc, lastErr, feed, shown, todo, out, inline, result>>

(***************************************************************************)
(* Stack Exchange: getJSON for the listing, which the API filters by min,  *)
(* then for the bodies and the answers of the questions kept.              *)
(***************************************************************************)
\* Mutant: a page on which the filters keep nothing is called empty.
SEListedKept ==
    /\ kind = "stackexchange" /\ pc = "list"
    /\ LET keepers == PageOf(page) \cap InWindow \cap kept IN
         /\ shown' = PageOf(page) \cap InWindow
         /\ todo' = keepers
         /\ IF keepers = {} THEN Return("empty") ELSE pc' = "bodies" /\ UNCHANGED result
    /\ attempt' = 0
    /\ UNCHANGED <<argVars, seVars, garbled, cancelled, lastErr, feed, out, inline>>

SEListed ==
    /\ kind = "stackexchange" /\ pc = "list"
    /\ LET questions == PageOf(page) \cap InWindow
           keepers == questions \cap kept
       IN  /\ shown' = questions
           /\ todo' = keepers
           /\ IF questions = {} THEN Return("empty")
              ELSE IF keepers = {} THEN Return("articles")
              ELSE pc' = "bodies" /\ UNCHANGED result
    /\ attempt' = 0
    /\ UNCHANGED <<argVars, seVars, garbled, cancelled, lastErr, feed, out, inline>>

\* The batched calls: a question may come back without a body that converts,
\* and without an answer, as one page of answers is read for all questions.
SEBodies ==
    /\ kind = "stackexchange" /\ pc = "bodies"
    /\ bodies' \in SUBSET todo
    /\ pc' = "answers" /\ attempt' = 0
    /\ UNCHANGED <<argVars, garbled, cancelled, lastErr, feed, shown, todo, answered, out, inline,
                   result>>

\* The questions of which composeDoc makes an article.
Composed(withBody, withAnswer) ==
    IF RequireAnswered THEN withBody \cap withAnswer ELSE withBody

SEAnswers ==
    /\ kind = "stackexchange" /\ pc = "answers"
    /\ answered' \in SUBSET todo
    /\ out' = todo \cap Composed(bodies, answered')
    /\ inline' = out'
    /\ todo' = {} /\ attempt' = 0
    /\ Return("articles")
    /\ UNCHANGED <<argVars, garbled, cancelled, lastErr, feed, shown, bodies>>

\* Mutant: the request is not retried.
SEFailsOnce ==
    /\ kind = "stackexchange" /\ pc # "done"
    /\ Return("failed") /\ attempt' = attempt + 1
    /\ lastErr' = TRUE
    /\ UNCHANGED <<argVars, seVars, garbled, cancelled, feed, shown, todo, out, inline>>

SEFails ==
    /\ kind = "stackexchange" /\ pc # "done"
    /\ \/ TryAgain
       \/ Exhausted /\ Return("failed") /\ attempt' = attempt + 1
    /\ lastErr' = TRUE
    /\ UNCHANGED <<argVars, seVars, garbled, cancelled, feed, shown, todo, out, inline>>

\* The items do not decode into the caller's type: getJSON does not retry.
SEGarbled ==
    /\ kind = "stackexchange" /\ pc # "done"
    /\ Return("failed")
    /\ garbled' = TRUE
    /\ UNCHANGED <<argVars, seVars, cancelled, attempt, lastErr, feed, shown, todo, out, inline>>

(***************************************************************************)
(* RSS: one poll of every feed on page 1.                                  *)
(***************************************************************************)

\* What a feed adds to a page that holds n articles.
Taken(items, n) ==
    {i \in items : n + Cardinality({j \in items : j < i}) < PerPage}

RSSEnd(got) == Return(IF got = {} THEN "empty" ELSE "articles")

RSSOtherPage ==
    /\ kind = "rss" /\ pc = "list"
    /\ page > 1
    /\ Return("empty")
    /\ UNCHANGED <<argVars, seVars, garbled, cancelled, attempt, lastErr, feed, shown, todo, out, inline>>

\* The next feed: it arrives, or it fails and is skipped.
RSSFeed ==
    /\ kind = "rss" /\ pc = "list" /\ page = 1
    /\ feed <= Len(Feeds)
    /\ \/ /\ shown' = shown \cup Feeds[feed]
          /\ out' = out \cup Taken(Feeds[feed] \cap InWindow, Cardinality(out))
       \/ UNCHANGED <<shown, out>>
    /\ feed' = feed + 1
    /\ UNCHANGED <<argVars, seVars, garbled, cancelled, pc, attempt, lastErr, todo, inline, result>>

RSSReturn ==
    /\ kind = "rss" /\ pc = "list" /\ page = 1
    /\ feed > Len(Feeds)
    /\ RSSEnd(out)
    /\ UNCHANGED <<argVars, seVars, garbled, cancelled, attempt, lastErr, feed, shown, todo, out, inline>>

Cancel ==
    /\ ~ cancelled /\ pc # "done"
    /\ cancelled' = TRUE
    /\ UNCHANGED <<argVars, seVars, garbled, pc, attempt, lastErr, feed, shown, todo, out, inline, result>>
-----------------------------------------------------------------------------
DevTo == DevToListed \/ DevToGarbled \/ DevToListFails
            \/ BodyFetched \/ BodyMissing \/ BodyFails
StackExchange == SEListed \/ SEBodies \/ SEAnswers \/ SEFails \/ SEGarbled
RSS == RSSOtherPage \/ RSSFeed \/ RSSReturn

FetchSince == DevTo \/ StackExchange \/ RSS

Next == FetchSince \/ Cancel \/ (pc = "done" /\ UNCHANGED vars)

Spec == Init /\ [][Next]_vars
-----------------------------------------------------------------------------
(***************************************************************************)
(* Properties.                                                             *)
(***************************************************************************)

\* The articles shown that the call should return.  Stack Exchange is asked for
\* questions by their last activity, whenever they were published, and returns
\* those that pass its filters and of which composeDoc makes an article.
Wanted ==
    IF kind = "stackexchange"
    THEN shown \cap InWindow \cap kept \cap Composed(bodies, answered)
    ELSE shown \cap InWindow

\* "returns articles published at or after since": of the articles that the
\* listing or the feeds have shown, a call that succeeds returns every one in
\* the source's window that the source does not filter out, and no other,
\* whatever was retried and whether or not DEV.to's bodies could be fetched.
\* An RSS poll does so when its window fits on one page.
ReturnsWindow ==
    result \in {"articles", "empty"} =>
       /\ out \subseteq Wanted
       /\ out = Wanted \/ (kind = "rss" /\ Cardinality(Wanted) > PerPage)

\* "whether the page was empty (used by the scheduler to stop)": the verdict
\* means that no later page has an article of the window.
EmptyMeansExhausted ==
    result = "empty" /\ kind # "rss" =>
       \A p \in page .. (page + Upstream) : PageOf(p) \cap InWindow = {}

\* "after N attempts": a page whose answers decode and whose run is not
\* interrupted fails only when a request of it has failed MaxTries times.
FailsAfterRetries ==
    result = "failed" /\ ~ cancelled /\ ~ garbled => attempt = MaxTries

\* getJSON keeps that promise for each of its three requests.
SEFailsAfterRetries == kind = "stackexchange" => FailsAfterRetries
=============================================================================
