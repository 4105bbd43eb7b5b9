---------------------------- MODULE MCProcessor ----------------------------
(***************************************************************************)
(* Instances of Processor for TLC.  Three URLs and three fingerprints, two *)
(* of which (x and y) are near-duplicates; with BatchSize = 2 the three    *)
(* messages take two batches, so a batch is retried with, before and after *)
(* another one.                                                            *)
(***************************************************************************)
EXTENDS Processor, TLC

CONSTANTS u1, u2, u3, x, y, z

MCUrls == {u1, u2, u3}
MCFps  == {x, y, z}
MCClose == {<<f, f>> : f \in MCFps} \cup {<<x, y>>, <<y, x>>}

\* No source of this crawler delivers two kinds of payload for one URL.
\* u2 comes from an API with the content inline, u1 and u3 are web pages.
MCBodies == [u \in MCUrls |-> IF u = u2 THEN {y} ELSE {None}]
NoBodies == [u \in MCUrls |-> {None}]

\* Pages that never change.  u1 and u2 are near-duplicates.
StablePages == (u1 :> {x}) @@ (u2 :> {y}) @@ (u3 :> {z})

\* u1 serves the document that comes inline with u2, u3 an unrelated one.
SamePages == (u1 :> {x}) @@ (u2 :> {x}) @@ (u3 :> {z})
SameBodies == [u \in MCUrls |-> IF u = u2 THEN {x} ELSE {None}]

NoMisses == [u \in MCUrls |-> {}]

\* u3 may be deleted or time out; u1 may time out.
FlakyMisses == (u1 :> {}) @@ (u2 :> {}) @@ (u3 :> {"gone", "unfetched"})
SlowMisses  == (u1 :> {"unfetched"}) @@ (u2 :> {}) @@ (u3 :> {})

\* langdetect is not deterministic: a short text may pass or not.
KeepAll  == [f \in MCFps |-> {"keep"}]
MCGate   == [f \in MCFps |-> IF f = z THEN {"keep", "reject"} ELSE {"keep"}]

NoRows == {}
\* A row left by an earlier deployment, under a URL that is crawled again.
OldRow == {[url |-> u3, fp |-> z]}

\* The calls that can raise without a fingerprint left in seen_hashes for a
\* row that was not committed, and without a message left unparked.
SafeCalls == Calls \ {"smembers", "insert", "push_dlq"}

AllCalls == Calls

=============================================================================
