------------------------------ MODULE Delivery ------------------------------
(***************************************************************************)
(* What the processor promises the crawler: messages are taken in order,   *)
(* at most Limit at a time; the ones taken are settled together, and only  *)
(* once each of them is kept, that is, accounted for in a durable store;   *)
(* a settled message stays kept.  A message may also expire in the queue,  *)
(* which counts as kept by decision of the operator (the stream's MAXLEN). *)
(***************************************************************************)
EXTENDS Integers, FiniteSets

CONSTANT Limit

VARIABLES
    published,  \* number of messages published
    delivered,  \* the messages up to this one have been taken or have expired
    pending,    \* taken, not settled
    kept        \* the messages accounted for

vars == <<published, delivered, pending, kept>>

Settled == (1 .. delivered) \ pending

Init ==
    /\ published = 0
    /\ delivered = 0
    /\ pending = {}
    /\ kept = {}

Publish ==
    /\ published' = published + 1
    /\ UNCHANGED <<delivered, pending>>

Deliver ==
    /\ pending = {}
    /\ delivered' \in (delivered + 1) .. published
    /\ pending' \subseteq (delivered + 1) .. delivered'
    /\ delivered' \in pending'
    /\ Cardinality(pending') <= Limit
    /\ UNCHANGED published

\* An attempt at the pending messages makes progress, or is thrown away.
Attempt == UNCHANGED <<published, delivered, pending>>

Settle ==
    /\ pending # {}
    /\ pending' = {}
    /\ UNCHANGED <<published, delivered>>

Next ==
    /\ Publish \/ Deliver \/ Attempt \/ Settle
    /\ Settled' \subseteq kept'

Spec == Init /\ [][Next]_vars
=============================================================================
