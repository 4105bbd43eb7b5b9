----------------------------- MODULE MCFetcher -----------------------------
(***************************************************************************)
(* An instance of Fetcher for TLC: three URLs of one host.                 *)
(***************************************************************************)
EXTENDS Fetcher

CONSTANTS t1, t2, t3, h1

MCTasks == {t1, t2, t3}
MCHosts == {h1}
MCHostOf == [t \in MCTasks |-> h1]
MCRetryAfters == {-1, 2}
=============================================================================
