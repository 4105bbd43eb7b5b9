---------------------------- MODULE MCSources ----------------------------
(***************************************************************************)
(* Instances of Sources for TLC: four articles upstream; two feeds of two  *)
(* articles each.                                                          *)
(***************************************************************************)
EXTENDS Sources

TwoFeeds == << {1, 3}, {2, 4} >>
=============================================================================
