---------------------------- MODULE MCScheduler ----------------------------
(***************************************************************************)
(* Instances of Scheduler for TLC: a source with three pages of articles.  *)
(* a2 moves from page 1 to page 2 when a new article pushes it down, so    *)
(* both pages may list it.                                                 *)
(***************************************************************************)
EXTENDS Scheduler, TLC

CONSTANTS a1, a2, a3

MCArticles == {a1, a2, a3}

\* A page with no keeper is not an empty page (Stack Exchange's filters).
Shifting ==
    << { [articles |-> <<a1, a2>>, empty |-> FALSE] },
       { [articles |-> <<a2, a3>>, empty |-> FALSE],
         [articles |-> <<a3>>, empty |-> FALSE] },
       { [articles |-> <<>>, empty |-> FALSE] } >>
=============================================================================
