------------------------------ MODULE MCTools ------------------------------
(***************************************************************************)
(* An instance of Tools for TLC: three articles, one of them with two      *)
(* chunks.  Four tools are enough to export, embed, import and then sync.  *)
(***************************************************************************)
EXTENDS Tools

ThreeArticles == <<1, 2, 1>>
=============================================================================
