----------------------------- MODULE MCMinQueue -----------------------------
(***************************************************************************)
(* Elements in pairs of one priority.                                      *)
(***************************************************************************)
EXTENDS MinQueue

MCPriority == [x \in Elements |-> x \div 2]
=============================================================================
