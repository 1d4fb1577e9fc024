------------------------------ MODULE MCMemory ------------------------------
(***************************************************************************)
(* Three reads, two of one length, with the shorter one between them.      *)
(***************************************************************************)
EXTENDS Memory

MCStream == << <<<<1>>, <<2>>>>, <<<<3>>>>, <<<<4>>, <<2>>>> >>
=============================================================================
