------------------------------- MODULE MCPmm --------------------------------
(***************************************************************************)
(* Small instances of Pmm for TLC.  "many" stands for the types with more  *)
(* than one bitmap word, "few" for those that use the upper bits of one.   *)
(***************************************************************************)
EXTENDS PmmInv

MCWords == [ty \in Types |-> IF ty = "many" THEN 2 ELSE 1]
MCFirst == [ty \in Types |-> IF ty = "few" THEN 1 ELSE 0]
=============================================================================
