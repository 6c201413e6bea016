------------------------------- MODULE MCKmt -------------------------------
(* Small instances of Kmt for TLC. *)
EXTENDS KmtInv

CONSTANTS t1, t2, t3, s1, s2

MCOne == <<t1>>
MCTwo == <<t1, t2>>
MCZero == [s \in Sems |-> 0]
=============================================================================
