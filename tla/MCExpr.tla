------------------------------- MODULE MCExpr -------------------------------
(* Expr for TLC: expressions of up to five tokens, and a memory whose words *)
(* hold the address plus one.                                               *)
EXTENDS Expr

MCMemory(a) == Wrap(a + 1)
=============================================================================
