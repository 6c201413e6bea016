----------------------------- MODULE MCDiffTest -----------------------------
(* DiffTest for TLC: every program of five instructions, loops included.    *)
EXTENDS DiffTest
=============================================================================
