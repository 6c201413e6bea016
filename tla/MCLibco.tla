------------------------------ MODULE MCLibco ------------------------------
(***************************************************************************)
(* A small instance of Libco for TLC: main and the coroutines of Cos.      *)
(***************************************************************************)
EXTENDS Libco

CONSTANTS a, b, d
=============================================================================
