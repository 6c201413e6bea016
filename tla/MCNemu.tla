------------------------------- MODULE MCNemu -------------------------------
(* Instances of Nemu for TLC.                                               *)
EXTENDS Nemu

\* A text that an entry of five characters has room for, and one it has not.
MCTexts == {<<"a">>, <<"a", "+", "a", "+", "a">>}

\* Two registers, for a text whose value changes while that of the longer one
\* does not.
MCTwoTexts == {<<"a">>, <<"a", "+", "b">>}
=============================================================================
