-------------------------------- MODULE MCX86 --------------------------------
(* Instances of X86 for TLC: pages of eight bytes.                             *)
EXTENDS X86, Bitwise

MCAnd(x, y) == x & y
MCOr(x, y)  == x | y
MCXor(x, y) == x ^^ y

Frames(s) == [p \in 0..5 |-> s[p + 1]]

\* A word that crosses pages is split in its middle.  The frames of page 3 and 4
\* follow one another or do not; behind the lower one's is the frame of the data.
MCApart == {
    [top |-> 38, frame |-> Frames(<<0, 3, 4, 1, 2, 5>>)],
    [top |-> 38, frame |-> Frames(<<2, 3, 1, 4, 0, 5>>)]}

\* It is split behind its third byte, or behind its first.
MCUneven == {[top |-> top, frame |-> Frames(<<0, 1, 2, 3, 4, 5>>)] : top \in {37, 39}}

\* No word crosses pages, or all the frames follow one another.
MCEven == {
    [top |-> 40, frame |-> Frames(<<5, 4, 3, 2, 1, 0>>)],
    [top |-> 38, frame |-> Frames(<<0, 1, 2, 3, 4, 5>>)]}

MCLayouts == MCEven \cup MCApart \cup MCUneven

\* On both sides of every carry and overflow.
MCOperands(w) == {1, Pow2[w - 1] - 1, Pow2[w - 1], Pow2[w] - 1}

MCProgramOps ==
    UNION {{<<op, w, d, s>> : d \in {0} \cup MCOperands(w), s \in MCOperands(w)} :
            op \in Ops, w \in Widths}

MCHandlerOps == {<<"sub", Bits, 0, 1>>}
==============================================================================
