-------------------------------- MODULE Expr --------------------------------
(***************************************************************************)
(* The expressions of the debugger, src/monitor/debug/expr.c: how eval     *)
(* splits a sequence of tokens at its main operator.  Expressions are      *)
(* typed token by token, and only well-formed ones are evaluated.          *)
(***************************************************************************)
EXTENDS Integers, Sequences, SequencesExt

CONSTANTS
    MaxTokens,  \* bound on the length
    Half,       \* an int is in -Half .. Half - 1, Half = 2^31 in the code
    Memory(_)   \* what paddr_read finds at an address

Numbers == {"0", "1", "2"}
ValueOf == [n \in Numbers |-> CASE n = "0" -> 0 [] n = "1" -> 1 [] n = "2" -> 2]

\* From the weakest to the strongest.
Classes == <<{"&&"}, {"==", "!="}, {"+", "-"}, {"*", "/"}>>
Binary == UNION Range(Classes)

VARIABLE tokens     \* a dereference is "deref", not "*"

-----------------------------------------------------------------------------

Count(s, t) == Len(SelectSeq(s, LAMBDA x : x = t))
Depth(s) == Count(s, "(") - Count(s, ")")
Prefix(s, i) == SubSeq(s, 1, i)

\* Whether one pair of parentheses surrounds all of s.
checkparentheses(s) ==
    /\ s[1] = "(" \/ Last(s) # ")"
    /\ \A i \in 1..(Len(s) - 1) : Depth(Prefix(s, i)) # 0
    /\ Depth(Front(s)) = 1

my_checkparentheses(s) ==
    /\ \A i \in 1..Len(s) : Depth(Prefix(s, i)) >= 0
    /\ Depth(s) = 0

\* The operators of s outside of parentheses.
Operators(s) ==
    SetToSortSeq({i \in 1..Len(s) :
                    /\ Depth(Prefix(s, i)) = 0
                    /\ s[i] # ")" /\ s[i] \notin Numbers}, <)

\* operator[] is an array of char: the numbers of the tokens &&, ==, != and
\* DEREF, above 256, do not fit, and what is stored is no operator's number.
Stored(t) == IF t \in {"+", "-", "*", "/"} THEN t ELSE "truncated"

\* Split at the last operator of the weakest class, or at the first operator
\* if none is of a class.  meant says what the comment in the code does, which
\* knows of no truncation.
find_the_main_op(s, meant) ==
    LET ops   == Operators(s)
        In(c) == {k \in 1..Len(ops) :
                    (IF meant THEN s[ops[k]] ELSE Stored(s[ops[k]])) \in Classes[c]}
        found == {c \in 1..Len(Classes) : In(c) # {}}
        class == CHOOSE c \in found : \A d \in found : c <= d
    IN  IF found = {} THEN ops[1]
        ELSE ops[CHOOSE k \in In(class) : \A l \in In(class) : l <= k]

Wrap(x) == ((x + Half) % (2 * Half)) - Half
Abs(x) == IF x < 0 THEN -x ELSE x
Quotient(a, b) ==
    LET q == Abs(a) \div Abs(b) IN IF (a < 0) = (b < 0) THEN q ELSE -q
Truth(b) == IF b THEN 1 ELSE 0

Apply(op, a, b) ==
    CASE op = "+"  -> Wrap(a + b)
      [] op = "-"  -> Wrap(a - b)
      [] op = "*"  -> Wrap(a * b)
      [] op = "/"  -> IF b = 0 THEN 0 ELSE Wrap(Quotient(a, b))
      [] op = "&&" -> Truth(a # 0 /\ b # 0)
      [] op = "==" -> Truth(a = b)
      [] op = "!=" -> Truth(a # b)

RECURSIVE eval(_, _)
eval(s, meant) ==
    CASE Len(s) = 0 -> 0
      [] Len(s) = 1 -> ValueOf[s[1]]
      [] Len(s) > 1 /\ checkparentheses(s) -> eval(SubSeq(s, 2, Len(s) - 1), meant)
      [] Len(s) > 1 /\ ~checkparentheses(s) ->
            IF ~my_checkparentheses(s) THEN 0
            ELSE IF s[1] = "deref" THEN Memory(eval(Tail(s), meant))
            ELSE LET op == find_the_main_op(s, meant) IN
                 Apply(s[op], eval(Prefix(s, op - 1), meant),
                              eval(SubSeq(s, op + 1, Len(s)), meant))

-----------------------------------------------------------------------------
(* The user types an expression; expr takes a `*' for a dereference at the *)
(* beginning and after +, -, *, / and an opening parenthesis.              *)

LastToken == Last(<<"(">> \o tokens)
WantsOperand == LastToken \in Binary \cup {"(", "deref"}
MayDeref == LastToken \in {"+", "-", "*", "/", "("}

Type(t) ==
    /\ Len(tokens) < MaxTokens
    /\ IF WantsOperand
       THEN t \in Numbers \cup {"("} \/ (t = "deref" /\ MayDeref)
       ELSE t \in Binary \/ (t = ")" /\ Depth(tokens) > 0)
    /\ tokens' = Append(tokens, t)

Init == tokens = <<>>
Next == \E t \in Numbers \cup Binary \cup {"(", ")", "deref"} : Type(t)
Spec == Init /\ [][Next]_tokens

Complete == ~WantsOperand /\ Depth(tokens) = 0

\* The value of a well-formed expression is the one it has when it is split as
\* the comment of find_the_main_op says (expr.c:212-221: at the last &&, or
\* else at the last == or !=, or else at the last + or -, or else * or /).
ValueAsDocumented == Complete => eval(tokens, FALSE) = eval(tokens, TRUE)
=============================================================================
