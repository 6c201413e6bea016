-------------------------------- MODULE Alu --------------------------------
(***************************************************************************)
(* The instructions of src/isa/x86/exec/arith.c and logic.c that set       *)
(* flags, with the helpers of isa/x86/include/isa/rtl.h and cc.c that      *)
(* compute and read them, for registers of Bits bits; an operand of a      *)
(* narrower width is zero-extended.  Beside them stands what the flags     *)
(* mean, said of the integers the operands stand for.                      *)
(***************************************************************************)
EXTENDS Integers

CONSTANTS
    Bits,       \* of rtlreg_t, 32 in the code
    Narrow,     \* of a narrower operand, 8 or 16 in the code
    BitAnd(_, _), BitOr(_, _), BitXor(_, _)     \* &, | and ^ of C

\* Powers of 2, as a function that proofs can reason about.
Pow2[n \in 0..Bits] == IF n = 0 THEN 1 ELSE 2 * Pow2[n - 1]

Full == Pow2[Bits]
Top == Pow2[Bits - 1]
Widths == {Narrow, Bits}
Operands(w) == 0..(Pow2[w] - 1)

ASSUME AluAssumption ==
    /\ Bits \in Nat /\ Narrow \in 2..(Bits - 1)
    /\ \A w \in Widths : \A d, s \in Operands(w) :
         {BitAnd(d, s), BitOr(d, s), BitXor(d, s)} \subseteq Operands(w)

Plus(a, b) == (a + b) % Full
Minus(a, b) == (a - b) % Full
BitIf(b) == IF b THEN 1 ELSE 0

-----------------------------------------------------------------------------
(* rtl.h *)

\* Shifts, but does not mask what is above the width.
msb(x, w) == x \div Pow2[w - 1]

is_add_overflow(res, a, b, w) ==
    msb(a, w) = msb(b, w) /\ msb(res, w) # msb(a, w)

is_sub_overflow_plain(res, a, b, w) ==
    is_add_overflow(res, a, Minus(0, b), w)
\* The second operand may have no negation.
is_sub_overflow(res, a, b, w) ==
    LET negated == Minus(0, b) IN
    IF negated = Top THEN a < Top ELSE is_add_overflow(res, a, negated, w)

is_add_carry(res, a) == res < a
is_sub_carry(res, a) == res > a

\* rtl_update_ZFSF
ZF(res, w) == res % Pow2[w] = 0
SF(res, w) == msb(res, w) % 2 = 1

-----------------------------------------------------------------------------
(* The instructions: the flags after op, of those before it. *)

Logic == {"and", "or", "xor", "test"}
Shifts == {"shl", "shr", "sar"}
Ops == {"add", "sub", "cmp", "inc", "dec", "neg", "adc", "sbb"} \cup Logic \cup Shifts

Flags(f, cf, of, res, w) ==
    [f EXCEPT !.CF = cf, !.OF = of, !.ZF = ZF(res, w), !.SF = SF(res, w)]

Add(f, d, s, w) ==
    LET r == Plus(d, s) IN
    Flags(f, is_add_carry(r, d), is_add_overflow(r, d, s, w), r, w)

\* sub and cmp
Sub(f, d, s, w) ==
    LET r == Minus(d, s) IN
    Flags(f, is_sub_carry(r, d), is_sub_overflow(r, d, s, w), r, w)

\* inc and dec look at id_src, which holds what an earlier instruction left.
Inc(f, d, old, w) ==
    LET r == Plus(d, 1) IN
    Flags(f, is_add_carry(r, d), is_add_overflow(r, d, old, w), r, w)
Dec(f, d, old, w) ==
    LET r == Minus(d, 1) IN
    Flags(f, is_sub_carry(r, d), is_sub_overflow(r, d, old, w), r, w)

Neg(f, d, w) ==
    LET r == Minus(0, d) IN Flags(f, d # 0, is_sub_overflow(r, 0, d, w), r, w)

\* The overflow is computed from s1, which by then holds a carry.
Adc(f, d, s, w) ==
    LET s0 == Plus(d, s)
        s1 == Plus(s0, BitIf(f.CF)) % Pow2[w]
        c  == is_add_carry(s1, s0)
    IN  Flags(f, c \/ is_add_carry(s0, d), is_add_overflow(BitIf(c), d, s, w), s1, w)
Sbb(f, d, s, w) ==
    LET s0 == Minus(d, s)
        s1 == Minus(s0, BitIf(f.CF)) % Pow2[w]
        c  == is_sub_carry(s1, s0)
    IN  Flags(f, c \/ is_sub_carry(s0, d), is_sub_overflow(BitIf(c), d, s, w), s1, w)

LogicOf(op, d, s) ==
    CASE op \in {"and", "test"} -> BitAnd(d, s)
      [] op = "or"  -> BitOr(d, s)
      [] op = "xor" -> BitXor(d, s)

\* An operand as a signed number.
Signed(x, w) == IF x >= Pow2[w - 1] THEN x - Pow2[w] ELSE x

\* The count is taken modulo the width of the register; sar does not extend
\* the sign of a narrow operand.
ShiftOf(op, d, s) ==
    LET k == s % Bits IN
    CASE op = "shl" -> (d * Pow2[k]) % Full
      [] op = "shr" -> d \div Pow2[k]
      [] op = "sar" -> (Signed(d, Bits) \div Pow2[k]) % Full

Exec(op, f, d, s, w) ==
    CASE op = "add"           -> Add(f, d, s, w)
      [] op \in {"sub", "cmp"} -> Sub(f, d, s, w)
      [] op = "inc"           -> Inc(f, d, s, w)
      [] op = "dec"           -> Dec(f, d, s, w)
      [] op = "neg"           -> Neg(f, d, w)
      [] op = "adc"           -> Adc(f, d, s, w)
      [] op = "sbb"           -> Sbb(f, d, s, w)
      [] op \in Logic         -> Flags(f, FALSE, FALSE, LogicOf(op, d, s), w)
      [] op \in Shifts        -> Flags(f, f.CF, f.OF, ShiftOf(op, d, s), w)

\* rtl_setcc; the odd subcodes are the negations.
Conditions == {"O", "B", "E", "BE", "S", "L", "LE"}
setcc(cc, f) ==
    CASE cc = "O"  -> f.OF
      [] cc = "B"  -> f.CF
      [] cc = "E"  -> f.ZF
      [] cc = "BE" -> f.CF \/ f.ZF
      [] cc = "S"  -> f.SF
      [] cc = "L"  -> f.SF # f.OF
      [] cc = "LE" -> f.SF # f.OF \/ f.ZF

-----------------------------------------------------------------------------
(* What the conditions mean after op with the operands d and s and the     *)
(* carry c before it.  Unsigned and Signed results are integers.           *)

Result(op, d, s, c) ==
    CASE op = "add"           -> d + s
      [] op \in {"sub", "cmp"} -> d - s
      [] op = "inc"           -> d + 1
      [] op = "dec"           -> d - 1
      [] op = "neg"           -> -d
      [] op = "adc"           -> d + s + c
      [] op = "sbb"           -> d - s - c
      [] op \in Logic         -> LogicOf(op, d, s)
      [] op \in Shifts        -> ShiftOf(op, d, s)

SignedResult(op, d, s, c, w) ==
    IF op \in Logic \cup Shifts
    THEN Signed(Result(op, d, s, c) % Pow2[w], w)
    ELSE Result(op, Signed(d, w), Signed(s, w), c)

Truth(cc, op, d, s, c, w) ==
    LET u == Result(op, d, s, c)
        i == SignedResult(op, d, s, c, w)
    IN  CASE cc = "O"  -> i \notin (-Pow2[w - 1])..(Pow2[w - 1] - 1)
          [] cc = "B"  -> u \notin Operands(w)
          [] cc = "E"  -> u % Pow2[w] = 0
          [] cc = "BE" -> u \notin Operands(w) \/ u % Pow2[w] = 0
          [] cc = "S"  -> Signed(u % Pow2[w], w) < 0
          [] cc = "L"  -> i < 0
          [] cc = "LE" -> i < 0 \/ u % Pow2[w] = 0

\* The conditions a program may test after op.  Left out are those the code
\* does not compute as the processor does: the overflow of adc, sbb, inc and
\* dec, the carry of inc and dec, the overflow of narrow operands, the carry of
\* a narrow add, and all but zero and sign after a shift.
Meaningful(op, w) ==
    IF op \in Logic \/ (op \in {"add", "sub", "cmp", "neg"} /\ w = Bits)
    THEN Conditions
    ELSE IF op \in {"sub", "cmp", "neg", "adc", "sbb"}
    THEN {"B", "E", "BE", "S"}
    ELSE {"E", "S"}
=============================================================================
