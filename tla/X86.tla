-------------------------------- MODULE X86 --------------------------------
(***************************************************************************)
(* The x86 core of the emulator: instructions that set flags, the stack,   *)
(* traps and the timer's interrupt (intr.c, system.c, control.c, rtl.h),   *)
(* over memory that is translated page by page (mmu.c).                    *)
(*                                                                         *)
(* A word is a tagged value, and a cell of memory one of its four bytes:   *)
(* <<word, 0>> is the lowest.  Where a program goes on is left open.  It   *)
(* runs with interrupts on, as iret has left it; its handlers take back    *)
(* what they pushed before they return.                                    *)
(***************************************************************************)
EXTENDS Alu, Sequences, SequencesExt

CONSTANTS
    PageSize,           \* 4096 in the code
    NrPages,            \* pages of the stack; one page of data follows
    Layouts,            \* frames of these pages, and the first esp
    ProgramOps,         \* <<op, width, d, s>>: what a program computes
    HandlerOps,         \* and its handlers
    MaxNesting,         \* bound on handlers that interrupt one another
    MaxPushed,          \* bound on the words each pushes
    MaxWords            \* no push with more words than this on the stack

\* Pages have frames of their own, in any order, and the stack has room.  It
\* starts anywhere, so that its words may cross pages at any of their bytes.
LayoutOK(l) ==
    /\ l.top \in (4 * (MaxWords + 3 * MaxNesting))..(NrPages * PageSize)
    /\ l.frame \in [0..NrPages -> 0..NrPages]
    /\ \A p, q \in 0..NrPages : l.frame[p] = l.frame[q] => p = q

ASSUME X86Assumption ==
    /\ PageSize \in Nat /\ PageSize > 4 /\ PageSize % 4 = 0
    /\ {NrPages, MaxNesting} \subseteq Nat \ {0} /\ {MaxPushed, MaxWords} \subseteq Nat
    /\ \A o \in ProgramOps \cup HandlerOps : \E op \in Ops, w \in Widths :
         \E d, s \in Operands(w) : o = <<op, w, d, s>>
    /\ \A l \in Layouts : LayoutOK(l)

VARIABLES
    layout,
    cpu,        \* eflags, esp, pc, CS, INTR
    mem,        \* the physical memory
    ended,      \* "no"; "assert": an assertion of mmu.c failed; "spill": a word
                \* was written past its frame, and what follows is left out
    stack,      \* the words pushed and not yet popped
    marks,      \* the length of stack when each running handler was entered
    data,       \* the word last stored
    meant       \* for each program and handler: what its conditions should be

vars == <<layout, cpu, mem, ended, stack, marks, data, meant>>

Vector == <<"pc", 0>>       \* where the handlers start
Pcs == {<<"pc", 1>>, <<"pc", 2>>}
After(pc) == IF pc = <<"pc", 1>> THEN <<"pc", 2>> ELSE <<"pc", 1>>
DataAddr == NrPages * PageSize
Data == <<"data">>
Dead == <<<<"dead">>, 0>>

Bytes(word) == [i \in 1..4 |-> <<word, i - 1>>]
Word(cells) ==
    LET word == cells[1][1] IN IF cells = Bytes(word) THEN word ELSE <<"mix">>

InitialCell(a) == <<<<"init", a \div 4>>, a % 4>>
NoFlags == [CF |-> FALSE, OF |-> FALSE, ZF |-> FALSE, SF |-> FALSE, IF_ |-> TRUE]
Unknown == [cc \in {} |-> FALSE]

Init ==
    /\ layout \in Layouts
    /\ cpu = [eflags |-> NoFlags, esp |-> layout.top, pc |-> <<"pc", 1>>,
              CS |-> <<"cs", 8>>, INTR |-> FALSE]
    /\ mem = [a \in 0..((NrPages + 2) * PageSize - 1) |-> InitialCell(a)]
    /\ ended = "no"
    /\ stack = <<>> /\ marks = <<>>
    /\ data = InitialCell(layout.frame[NrPages] * PageSize)[1]
    /\ meant = <<Unknown>>

-----------------------------------------------------------------------------
(* mmu.c *)

PAGEDIFF(va) == va \div PageSize
page_translate(va) == layout.frame[PAGEDIFF(va)] * PageSize + (va % PageSize)

Crosses(va) == PAGEDIFF(va) # PAGEDIFF(va + 3)
\* i of the code: the offset of the last byte in the first page.
Split(va) == PageSize - 1 - (va % PageSize)

paddr_read(m, pa, n) == [i \in 1..n |-> m[pa + i - 1]]
paddr_write(m, pa, cells) ==
    [a \in DOMAIN m |-> IF a \in pa..(pa + Len(cells) - 1)
                        THEN cells[a - pa + 1] ELSE m[a]]

isa_vaddr_read(m, va) ==
    LET Part(k, n) == paddr_read(m, page_translate(va + k), n) IN
    IF ~Crosses(va) THEN Part(0, 4)
    ELSE CASE Split(va) = 1 -> Part(0, 2) \o Part(2, 2)
           [] Split(va) = 2 -> Part(0, 2) \o Part(2, 1) \o Part(3, 1)
           [] Split(va) = 0 -> Part(0, 1) \o Part(1, 2) \o Part(3, 1)

\* The second half of a word in the next page.
HighAddr_next(va) == page_translate(va) + 3
HighAddr(va) == page_translate(va + 2)

\* After the two halves the whole word is written once more.
isa_vaddr_write(m, va, word) ==
    LET cells == Bytes(word)
        low   == paddr_write(m, page_translate(va), SubSeq(cells, 1, 2))
        split == paddr_write(low, HighAddr(va), SubSeq(cells, 3, 4))
    IN  paddr_write(IF Crosses(va) THEN split ELSE m, page_translate(va), cells)

\* assert(i==1)
CanWrite(va) == Crosses(va) => Split(va) = 1

\* The last of these writes goes on behind the frame that the word starts in,
\* where the word's own bytes are only if the next page's frame follows.
Spills(va) == Crosses(va) /\ page_translate(va + 2) # page_translate(va) + 2

\* How a machine that was at `end' is after writing a word at va.
EndAfter(end, va) ==
    CASE end # "no"    -> end
      [] ~CanWrite(va) -> "assert"
      [] Spills(va)    -> "spill"
      [] OTHER         -> "no"

-----------------------------------------------------------------------------
(* rtl.h and intr.c, on a machine m = [cpu, mem, end]. *)

vaddr_write(m, va, word) ==
    [cpu |-> m.cpu,
     mem |-> isa_vaddr_write(m.mem, va, word),
     end |-> EndAfter(m.end, va)]

rtl_push(m, word) ==
    LET e == m.cpu.esp - 4 IN vaddr_write([m EXCEPT !.cpu.esp = e], e, word)

Popped(m) == Word(isa_vaddr_read(m.mem, m.cpu.esp))
\* No program reads what is below its stack pointer: it is forgotten, so that
\* it does not tell states apart.
Shrunk(m) ==
    LET gone == {page_translate(m.cpu.esp + k) : k \in 0..3} IN
    [m EXCEPT !.cpu.esp = @ + 4,
              !.mem = [a \in DOMAIN @ |-> IF a \in gone THEN Dead ELSE @[a]]]

PushedFlags_late(f) == [f EXCEPT !.IF_ = FALSE]
PushedFlags(f) == f

raise_intr(m, ret) ==
    LET flags == rtl_push(m, <<"flags", PushedFlags(m.cpu.eflags)>>)
        off   == [flags EXCEPT !.cpu.eflags.IF_ = FALSE]
        back  == rtl_push(rtl_push(off, m.cpu.CS), ret)
    IN  [back EXCEPT !.cpu.pc = Vector]

Asked(m) == m.cpu.eflags.IF_ /\ m.cpu.INTR
isa_query_intr(m) ==
    IF Asked(m) THEN raise_intr([m EXCEPT !.cpu.INTR = FALSE], m.cpu.pc) ELSE m

-----------------------------------------------------------------------------
(* exec_once: the instruction gives the machine m, what is on the stack is *)
(* then st, with the handlers mk, whose conditions should be mt.           *)

FrameOf(c, ret) == <<<<"flags", c.eflags>>, c.CS, ret>>

exec_once(m, st, mk, mt) ==
    LET end == isa_query_intr(m) IN
    /\ cpu' = end.cpu /\ mem' = end.mem /\ ended' = end.end
    /\ stack' = IF Asked(m) THEN st \o FrameOf(m.cpu, m.cpu.pc) ELSE st
    /\ marks' = IF Asked(m) THEN Append(mk, Len(st) + 3) ELSE mk
    /\ meant' = IF Asked(m) THEN Append(mt, Unknown) ELSE mt
    /\ UNCHANGED layout

Machine == [cpu |-> cpu, mem |-> mem, end |-> ended]
At(m, pc) == [m EXCEPT !.cpu.pc = pc]
\* What follows an instruction that does not jump.
Stepped == At(Machine, After(cpu.pc))
Floor == IF marks = <<>> THEN 0 ELSE Last(marks)
Pushed == Len(stack) - Floor

\* The flags and the meaning that an operation o = <<op, width, d, s>> gives;
\* adc and sbb follow an instruction with a meaningful carry.
Outcome(o) ==
    LET known == Last(meant)
        c == BitIf("B" \in DOMAIN known /\ known["B"])
    IN  <<Exec(o[1], cpu.eflags, o[3], o[4], o[2]),
          [cc \in Meaningful(o[1], o[2]) |-> Truth(cc, o[1], o[3], o[4], c, o[2])]>>
Possible ==
    {o \in IF marks = <<>> THEN ProgramOps ELSE HandlerOps :
        o[1] \in {"adc", "sbb"} => "B" \in DOMAIN Last(meant)}

Arith ==
    /\ \E r \in {Outcome(o) : o \in Possible} :
         exec_once([Stepped EXCEPT !.cpu.eflags = r[1]],
                   stack, marks, Append(Front(meant), r[2]))
    /\ UNCHANGED data

\* mov of a word to the memory
Store(word) ==
    /\ exec_once(vaddr_write(Stepped, DataAddr, word), stack, marks, meant)
    /\ data' = word

Push(word, m) ==
    /\ Pushed < MaxPushed /\ Len(stack) < MaxWords
    /\ exec_once(rtl_push(m, word), Append(stack, word), marks, meant)
    /\ UNCHANGED data

\* To some other place.
Call == \E pc \in Pcs : Push(After(cpu.pc), At(Machine, pc))

Pop ==
    /\ Pushed > 0
    /\ exec_once(Shrunk(Stepped), Front(stack), marks, meant)
    /\ UNCHANGED data

Ret ==
    /\ Pushed > 0 /\ Last(stack) \in Pcs
    /\ exec_once(Shrunk(At(Machine, Popped(Machine))), Front(stack), marks, meant)
    /\ UNCHANGED data

\* int: the address of the next instruction is saved.
Trap ==
    LET ret == After(cpu.pc) IN
    /\ Len(marks) < MaxNesting
    /\ exec_once(raise_intr(Machine, ret),
                 stack \o FrameOf(cpu, ret), Append(marks, Len(stack) + 3),
                 Append(meant, Unknown))
    /\ UNCHANGED data

Iret ==
    /\ marks # <<>> /\ Pushed = 0
    /\ LET m1 == Shrunk(At(Machine, Popped(Machine)))
           m2 == Shrunk([m1 EXCEPT !.cpu.CS = Popped(m1)])
           m3 == Shrunk([m2 EXCEPT !.cpu.eflags = Popped(m2)[2]])
       IN  exec_once(m3, SubSeq(stack, 1, Len(stack) - 3), Front(marks), Front(meant))
    /\ UNCHANGED data

\* timer_sig_handler
Timer ==
    /\ ~cpu.INTR
    /\ cpu' = [cpu EXCEPT !.INTR = TRUE]
    /\ UNCHANGED <<layout, mem, ended, stack, marks, data, meant>>

Instruction ==
    \/ Arith
    \/ Store(Data)
    \/ Push(Data, Stepped)
    \/ Pop
    \/ Call
    \/ Ret
    \/ Trap
    \/ Iret

Next ==
    \/ ended = "no" /\ Instruction
    \/ Timer

Spec == Init /\ [][Next]_vars

-----------------------------------------------------------------------------

\* What a program tests after an arithmetic instruction is what the operands
\* say, also for a carry passed from one word of a number to the next, and
\* however many interrupts and traps came in between; and interrupts are off
\* exactly in the handlers.
FlagsMean ==
    /\ \A cc \in DOMAIN Last(meant) : setcc(cc, cpu.eflags) = Last(meant)[cc]
    /\ cpu.eflags.IF_ = (marks = <<>>)

\* Every word on the stack reads back as it was pushed and the one of the data
\* as it was stored.
Kept ==
    /\ \A i \in 1..Len(stack) :
         Word(isa_vaddr_read(mem, layout.top - 4 * i)) = stack[i]
    /\ Word(isa_vaddr_read(mem, DataAddr)) = data

\* No word of the stack crosses pages; or all cross in the middle, and the frames
\* follow one another.
Even ==
    \/ layout.top % 4 = 0
    \/ /\ layout.top % 4 = 2
       /\ \A p \in 1..NrPages : layout.frame[p] = layout.frame[p - 1] + 1

\* Until a word is to be written that crosses pages elsewhere than in its middle,
\* or whose frames do not follow one another, all words are kept and nothing else
\* is touched, wherever they are; with an even layout it never comes to that.  And
\* a read at any address, across any pages, gives the four bytes that are there.
MemoryExact ==
    /\ Even => ended = "no"
    /\ cpu.esp = layout.top - 4 * Len(stack)
    /\ ended = "no" =>
         /\ Kept
         /\ \A va \in layout.top..(DataAddr + PageSize - 1) :
              va \notin DataAddr..(DataAddr + 3) =>
                 LET a == page_translate(va) IN mem[a] = InitialCell(a)
    /\ \A va \in 0..(DataAddr + PageSize - 4) :
         isa_vaddr_read(mem, va) =
            [k \in 1..4 |-> mem[page_translate(va + k - 1)]]
=============================================================================
