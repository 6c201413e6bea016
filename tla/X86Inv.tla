------------------------------ MODULE X86Inv ------------------------------
(***************************************************************************)
(* The inductive invariant behind FlagsMean and MemoryExact, as a property *)
(* Good of the machine, the stack, the handlers and the meanings that hold *)
(* between an instruction and the interrupt that may follow it, too.       *)
(***************************************************************************)
EXTENDS X86

Addrs == 0..((NrPages + 2) * PageSize - 1)
Virtual == 0..(DataAddr + PageSize - 1)

FlagSet == [CF : BOOLEAN, OF : BOOLEAN, ZF : BOOLEAN, SF : BOOLEAN, IF_ : BOOLEAN]
CodeSegment == <<"cs", 8>>
Places == Pcs \cup {Vector}
CpuSet == [eflags : FlagSet, esp : Int, pc : Places, CS : {CodeSegment},
           INTR : BOOLEAN]
FlagWords == {<<"flags", f>> : f \in FlagSet}
Words == {Data, CodeSegment} \cup Places \cup FlagWords
Meanings == UNION {[S -> BOOLEAN] : S \in SUBSET Conditions}

-----------------------------------------------------------------------------
(* The memory m behind the stack st, when dat was stored last. *)

\* The four bytes of word w at the virtual address va.
Holds(m, va, w) == \A k \in 0..3 : m[page_translate(va + k)] = <<w, k>>

Untouched(m) ==
    \A va \in layout.top..(DataAddr + PageSize - 1) :
        va \notin DataAddr..(DataAddr + 3) =>
            m[page_translate(va)] = InitialCell(page_translate(va))

IsMemory(m) == m = [a \in Addrs |-> m[a]]

MemGood(m, st, dat) ==
    /\ IsMemory(m)
    /\ \A i \in 1..Len(st) : Holds(m, layout.top - 4 * i, st[i])
    /\ Holds(m, DataAddr, dat)
    /\ Untouched(m)

\* The machine m runs above the stack st.
Behind(m, st, dat) ==
    /\ m = [cpu |-> m.cpu, mem |-> m.mem, end |-> m.end]
    /\ m.cpu \in CpuSet
    /\ m.cpu.esp = layout.top - 4 * Len(st)
    /\ Even => m.end = "no"
    /\ m.end = "no" => MemGood(m.mem, st, dat)

-----------------------------------------------------------------------------
(* The stack st under the handlers mk. *)

\* The conditions in mt are what a program that has the flags f finds.
FlagsFit(f, mt) == \A cc \in DOMAIN mt : setcc(cc, f) = mt[cc]

\* A handler has its frame, below what it pushed itself and above the frames of
\* the handlers it interrupted.
FrameAt(st, mk, mt, k) ==
    /\ mk[k] \in 3..Len(st)
    /\ \A j \in 1..(k - 1) : mk[j] + 3 <= mk[k]
    /\ st[mk[k]] \in Places /\ st[mk[k] - 1] = CodeSegment
    /\ \E f \in FlagSet :
         /\ st[mk[k] - 2] = <<"flags", f>>
         /\ f.IF_ = (k = 1) /\ FlagsFit(f, mt[k])

StackGood(st, mk, mt) ==
    /\ st \in Seq(Words) /\ mk \in Seq(Nat) /\ mt \in Seq(Meanings)
    /\ Len(mt) = Len(mk) + 1
    /\ Len(mk) <= MaxNesting
    /\ Len(st) <= MaxWords + 3 * Len(mk)
    /\ \A k \in 1..Len(mk) : FrameAt(st, mk, mt, k)

FlagsGood(f, mk, mt) == FlagsFit(f, mt[Len(mt)]) /\ f.IF_ = (mk = <<>>)

Good(m, st, mk, mt, dat) ==
    Behind(m, st, dat) /\ StackGood(st, mk, mt) /\ FlagsGood(m.cpu.eflags, mk, mt)

X86Inv ==
    /\ layout \in Layouts
    /\ Good(Machine, stack, marks, meant, data)
============================================================================
