------------------------------ MODULE DiffTest ------------------------------
(***************************************************************************)
(* Differential testing, src/monitor/diff-test/diff-test.c: the emulator   *)
(* (dut) and a reference (ref, QEMU behind the four functions of its       *)
(* shared object, external) execute the same program, and their registers  *)
(* are compared after every instruction.  Two mechanisms suspend the       *)
(* comparison: is_skip_ref, for an instruction whose result may differ,    *)
(* and skip_dut_nr_instr, for `int', where one step of the reference may   *)
(* execute the next instruction too.                                       *)
(*                                                                         *)
(* A machine is a pc, a register (acc) and a word of memory.  The emulator *)
(* may make one mistake, a wrong register or a wrong word in the memory:   *)
(* two could hide each other, as the memory is not compared.  Timer        *)
(* interrupts, and the debugger's own reads of devices, which call         *)
(* difftest_skip_ref as well, are left out.                                *)
(*                                                                         *)
(* The code is not perfect, as the comment in difftest_skip_ref says: to   *)
(* skip an instruction copies registers only, and the reference may have   *)
(* packed more instructions than difftest_skip_dut counts on.  The history *)
(* variable excuse says whether one of these has happened.                 *)
(***************************************************************************)
EXTENDS Integers

CONSTANTS
    Length,     \* of the program; behind it stands a nemu_trap
    Word,       \* number of values of a register
    MaxPacked   \* bound: instructions the reference packs behind an `int'

ASSUME DiffAssumption ==
    /\ Length \in Nat \ {0} /\ Word \in Nat \ {0, 1}
    /\ MaxPacked \in Nat

\* "io" reads a device into the register, "ioStore" into the memory, as a push
\* of a memory operand does; "back" jumps to the first instruction.
Kinds == {"plain", "load", "store", "io", "ioStore", "int", "back"}

\* The first instruction of a trap handler, where `int' leads, is no `int'
\* itself: handlers start with a push, as those of trap32.S do.
Programs ==
    {p \in [1..Length -> Kinds] :
        \A i \in 1..(Length - 1) : p[i] = "int" => p[i + 1] # "int"}

Words == 0..(Word - 1)
TrapPc == Length + 1

VARIABLES
    program,
    dut, ref,
    is_skip_ref, skip_dut_nr_instr,
    stage,      \* "exec", "pack" or "step", within a round of cpu_exec
    packed,     \* instructions the reference has packed behind an `int'
    state,      \* of nemu_state, or "panic"
    buggy,      \* the emulator has made its mistake
    faulty,     \* and it was a wrong register
    excuse      \* history: "memory" once the registers were copied while the
                \* memories differ, "packing" once the reference packed more
                \* than one instruction

skipVars == <<is_skip_ref, skip_dut_nr_instr>>
vars == <<program, dut, ref, skipVars, stage, packed, state, buggy, faulty, excuse>>

Regs(m) == <<m.pc, m.acc>>
KindAt(m) == IF m.pc \in 1..Length THEN program[m.pc] ELSE "trap"

\* init_difftest
Init ==
    /\ program \in Programs
    /\ dut = [pc |-> 1, acc |-> 0, mem |-> 0] /\ ref = dut
    /\ is_skip_ref = FALSE /\ skip_dut_nr_instr = 0
    /\ stage = "exec" /\ packed = 0 /\ state = "RUNNING"
    /\ buggy = FALSE /\ faulty = FALSE /\ excuse = {}

-----------------------------------------------------------------------------
(* What an instruction does, as both machines mean it. *)

After(m) ==
    LET next == [m EXCEPT !.pc = @ + 1] IN
    CASE KindAt(m) = "plain" -> {[next EXCEPT !.acc = (@ + 1) % Word]}
      [] KindAt(m) = "load"  -> {[next EXCEPT !.acc = m.mem]}
      [] KindAt(m) = "store" -> {[next EXCEPT !.mem = m.acc]}
      [] KindAt(m) = "io"    -> {[next EXCEPT !.acc = v] : v \in Words}
      [] KindAt(m) = "ioStore" -> {[next EXCEPT !.mem = v] : v \in Words}
      [] KindAt(m) = "back"  -> {[m EXCEPT !.pc = 1]}
      [] OTHER               -> {next}

-----------------------------------------------------------------------------
(* exec_once *)

\* The result of an instruction, if the emulator is right and if it is not.
Right == dut' \in After(dut) /\ UNCHANGED <<buggy, faulty>>
Wrong ==
    /\ ~buggy
    /\ KindAt(dut) \in {"plain", "load", "store"}
    /\ \E m \in After(dut) :
         dut' = IF KindAt(dut) = "store"
                THEN [m EXCEPT !.mem = (@ + 1) % Word]
                ELSE [m EXCEPT !.acc = (@ + 1) % Word]
    /\ buggy' = TRUE
    /\ faulty' = (faulty \/ KindAt(dut) # "store")

CountAtSkip_kept == skip_dut_nr_instr
\* difftest_skip_ref ends the catching up.
CountAtSkip == 0
difftest_skip_ref ==
    /\ is_skip_ref' = TRUE
    /\ skip_dut_nr_instr' = CountAtSkip
    /\ UNCHANGED ref

\* difftest_skip_dut(1, 2): the reference executes the `int', and what it packs
\* behind it (Pack).
difftest_skip_dut ==
    /\ ref' \in After(ref)
    /\ skip_dut_nr_instr' = skip_dut_nr_instr + 2
    /\ UNCHANGED is_skip_ref

\* A read of a device and nemu_trap call difftest_skip_ref.
Skipped == {"io", "ioStore", "trap"}

Exec ==
    /\ stage = "exec" /\ state = "RUNNING"
    /\ stage' = IF KindAt(dut) = "int" THEN "pack" ELSE "step"
    /\ Right \/ Wrong
    /\ CASE KindAt(dut) \in Skipped -> difftest_skip_ref
         [] KindAt(dut) = "int"     -> difftest_skip_dut
         [] OTHER                   -> UNCHANGED <<ref, skipVars>>
    /\ state' = IF KindAt(dut) = "trap" THEN "END" ELSE state
    /\ UNCHANGED <<program, packed, excuse>>

\* QEMU's step goes on behind the `int' for as many instructions as it packed.
Pack ==
    /\ stage = "pack" /\ packed < MaxPacked
    /\ ref' \in After(ref)
    /\ packed' = packed + 1
    /\ excuse' = IF packed = 0 THEN excuse ELSE excuse \cup {"packing"}
    /\ UNCHANGED <<program, dut, skipVars, stage, state, buggy, faulty>>

PackEnds ==
    /\ stage = "pack" /\ stage' = "step"
    /\ packed' = 0
    /\ UNCHANGED <<program, dut, ref, skipVars, state, buggy, faulty, excuse>>

-----------------------------------------------------------------------------
(* difftest_step *)

\* checkregs, for the registers isa_difftest_checkregs compares.
Verdict(r) == IF Regs(r) = Regs(dut) THEN state ELSE "ABORT"

VerdictAtCatchUp_unchecked == state
VerdictAtCatchUp == Verdict(ref)

CatchUp ==
    /\ skip_dut_nr_instr > 0
    /\ IF ref.pc = dut.pc
       THEN /\ state' = VerdictAtCatchUp
            /\ skip_dut_nr_instr' = 0
       ELSE /\ skip_dut_nr_instr' = skip_dut_nr_instr - 1
            /\ state' = IF skip_dut_nr_instr = 1 THEN "panic" ELSE state
    /\ UNCHANGED <<ref, is_skip_ref, excuse>>

SkipAtCopy_kept == TRUE
SkipAtCopy == FALSE

\* ref_difftest_setregs: the memory of the reference stays as it is.
CopyRegs ==
    /\ skip_dut_nr_instr = 0 /\ is_skip_ref
    /\ ref' = [dut EXCEPT !.mem = ref.mem]
    /\ is_skip_ref' = SkipAtCopy
    /\ excuse' = IF ref.mem = dut.mem THEN excuse ELSE excuse \cup {"memory"}
    /\ UNCHANGED <<skip_dut_nr_instr, state>>

\* The reference does not pack here: it is where the emulator was (InStep), and
\* after an `int' the counter is not 0.
Compare ==
    /\ skip_dut_nr_instr = 0 /\ ~is_skip_ref
    /\ ref' \in After(ref)
    /\ state' = Verdict(ref')
    /\ UNCHANGED <<skipVars, excuse>>

Step ==
    /\ stage = "step" /\ stage' = "exec"
    /\ CatchUp \/ CopyRegs \/ Compare
    /\ UNCHANGED <<program, dut, packed, buggy, faulty>>

Next == Exec \/ Pack \/ PackEnds \/ Step

Spec == Init /\ [][Next]_vars

-----------------------------------------------------------------------------

Compared == stage = "exec" /\ skip_dut_nr_instr = 0

\* The comparison never accuses an emulator that made no mistake, however the
\* two mechanisms follow on one another, unless a skip left the memory of the
\* reference behind or ahead, or the reference packed more than the code
\* expects: what the comment in difftest_skip_ref calls not perfect.
NoFalseAlarm == state \in {"ABORT", "panic"} => buggy \/ excuse # {}

\* A wrong register is reported at the latest when the comparison resumes, with
\* the same exceptions: no skipped instruction hides the mistake of one that
\* was not skipped.
FaultsReported == Compared /\ faulty => state = "ABORT" \/ excuse # {}

\* The memory is left behind only in programs with an instruction that reads a
\* device and writes memory: no order of other instructions, of packing one of
\* them and of skips makes the memories differ.
WritesFromDevice == \E i \in 1..Length : program[i] = "ioStore"
ExcusesHaveCause ==
    excuse # {} => buggy \/ WritesFromDevice \/ "packing" \in excuse

\* Whenever the comparison is not suspended, the machines agree on the
\* registers, and, with the same exceptions, on the memory, which nobody
\* compares, unless the emulator has made a mistake.  And the first exception
\* has its cause.
InStep ==
    /\ Compared /\ state = "RUNNING" =>
         /\ Regs(ref) = Regs(dut)
         /\ ref.mem = dut.mem \/ buggy \/ excuse # {}
    /\ ExcusesHaveCause
=============================================================================
