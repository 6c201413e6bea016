---------------------------- MODULE DiffProofs ----------------------------
(***************************************************************************)
(* Differential testing is right for programs of any length and registers  *)
(* of any width, until a skip leaves the memory of the reference different *)
(* or the reference packs more than one instruction, and no memory is left *)
(* different but by instructions that move a device's value there.         *)
(***************************************************************************)
EXTENDS DiffTest, TLAPS

Machine == [pc : Nat, acc : Words, mem : Words]

DiffTypeOK ==
    /\ program \in Programs
    /\ dut \in Machine /\ ref \in Machine
    /\ is_skip_ref \in BOOLEAN /\ skip_dut_nr_instr \in Nat
    /\ stage \in {"exec", "pack", "step"}
    /\ packed \in Nat
    /\ state \in {"RUNNING", "END", "ABORT", "panic"}
    /\ buggy \in BOOLEAN /\ faulty \in BOOLEAN
    /\ excuse \subseteq {"memory", "packing"}

-----------------------------------------------------------------------------
(* The inductive invariant: what holds at each point of a round.           *)

\* The same machine, but for a mistake in the memory.
Alike(x, d) ==
    /\ x.pc = d.pc /\ x.acc = d.acc
    /\ x.mem = d.mem \/ buggy

\* r is one instruction ahead of d, which QEMU packed with an `int'.
Packed(d, r) ==
    /\ r.pc # d.pc /\ KindAt(d) # "int"
    /\ \E x \in Machine : Alike(x, d) /\ r \in After(x)

\* What a comparison of m with the emulator finds.
Agrees(m) ==
    /\ m.pc = dut.pc
    /\ faulty => m.acc # dut.acc
    /\ ~buggy => m.acc = dut.acc /\ m.mem = dut.mem

Counted ==
    /\ skip_dut_nr_instr \in 0..2 /\ state # "panic"
    /\ stage # "pack" => packed = 0

AtExec ==
    stage = "exec" /\ skip_dut_nr_instr = 0 =>
        /\ ~is_skip_ref
        /\ state = "RUNNING" => Alike(ref, dut) /\ ~faulty
        /\ faulty => state = "ABORT"
        /\ state = "ABORT" => buggy

AtExecPacked ==
    stage = "exec" /\ skip_dut_nr_instr # 0 =>
        /\ skip_dut_nr_instr = 1 /\ ~is_skip_ref
        /\ state = "RUNNING" /\ ~faulty
        /\ Packed(dut, ref)

AtCompare ==
    stage = "step" /\ skip_dut_nr_instr = 0 /\ ~is_skip_ref =>
        /\ state = "RUNNING"
        /\ \A m \in After(ref) : Agrees(m)

AtCopy ==
    stage = "step" /\ is_skip_ref =>
        /\ skip_dut_nr_instr = 0
        /\ state \in {"RUNNING", "END"} /\ ~faulty
        /\ ref.mem = dut.mem \/ buggy \/ WritesFromDevice

AtPack ==
    stage = "pack" =>
        /\ skip_dut_nr_instr = 2
        /\ ~is_skip_ref /\ state = "RUNNING" /\ ~faulty
        /\ KindAt(dut) # "int" /\ dut.pc # 1
        /\ \/ packed = 0 /\ Alike(ref, dut)
           \/ packed = 1 /\ Packed(dut, ref)

AtInt ==
    stage = "step" /\ skip_dut_nr_instr = 2 =>
        /\ ~is_skip_ref /\ state = "RUNNING" /\ ~faulty
        /\ Alike(ref, dut) \/ Packed(dut, ref)

AtCatchUp ==
    stage = "step" /\ skip_dut_nr_instr = 1 =>
        /\ ~is_skip_ref /\ state = "RUNNING"
        /\ Agrees(ref)

\* What holds as long as there is no excuse.
Faithful ==
    /\ Counted
    /\ AtExec /\ AtExecPacked /\ AtPack
    /\ AtCompare /\ AtCopy /\ AtInt /\ AtCatchUp

\* What holds of the registers in any case.
RegsInStep ==
    stage = "exec" /\ skip_dut_nr_instr = 0 /\ state = "RUNNING" => Regs(ref) = Regs(dut)

DiffInv ==
    /\ DiffTypeOK
    /\ RegsInStep
    /\ ExcusesHaveCause
    /\ excuse = {} => Faithful

-----------------------------------------------------------------------------
(* Lemmas about words and instructions.                                    *)

\* Counting on by one gives another word.
LEMMA NextWord ==
    ASSUME NEW v \in Words
    PROVE  (v + 1) % Word \in Words /\ (v + 1) % Word # v
<1>1. Word \in Nat /\ Word > 1 /\ v \in Nat /\ v < Word
  BY DiffAssumption DEF Words
<1>2. CASE v + 1 < Word
  <2>1. (v + 1) % Word = v + 1
    BY <1>1, <1>2
  <2> QED BY <1>1, <1>2, <2>1 DEF Words
<1>3. CASE v + 1 = Word
  <2>1. (v + 1) % Word = 0
    BY <1>1, <1>3
  <2> QED BY <1>1, <1>3, <2>1 DEF Words
<1> QED BY <1>1, <1>2, <1>3

\* What an instruction does to each part of a machine.
LEMMA Effect ==
    ASSUME NEW m \in Machine, NEW y \in After(m)
    PROVE  /\ y \in Machine
           /\ y.pc = IF KindAt(m) = "back" THEN 1 ELSE m.pc + 1
           /\ KindAt(m) # "ioStore" =>
                 y.mem = IF KindAt(m) = "store" THEN m.acc ELSE m.mem
           /\ KindAt(m) # "io" =>
                 y.acc = CASE KindAt(m) = "plain" -> (m.acc + 1) % Word
                           [] KindAt(m) = "load"  -> m.mem
                           [] OTHER               -> m.acc
<1> DEFINE next == [m EXCEPT !.pc = @ + 1]
<1>0. next \in Machine /\ next.pc = m.pc + 1 /\ next.acc = m.acc /\ next.mem = m.mem
  BY DEF Machine
<1>1. CASE KindAt(m) = "plain"
  <2>1. y = [next EXCEPT !.acc = (@ + 1) % Word]
    BY <1>1 DEF After
  <2>2. (m.acc + 1) % Word \in Words
    BY NextWord DEF Machine
  <2> QED BY <1>0, <1>1, <2>1, <2>2 DEF Machine
<1>2. CASE KindAt(m) = "load"
  <2>1. y = [next EXCEPT !.acc = m.mem]
    BY <1>2 DEF After
  <2> QED BY <1>0, <1>2, <2>1 DEF Machine
<1>3. CASE KindAt(m) = "store"
  <2>1. y = [next EXCEPT !.mem = m.acc]
    BY <1>3 DEF After
  <2> QED BY <1>0, <1>3, <2>1 DEF Machine
<1>4. CASE KindAt(m) = "io"
  <2>1. PICK v \in Words : y = [next EXCEPT !.acc = v]
    BY <1>4 DEF After
  <2> QED BY <1>0, <1>4, <2>1 DEF Machine
<1>5. CASE KindAt(m) = "back"
  <2>1. y = [m EXCEPT !.pc = 1]
    BY <1>5 DEF After
  <2> QED BY <1>5, <2>1 DEF Machine
<1>6. CASE KindAt(m) = "ioStore"
  <2>1. PICK v \in Words : y = [next EXCEPT !.mem = v]
    BY <1>6 DEF After
  <2> QED BY <1>0, <1>6, <2>1 DEF Machine
<1>7. CASE KindAt(m) \notin {"plain", "load", "store", "io", "ioStore", "back"}
  <2>1. y = next
    BY <1>7 DEF After
  <2> QED BY <1>0, <1>7, <2>1 DEF Machine
<1> QED BY <1>1, <1>2, <1>3, <1>4, <1>5, <1>6, <1>7

\* Machines that are alike are about to execute the same instruction.
LEMMA SameKind ==
    ASSUME NEW x, NEW d, x.pc = d.pc
    PROVE  KindAt(x) = KindAt(d)
BY DEF KindAt

\* An emulator that executes the instruction of a machine it is alike to, right
\* or wrong, is what a comparison with that machine expects.
LEMMA Executed ==
    ASSUME DiffTypeOK, NEW x \in Machine, Alike(x, dut), ~faulty,
           KindAt(dut) \notin {"io", "ioStore", "int", "trap"},
           Right \/ Wrong,
           NEW m \in After(x)
    PROVE  Agrees(m)'
<1>0. KindAt(x) = KindAt(dut)
  BY SameKind DEF Alike
<1>1. dut \in Machine
  BY DEF DiffTypeOK
<1>2. /\ m \in Machine
      /\ m.pc = IF KindAt(dut) = "back" THEN 1 ELSE x.pc + 1
      /\ m.mem = IF KindAt(dut) = "store" THEN x.acc ELSE x.mem
      /\ m.acc = CASE KindAt(dut) = "plain" -> (x.acc + 1) % Word
                   [] KindAt(dut) = "load"  -> x.mem
                   [] OTHER                 -> x.acc
  BY <1>0, Effect
<1>3. x.pc = dut.pc /\ x.acc = dut.acc /\ (x.mem = dut.mem \/ buggy)
  BY DEF Alike
<1>4. CASE Right
  <2>1. dut' \in After(dut) /\ buggy' = buggy /\ faulty' = faulty
    BY <1>4 DEF Right
  <2>2. /\ dut'.pc = IF KindAt(dut) = "back" THEN 1 ELSE dut.pc + 1
        /\ dut'.mem = IF KindAt(dut) = "store" THEN dut.acc ELSE dut.mem
        /\ dut'.acc = CASE KindAt(dut) = "plain" -> (dut.acc + 1) % Word
                     [] KindAt(dut) = "load"  -> dut.mem
                     [] OTHER                 -> dut.acc
    BY <1>1, <2>1, Effect
  <2> QED BY <1>2, <1>3, <2>1, <2>2 DEF Agrees
<1>5. CASE Wrong
  <2>1. ~buggy /\ KindAt(dut) \in {"plain", "load", "store"}
    BY <1>5 DEF Wrong
  <2>2. PICK y \in After(dut) :
            dut' = IF KindAt(dut) = "store"
                   THEN [y EXCEPT !.mem = (@ + 1) % Word]
                   ELSE [y EXCEPT !.acc = (@ + 1) % Word]
    BY <1>5 DEF Wrong
  <2>3. buggy' = TRUE /\ faulty' = (faulty \/ KindAt(dut) # "store")
    BY <1>5 DEF Wrong
  <2>4. /\ y \in Machine /\ y.pc = dut.pc + 1
        /\ y.acc = CASE KindAt(dut) = "plain" -> (dut.acc + 1) % Word
                     [] KindAt(dut) = "load"  -> dut.mem
                     [] OTHER                 -> dut.acc
    BY <1>1, <2>1, Effect
  <2>5. m.pc = y.pc /\ m.acc = y.acc
    BY <1>2, <1>3, <2>1, <2>4
  <2>6. dut'.pc = y.pc
    BY <2>2, <2>4 DEF Machine
  <2>7. CASE KindAt(dut) = "store"
    BY <2>3, <2>5, <2>6, <2>7 DEF Agrees
  <2>8. CASE KindAt(dut) # "store"
    <3>1. dut'.acc = (y.acc + 1) % Word
      BY <2>2, <2>4, <2>8 DEF Machine
    <3>2. dut'.acc # y.acc
      BY <2>4, <3>1, NextWord DEF Machine
    <3> QED BY <2>3, <2>5, <2>6, <3>2 DEF Agrees
  <2> QED BY <2>7, <2>8
<1> QED BY <1>4, <1>5

-----------------------------------------------------------------------------
(* The invariant is inductive.                                             *)

LEMMA InitInv == Init => DiffInv
<1> SUFFICES ASSUME Init PROVE DiffInv
  OBVIOUS
<1>1. 0 \in Words
  BY DiffAssumption DEF Words
<1>2. dut \in Machine /\ ref = dut
  BY <1>1 DEF Init, Machine
<1>3. Alike(ref, dut) /\ Regs(ref) = Regs(dut)
  BY <1>2 DEF Alike, Regs
<1>4. DiffTypeOK
  <2>1. /\ program \in Programs /\ is_skip_ref = FALSE /\ skip_dut_nr_instr = 0
        /\ stage = "exec" /\ state = "RUNNING" /\ buggy = FALSE /\ faulty = FALSE
        /\ packed = 0 /\ excuse = {}
    BY DEF Init
  <2>2. is_skip_ref \in BOOLEAN /\ buggy \in BOOLEAN /\ faulty \in BOOLEAN
    BY <2>1
  <2> QED BY <1>2, <2>1, <2>2 DEF DiffTypeOK
<1>5. Faithful
  BY <1>3 DEF Init, Faithful, Counted, AtExec, AtExecPacked, AtPack, AtCompare, AtCopy,
              AtInt, AtCatchUp
<1> QED
  BY <1>3, <1>4, <1>5 DEF Init, DiffInv, RegsInStep, ExcusesHaveCause

LEMMA KindsAll ==
    ASSUME program \in Programs, NEW m
    PROVE  KindAt(m) \in {"plain", "load", "store", "io", "ioStore", "int", "back", "trap"}
BY DEF KindAt, Programs, Kinds

\* The result of an instruction, right or wrong, is a machine.
LEMMA ExecutedType ==
    ASSUME DiffTypeOK, Right \/ Wrong
    PROVE  dut' \in Machine /\ buggy' \in BOOLEAN /\ faulty' \in BOOLEAN
<1>1. dut \in Machine /\ buggy \in BOOLEAN /\ faulty \in BOOLEAN
  BY DEF DiffTypeOK
<1>2. CASE Right
  BY <1>1, <1>2, Effect DEF Right
<1>3. CASE Wrong
  <2>1. PICK y \in After(dut) :
            dut' = IF KindAt(dut) = "store"
                   THEN [y EXCEPT !.mem = (@ + 1) % Word]
                   ELSE [y EXCEPT !.acc = (@ + 1) % Word]
    BY <1>3 DEF Wrong
  <2>2. y \in Machine
    BY <1>1, Effect
  <2>3. (y.acc + 1) % Word \in Words /\ (y.mem + 1) % Word \in Words
    BY <2>2, NextWord DEF Machine
  <2>4. dut' \in Machine
    BY <2>1, <2>2, <2>3 DEF Machine
  <2> QED BY <1>1, <1>3, <2>4 DEF Wrong
<1> QED BY <1>2, <1>3

\* exec_once, with what the instruction tells differential testing.
LEMMA ExecInv == DiffInv /\ Exec => DiffInv'
<1> SUFFICES ASSUME DiffInv, Exec PROVE DiffInv'
  OBVIOUS
<1>0. /\ stage = "exec" /\ state = "RUNNING"
      /\ stage' = IF KindAt(dut) = "int" THEN "pack" ELSE "step"
      /\ program' = program /\ packed' = packed /\ excuse' = excuse
      /\ Right \/ Wrong
  BY DEF Exec
<1>1. /\ DiffTypeOK
      /\ program \in Programs /\ dut \in Machine /\ ref \in Machine
      /\ skip_dut_nr_instr \in Nat /\ is_skip_ref \in BOOLEAN
      /\ packed \in Nat
  BY DEF DiffInv, DiffTypeOK
<1>2. dut' \in Machine /\ buggy' \in BOOLEAN /\ faulty' \in BOOLEAN
  BY <1>0, <1>1, ExecutedType
<1>3. /\ RegsInStep'
      /\ ExcusesHaveCause'
  <2>1. buggy => buggy'
    BY <1>0 DEF Right, Wrong
  <2> QED BY <1>0, <2>1 DEF RegsInStep, DiffInv, ExcusesHaveCause, WritesFromDevice
<1>4. DiffTypeOK'
  <2>1. CASE KindAt(dut) \in Skipped
    <3>1. /\ is_skip_ref' = TRUE /\ skip_dut_nr_instr' = 0 /\ ref' = ref
          /\ state' \in {"RUNNING", "END"}
      BY <1>0, <2>1 DEF Exec, difftest_skip_ref, CountAtSkip, Skipped
    <3> QED BY <1>0, <1>1, <1>2, <3>1 DEF DiffTypeOK
  <2>2. CASE KindAt(dut) = "int"
    <3>1. /\ ref' \in After(ref) /\ is_skip_ref' = is_skip_ref
          /\ skip_dut_nr_instr' = skip_dut_nr_instr + 2 /\ state' = state
      BY <1>0, <2>2 DEF Exec, difftest_skip_dut, Skipped
    <3>2. ref' \in Machine
      BY <1>1, <3>1, Effect
    <3> QED BY <1>0, <1>1, <1>2, <3>1, <3>2 DEF DiffTypeOK
  <2>3. CASE KindAt(dut) \notin Skipped \cup {"int"}
    <3>1. /\ ref' = ref /\ is_skip_ref' = is_skip_ref
          /\ skip_dut_nr_instr' = skip_dut_nr_instr /\ state' = state
      BY <1>0, <2>3 DEF Exec, skipVars, Skipped
    <3> QED BY <1>0, <1>1, <1>2, <3>1 DEF DiffTypeOK
  <2> QED BY <2>1, <2>2, <2>3
<1>5. ASSUME excuse = {} PROVE Faithful'
  <2>1. Faithful
    BY <1>5 DEF DiffInv
  <2>2. /\ ~is_skip_ref /\ ~faulty /\ packed = 0
        /\ \/ skip_dut_nr_instr = 0 /\ Alike(ref, dut)
           \/ skip_dut_nr_instr = 1 /\ Packed(dut, ref)
    BY <1>0, <1>1, <2>1 DEF Faithful, Counted, AtExec, AtExecPacked
  <2>3. CASE KindAt(dut) \in Skipped
    <3>1. /\ is_skip_ref' = TRUE /\ skip_dut_nr_instr' = 0 /\ ref' = ref
          /\ state' \in {"RUNNING", "END"} /\ stage' = "step"
      BY <1>0, <2>3 DEF Exec, difftest_skip_ref, CountAtSkip, Skipped
    <3>2. dut' \in After(dut) /\ buggy' = buggy /\ faulty' = faulty
      BY <1>0, <2>3 DEF Right, Wrong, Skipped
    <3>3. CASE KindAt(dut) = "ioStore"
      <4>1. WritesFromDevice
        BY <3>3 DEF KindAt, WritesFromDevice
      <4>2. WritesFromDevice'
        BY <1>0, <4>1 DEF WritesFromDevice
      <4> QED BY <1>0, <2>2, <3>1, <3>2, <4>2
              DEF Faithful, Counted, AtExec, AtExecPacked, AtPack, AtCompare, AtCopy,
                  AtInt, AtCatchUp
    <3>4. CASE KindAt(dut) # "ioStore"
      <4>1. KindAt(dut) \in {"io", "trap"}
        BY <2>3, <3>4 DEF Skipped
      <4>2. dut'.mem = dut.mem
        BY <1>1, <3>2, <4>1, Effect
      <4>3. ref.mem = dut.mem \/ buggy
        <5>1. CASE Alike(ref, dut)
          BY <5>1 DEF Alike
        <5>2. CASE Packed(dut, ref)
          <6>1. PICK x \in Machine : Alike(x, dut) /\ ref \in After(x)
            BY <5>2 DEF Packed
          <6>2. KindAt(x) = KindAt(dut)
            BY <6>1, SameKind DEF Alike
          <6>3. ref.mem = x.mem
            BY <4>1, <6>1, <6>2, Effect
          <6> QED BY <6>1, <6>3 DEF Alike
        <5> QED BY <2>2, <5>1, <5>2
      <4> QED BY <1>0, <2>2, <3>1, <3>2, <4>2, <4>3
              DEF Faithful, Counted, AtExec, AtExecPacked, AtPack, AtCompare, AtCopy,
                  AtInt, AtCatchUp
    <3> QED BY <3>3, <3>4
  <2>4. CASE KindAt(dut) = "int"
    <3>1. /\ ref' \in After(ref) /\ is_skip_ref' = is_skip_ref
          /\ skip_dut_nr_instr' = skip_dut_nr_instr + 2 /\ state' = state
          /\ stage' = "pack"
      BY <1>0, <2>4 DEF Exec, difftest_skip_dut, Skipped
    <3>2. dut' \in After(dut) /\ buggy' = buggy /\ faulty' = faulty
      BY <1>0, <2>4 DEF Right, Wrong
    <3>3. skip_dut_nr_instr = 0 /\ Alike(ref, dut)
      BY <2>2, <2>4 DEF Packed
    <3>4. dut'.pc = dut.pc + 1 /\ dut'.acc = dut.acc /\ dut'.mem = dut.mem
      BY <1>1, <2>4, <3>2, Effect
    <3>5. ref'.pc = ref.pc + 1 /\ ref'.acc = ref.acc /\ ref'.mem = ref.mem
      <4>1. KindAt(ref) = "int"
        BY <2>4, <3>3, SameKind DEF Alike
      <4> QED BY <1>1, <3>1, <4>1, Effect
    <3>6. Alike(ref, dut)'
      BY <3>2, <3>3, <3>4, <3>5 DEF Alike
    <3>7. dut.pc \in 1..Length /\ program[dut.pc] = "int"
      BY <2>4 DEF KindAt
    <3>8. KindAt(dut)' # "int" /\ dut'.pc # 1
      BY <1>0, <1>1, <3>4, <3>7, DiffAssumption DEF KindAt, Programs
    <3>9. AtPack'
      BY <1>0, <2>2, <3>1, <3>2, <3>3, <3>6, <3>8 DEF AtPack
    <3> QED BY <1>0, <2>2, <3>1, <3>3, <3>9
            DEF Faithful, Counted, AtExec, AtExecPacked, AtCompare, AtCopy, AtInt, AtCatchUp
  <2>5. CASE KindAt(dut) \notin Skipped \cup {"int"}
    <3>0. KindAt(dut) \notin {"io", "ioStore", "int", "trap"}
      BY <2>5 DEF Skipped
    <3>1. /\ ref' = ref /\ is_skip_ref' = is_skip_ref
          /\ skip_dut_nr_instr' = skip_dut_nr_instr /\ state' = state
          /\ stage' = "step"
      BY <1>0, <2>5, <3>0 DEF Exec, skipVars, Skipped
    <3>2. CASE skip_dut_nr_instr = 0 /\ Alike(ref, dut)
      <4>1. \A m \in After(ref) : Agrees(m)'
        BY <1>0, <1>1, <2>2, <3>0, <3>2, Executed
      <4>2. After(ref)' = After(ref)
        BY <1>0, <3>1 DEF After, KindAt
      <4>3. AtCompare'
        BY <1>0, <3>1, <4>1, <4>2 DEF AtCompare, Agrees
      <4> QED
        BY <1>0, <2>2, <3>1, <3>2, <4>3
           DEF Faithful, Counted, AtExec, AtExecPacked, AtPack, AtCopy, AtInt, AtCatchUp
    <3>3. CASE skip_dut_nr_instr = 1 /\ Packed(dut, ref)
      <4>1. PICK x \in Machine : Alike(x, dut) /\ ref \in After(x)
        BY <3>3 DEF Packed
      <4>2. \A m \in After(x) : Agrees(m)'
        BY <1>0, <1>1, <2>2, <3>0, <4>1, Executed
      <4>3. Agrees(ref)'
        BY <3>1, <4>1, <4>2 DEF Agrees
      <4> QED
        BY <1>0, <2>2, <3>1, <3>3, <4>3
           DEF Faithful, Counted, AtExec, AtExecPacked, AtPack, AtCompare, AtCopy,
               AtInt, AtCatchUp
    <3> QED BY <2>2, <3>2, <3>3
  <2> QED BY <2>3, <2>4, <2>5
<1> QED BY <1>0, <1>3, <1>4, <1>5 DEF DiffInv

\* The reference goes on behind the `int': at the first instruction it packs it
\* is one ahead of the emulator, and at the second there is an excuse.
LEMMA PackInv == DiffInv /\ Pack => DiffInv'
<1> SUFFICES ASSUME DiffInv, Pack PROVE DiffInv'
  OBVIOUS
<1>0. /\ stage = "pack" /\ stage' = stage /\ state' = state
      /\ program' = program /\ dut' = dut /\ buggy' = buggy /\ faulty' = faulty
      /\ is_skip_ref' = is_skip_ref /\ skip_dut_nr_instr' = skip_dut_nr_instr
      /\ ref' \in After(ref) /\ packed' = packed + 1
      /\ excuse' = IF packed = 0 THEN excuse ELSE excuse \cup {"packing"}
  BY DEF Pack, skipVars
<1>1. DiffTypeOK /\ ref \in Machine /\ dut \in Machine /\ packed \in Nat
  BY DEF DiffInv, DiffTypeOK
<1>2. ref' \in Machine
  BY <1>0, <1>1, Effect
<1>3. DiffTypeOK'
  BY <1>0, <1>1, <1>2 DEF DiffTypeOK
<1>4. RegsInStep' /\ ExcusesHaveCause'
  BY <1>0 DEF DiffInv, RegsInStep, ExcusesHaveCause, WritesFromDevice
<1>5. ASSUME excuse' = {} PROVE Faithful'
  <2>1. packed = 0 /\ excuse = {}
    BY <1>0, <1>5
  <2>2. Counted /\ AtPack
    BY <2>1 DEF DiffInv, Faithful
  <2>3. /\ skip_dut_nr_instr = 2 /\ ~is_skip_ref /\ state = "RUNNING" /\ ~faulty
        /\ KindAt(dut) # "int" /\ dut.pc # 1 /\ Alike(ref, dut)
    BY <1>0, <2>1, <2>2 DEF AtPack
  <2>4. ref'.pc = IF KindAt(ref) = "back" THEN 1 ELSE ref.pc + 1
    BY <1>0, <1>1, Effect
  <2>5. ref'.pc # dut.pc
    BY <1>1, <2>3, <2>4 DEF Alike, Machine
  <2>6. Alike(ref, dut) /\ ref \in Machine /\ ref' \in After(ref)
    BY <1>0, <1>1, <2>3
  <2>7. Packed(dut, ref)'
    <3>1. \E x \in Machine : Alike(x, dut) /\ ref' \in After(x)
      BY <2>6
    <3>2. (\E x \in Machine : Alike(x, dut) /\ ref \in After(x))'
      BY <1>0, <3>1 DEF Alike, After, KindAt
    <3> QED BY <1>0, <2>3, <2>5, <3>2 DEF Packed, KindAt
  <2>8. AtPack'
    BY <1>0, <2>1, <2>3, <2>7 DEF AtPack, KindAt
  <2> QED BY <1>0, <2>3, <2>8 DEF Faithful, Counted, AtExec, AtExecPacked, AtCompare,
                                  AtCopy, AtInt, AtCatchUp
<1> QED BY <1>3, <1>4, <1>5 DEF DiffInv

LEMMA PackEndsInv == DiffInv /\ PackEnds => DiffInv'
<1> SUFFICES ASSUME DiffInv, PackEnds PROVE DiffInv'
  OBVIOUS
<1>0. /\ stage = "pack" /\ stage' = "step" /\ state' = state /\ packed' = 0
      /\ program' = program /\ dut' = dut /\ buggy' = buggy /\ faulty' = faulty
      /\ is_skip_ref' = is_skip_ref /\ skip_dut_nr_instr' = skip_dut_nr_instr
      /\ ref' = ref /\ excuse' = excuse
  BY DEF PackEnds, skipVars
<1>1. DiffTypeOK'
  BY <1>0 DEF DiffInv, DiffTypeOK
<1>2. RegsInStep' /\ ExcusesHaveCause'
  BY <1>0 DEF DiffInv, RegsInStep, ExcusesHaveCause, WritesFromDevice
<1>3. ASSUME excuse' = {} PROVE Faithful'
  <2>1. AtPack
    BY <1>0, <1>3 DEF DiffInv, Faithful
  <2>2. /\ skip_dut_nr_instr = 2 /\ ~is_skip_ref /\ state = "RUNNING" /\ ~faulty
        /\ Alike(ref, dut) \/ Packed(dut, ref)
    BY <1>0, <2>1 DEF AtPack
  <2>3. (Alike(ref, dut) \/ Packed(dut, ref))'
    BY <1>0, <2>2 DEF Packed, Alike, After, KindAt
  <2> QED BY <1>0, <2>2, <2>3 DEF Faithful, Counted, AtExec, AtExecPacked, AtPack,
                                  AtCompare, AtCopy, AtInt, AtCatchUp
<1> QED BY <1>1, <1>2, <1>3 DEF DiffInv

\* A comparison that finds the registers alike leaves the machines in step.
LEMMA Judged ==
    ASSUME state = "RUNNING", Agrees(ref)', state' = Verdict(ref'),
           UNCHANGED <<dut, buggy, faulty>>
    PROVE  /\ state' \in {"RUNNING", "ABORT"}
           /\ state' = "RUNNING" => Alike(ref, dut)' /\ ~faulty'
           /\ faulty' => state' = "ABORT"
           /\ state' = "ABORT" => buggy'
<1>1. state' = IF ref'.pc = dut.pc /\ ref'.acc = dut.acc THEN "RUNNING" ELSE "ABORT"
  BY DEF Verdict, Regs
<1> QED BY <1>1 DEF Agrees, Alike

\* difftest_step.
LEMMA StepInv == DiffInv /\ Step => DiffInv'
<1> SUFFICES ASSUME DiffInv, Step PROVE DiffInv'
  OBVIOUS
<1>0. /\ stage = "step" /\ stage' = "exec" /\ packed' = packed
      /\ program' = program /\ dut' = dut /\ buggy' = buggy /\ faulty' = faulty
  BY DEF Step
<1>1. DiffTypeOK /\ ref \in Machine /\ dut \in Machine /\ skip_dut_nr_instr \in Nat
  BY DEF DiffInv, DiffTypeOK
<1>2. CASE CatchUp
  <2>1. /\ skip_dut_nr_instr > 0 /\ ref' = ref /\ is_skip_ref' = is_skip_ref
        /\ excuse' = excuse
    BY <1>2 DEF CatchUp
  <2>2. ExcusesHaveCause'
    BY <1>0, <2>1 DEF DiffInv, ExcusesHaveCause, WritesFromDevice
  <2>3. CASE ref.pc = dut.pc
    <3>1. state' = Verdict(ref') /\ skip_dut_nr_instr' = 0
      BY <1>2, <2>1, <2>3 DEF CatchUp, VerdictAtCatchUp
    <3>2. state' = (IF Regs(ref) = Regs(dut) THEN state ELSE "ABORT")
      BY <2>1, <3>1 DEF Verdict
    <3>3. DiffTypeOK'
      BY <1>0, <1>1, <2>1, <3>1, <3>2 DEF DiffTypeOK
    <3>4. RegsInStep'
      BY <1>0, <2>1, <3>2 DEF RegsInStep, Regs
    <3>5. ASSUME excuse = {} PROVE Faithful'
      <4>1. Faithful
        BY <3>5 DEF DiffInv
      <4>2. ~is_skip_ref /\ state = "RUNNING" /\ packed = 0
        BY <1>0, <1>1, <2>1, <4>1 DEF Faithful, Counted, AtInt, AtCatchUp
      <4>3. Agrees(ref)
        BY <1>0, <1>1, <2>1, <2>3, <4>1 DEF Faithful, Counted, AtInt, AtCatchUp, Agrees,
                                            Alike, Packed
      <4>4. Agrees(ref)'
        BY <1>0, <2>1, <4>3 DEF Agrees
      <4>5. /\ state' \in {"RUNNING", "ABORT"}
            /\ state' = "RUNNING" => Alike(ref, dut)' /\ ~faulty'
            /\ faulty' => state' = "ABORT"
            /\ state' = "ABORT" => buggy'
        BY <1>0, <3>1, <4>2, <4>4, Judged
      <4> QED
        BY <1>0, <2>1, <3>1, <4>2, <4>5
           DEF Faithful, Counted, AtExec, AtExecPacked, AtPack, AtCompare, AtCopy,
               AtInt, AtCatchUp
    <3> QED BY <2>1, <2>2, <3>3, <3>4, <3>5 DEF DiffInv
  <2>4. CASE ref.pc # dut.pc
    <3>1. /\ skip_dut_nr_instr' = skip_dut_nr_instr - 1
          /\ state' = IF skip_dut_nr_instr = 1 THEN "panic" ELSE state
      BY <1>2, <2>4 DEF CatchUp
    <3>2. DiffTypeOK'
      BY <1>0, <1>1, <2>1, <3>1 DEF DiffTypeOK
    <3>3. RegsInStep'
      BY <1>1, <3>1 DEF RegsInStep
    <3>4. ASSUME excuse = {} PROVE Faithful'
      <4>1. Faithful
        BY <3>4 DEF DiffInv
      <4>2. /\ skip_dut_nr_instr = 2 /\ ~faulty /\ ~is_skip_ref /\ state = "RUNNING"
            /\ packed = 0 /\ Packed(dut, ref)
        BY <1>0, <1>1, <2>1, <2>4, <4>1 DEF Faithful, Counted, AtInt, AtCatchUp, Agrees,
                                            Alike
      <4>3. skip_dut_nr_instr' = 1 /\ state' = "RUNNING"
        BY <3>1, <4>2
      <4>4. Packed(dut, ref)'
        BY <1>0, <2>1, <4>2 DEF Packed, Alike, After, KindAt
      <4> QED
        BY <1>0, <2>1, <4>2, <4>3, <4>4
           DEF Faithful, Counted, AtExec, AtExecPacked, AtPack, AtCompare, AtCopy,
               AtInt, AtCatchUp
    <3> QED BY <2>1, <2>2, <3>2, <3>3, <3>4 DEF DiffInv
  <2> QED BY <2>3, <2>4
<1>3. CASE CopyRegs
  <2>1. /\ skip_dut_nr_instr' = 0 /\ is_skip_ref' = FALSE /\ state' = state
        /\ ref' = [dut EXCEPT !.mem = ref.mem] /\ is_skip_ref /\ skip_dut_nr_instr = 0
        /\ excuse' = IF ref.mem = dut.mem THEN excuse ELSE excuse \cup {"memory"}
    BY <1>3 DEF CopyRegs, SkipAtCopy
  <2>2. /\ ref' \in Machine
        /\ ref'.pc = dut.pc /\ ref'.acc = dut.acc /\ ref'.mem = ref.mem
    BY <1>1, <2>1 DEF Machine
  <2>3. DiffTypeOK'
    <3>1. is_skip_ref' \in BOOLEAN /\ excuse' \subseteq {"memory", "packing"}
      BY <1>1, <2>1 DEF DiffTypeOK
    <3> QED BY <1>0, <1>1, <2>1, <2>2, <3>1 DEF DiffTypeOK
  <2>4. RegsInStep'
    BY <1>0, <2>2 DEF RegsInStep, Regs
  <2>5. ExcusesHaveCause'
    <3>1. WritesFromDevice' <=> WritesFromDevice
      BY <1>0 DEF WritesFromDevice
    <3>2. CASE excuse = {}
      <4>1. ref.mem = dut.mem \/ buggy \/ WritesFromDevice
        BY <1>0, <2>1, <3>2 DEF DiffInv, Faithful, AtCopy
      <4> QED BY <1>0, <2>1, <3>1, <3>2, <4>1 DEF ExcusesHaveCause
    <3>3. CASE excuse # {}
      BY <1>0, <2>1, <3>1, <3>3 DEF DiffInv, ExcusesHaveCause
    <3> QED BY <3>2, <3>3
  <2>6. ASSUME excuse' = {} PROVE Faithful'
    <3>1. excuse = {} /\ ref.mem = dut.mem
      BY <2>1, <2>6
    <3>2. state \in {"RUNNING", "END"} /\ ~faulty /\ packed = 0
      BY <1>0, <2>1, <3>1 DEF DiffInv, Faithful, Counted, AtCopy
    <3>3. Alike(ref, dut)'
      BY <1>0, <2>2, <3>1 DEF Alike
    <3> QED
      BY <1>0, <2>1, <3>2, <3>3
         DEF Faithful, Counted, AtExec, AtExecPacked, AtPack, AtCompare, AtCopy, AtInt,
             AtCatchUp
  <2> QED BY <2>3, <2>4, <2>5, <2>6 DEF DiffInv
<1>4. CASE Compare
  <2>1. /\ skip_dut_nr_instr = 0 /\ ~is_skip_ref
        /\ skip_dut_nr_instr' = 0 /\ is_skip_ref' = is_skip_ref
        /\ ref' \in After(ref) /\ state' = Verdict(ref') /\ excuse' = excuse
    BY <1>4 DEF Compare, skipVars
  <2>2. ref' \in Machine
    BY <1>1, <2>1, Effect
  <2>3. state' = (IF Regs(ref') = Regs(dut) THEN state ELSE "ABORT")
    BY <2>1 DEF Verdict
  <2>4. DiffTypeOK'
    BY <1>0, <1>1, <2>1, <2>2, <2>3 DEF DiffTypeOK
  <2>5. RegsInStep'
    BY <1>0, <2>3 DEF RegsInStep, Regs
  <2>6. ExcusesHaveCause'
    BY <1>0, <2>1 DEF DiffInv, ExcusesHaveCause, WritesFromDevice
  <2>7. ASSUME excuse = {} PROVE Faithful'
    <3>1. /\ state = "RUNNING" /\ packed = 0
          /\ \A m \in After(ref) : Agrees(m)
      BY <1>0, <2>1, <2>7 DEF DiffInv, Faithful, Counted, AtCompare
    <3>2. Agrees(ref)'
      BY <1>0, <2>1, <3>1 DEF Agrees
    <3>3. /\ state' \in {"RUNNING", "ABORT"}
          /\ state' = "RUNNING" => Alike(ref, dut)' /\ ~faulty'
          /\ faulty' => state' = "ABORT"
          /\ state' = "ABORT" => buggy'
      BY <1>0, <2>1, <3>1, <3>2, Judged
    <3> QED
      BY <1>0, <2>1, <3>1, <3>3
         DEF Faithful, Counted, AtExec, AtExecPacked, AtPack, AtCompare, AtCopy, AtInt,
             AtCatchUp
  <2> QED BY <2>1, <2>4, <2>5, <2>6, <2>7 DEF DiffInv
<1> QED BY <1>2, <1>3, <1>4 DEF Step

LEMMA StutterInv == DiffInv /\ UNCHANGED vars => DiffInv'
<1> SUFFICES ASSUME DiffInv, UNCHANGED vars PROVE DiffInv'
  OBVIOUS
<1> USE DEF vars, skipVars
<1>1. DiffTypeOK' /\ RegsInStep' /\ ExcusesHaveCause'
  BY DEF DiffInv, DiffTypeOK, RegsInStep, Regs, ExcusesHaveCause, WritesFromDevice
<1>2. ASSUME excuse = {} PROVE Faithful'
  <2>1. Faithful
    BY <1>2 DEF DiffInv
  <2>2. Counted' /\ AtExec' /\ AtCopy'
    BY <2>1 DEF Faithful, Counted, AtExec, AtCopy, Alike, WritesFromDevice
  <2>3. Packed(dut, ref)' <=> Packed(dut, ref)
    BY DEF Packed, Alike, After, KindAt
  <2>4. AtExecPacked' /\ AtInt' /\ AtPack'
    BY <2>1, <2>3 DEF Faithful, AtExecPacked, AtInt, AtPack, Alike, KindAt
  <2>5. After(ref)' = After(ref)
    BY DEF After, KindAt
  <2>6. AtCompare' /\ AtCatchUp'
    BY <2>1, <2>5 DEF Faithful, AtCompare, AtCatchUp, Agrees
  <2> QED BY <2>2, <2>4, <2>6 DEF Faithful
<1> QED BY <1>1, <1>2 DEF DiffInv

-----------------------------------------------------------------------------

\* At every point of a round the reference is where the invariant says: where
\* the emulator is, one instruction behind it, or one ahead of it after an
\* `int', until there is an excuse (difftest_step, diff-test.c).
THEOREM DiffInvariant == Spec => []DiffInv
<1>1. DiffInv /\ [Next]_vars => DiffInv'
  BY ExecInv, PackInv, PackEndsInv, StepInv, StutterInv DEF Next
<1> QED BY InitInv, <1>1, PTL DEF Spec

\* The comparison accuses an emulator that made no mistake only after a skip
\* left the reference with another memory, or after the reference packed more
\* than one instruction, for programs of every length (checkregs, the panic of
\* difftest_step, and the comment in difftest_skip_ref).
THEOREM NeverAccusesWrongly == Spec => []NoFalseAlarm
<1>1. DiffInv => NoFalseAlarm
  BY DEF DiffInv, DiffTypeOK, Faithful, Counted, AtExec, AtExecPacked, AtPack, AtCompare,
         AtCopy, AtInt, AtCatchUp, NoFalseAlarm
<1> QED BY DiffInvariant, <1>1, PTL

\* A wrong register is reported when the comparison resumes, at the latest,
\* with the same exceptions (difftest_step after difftest_skip_ref or
\* difftest_skip_dut).
THEOREM MistakesReported == Spec => []FaultsReported
<1>1. DiffInv => FaultsReported
  BY DEF DiffInv, Faithful, AtExec, FaultsReported, Compared
<1> QED BY DiffInvariant, <1>1, PTL

\* Whenever the comparison is not suspended the machines agree on the
\* registers, without exception, and on the memory unless the emulator made a
\* mistake or there is one of the two exceptions (difftest_step).  The first of
\* these needs an instruction that reads a device and writes memory, the only
\* kind whose effect the copy of the registers loses (ref_difftest_setregs).
THEOREM MachinesInStep == Spec => []InStep
<1>1. DiffInv => InStep
  <2>1. DiffInv => ExcusesHaveCause
    BY DEF DiffInv
  <2> QED
    BY <2>1 DEF DiffInv, Faithful, AtExec, RegsInStep, InStep, Compared, Alike, Regs
<1> QED BY DiffInvariant, <1>1, PTL
=============================================================================
