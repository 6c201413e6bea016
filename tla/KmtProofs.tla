------------------------------ MODULE KmtProofs ------------------------------
(***************************************************************************)
(* Proofs about Kmt, for every set of CPUs, tasks and semaphores, and then *)
(* about the threads of OsDemo that run on it.                             *)
(*                                                                         *)
(* PlaceInv is inductive whatever kmt_teardown does; it gives TypeOK and   *)
(* StackExclusive.  SafeInv is inductive when no task is torn down; it     *)
(* gives the other safety properties and the refinement of Semaphore.      *)
(* DemoInv, about the producers and consumers of os.c, rests on SafeInv:   *)
(* the scheduler and the semaphores keep the brackets well nested.  What   *)
(* is said of Kmt uses nothing of OsDemo.                                  *)
(***************************************************************************)
EXTENDS OsDemoInv, SeqLemmas

USE DEF Threads, Queued, Enque

\* What inserting at the tail of the queue does to the tasks in it.
LEMMA EnqueFacts ==
    ASSUME NEW q \in Seq(Tasks), NEW x \in Tasks
    PROVE  /\ Append(q, x) \in Seq(Tasks)
           /\ Range(Append(q, x)) = Range(q) \cup {x}
           /\ IsInjective(q) /\ x \notin Range(q) => IsInjective(Append(q, x))
BY AppendElems

\* Updating one value of a function keeps its type.
LEMMA UpdateType ==
    ASSUME NEW A, NEW B, NEW f \in [A -> B], NEW x \in A, NEW y \in B
    PROVE  [f EXCEPT ![x] = y] \in [A -> B]
OBVIOUS

\* Where the steps of a CPU leave the threads it keeps.
LEMMA OnCpuFrame ==
    ASSUME PlaceInv, NEW c \in Cpus,
           UNCHANGED <<current, last>>,
           \/ UNCHANGED mode
           \/ \E m \in Modes : mode[c] # "sched" /\ m # "sched"
                               /\ mode' = [mode EXCEPT ![c] = m]
    PROVE  \A d \in Cpus : OnCpu(d)' = OnCpu(d)
BY DEF PlaceInv, TypeOK, OnCpu

\* A step that leaves the queue alone, gives no CPU another thread and makes
\* no task NEW preserves PlaceOnce.
LEMMA PlaceFrame ==
    ASSUME PlaceInv, UNCHANGED queue,
           \A d \in Cpus : OnCpu(d)' \subseteq OnCpu(d),
           \A t \in Tasks : status'[t] = "NEW" => status[t] = "NEW"
    PROVE  PlaceOnce'
BY DEF PlaceInv, PlaceOnce

LEMMA PlaceInit == ASSUME KmtAssumption, Init PROVE PlaceInv
<1> USE DEF KmtAssumption
<1>1. Range(Boot) \subseteq Tasks
  BY DEF Init, Range
<1>2. TypeOK
  <2>1. status \in [Threads -> Statuses] /\ ctx \in [Threads -> {"NULL", "saved", "live"}]
    BY DEF Init, Statuses
  <2>2. waiters \in [Sems -> Seq(Tasks)] /\ value \in [Sems -> Int] /\ queue \in Seq(Tasks)
    BY DEF Init
  <2>3. /\ lk \in Cpus \cup {None}
        /\ current \in [Cpus -> Threads]
    BY DEF Init
  <2>4. /\ last \in [Cpus -> Threads \cup {None}]
        /\ stack \in [Cpus -> Threads]
        /\ mode \in [Cpus -> Modes]
        /\ scan \in [Cpus -> Nat \ {0}]
    BY DEF Init, Modes
  <2>5. /\ pc \in [Threads -> {"run", "yield", "wake", "throw"}]
        /\ arg \in [Threads -> Tasks \cup {None}]
        /\ panicked \in BOOLEAN
    BY DEF Init, Modes
  <2> QED BY <2>1, <2>2, <2>3, <2>4, <2>5 DEF TypeOK
<1>3. ModeInv
  BY DEF Init, ModeInv
<1>4. PlaceOnce
  <2>1. \A c \in Cpus : OnCpu(c) = {c, None}
    BY DEF Init, OnCpu
  <2>2. IsInjective(queue)
    BY DEF Init
  <2>3. \A c \in Cpus : c \notin Tasks /\ c # None
    OBVIOUS
  <2>4. None \notin Tasks
    OBVIOUS
  <2>5. \A t \in Tasks : status[t] = "NEW" => t \notin Queued
    BY DEF Init
  <2>6. \A c \in Cpus : OnCpu(c) \cap Queued = {}
    BY <1>1, <2>1, <2>3, <2>4 DEF Init
  <2>7. \A c, d \in Cpus : c # d =>
          OnCpu(c) \cap OnCpu(d) \subseteq {None} /\ d \notin OnCpu(c)
    BY <2>1, <2>3
  <2>8. \A t \in Tasks : \A c \in Cpus : t \notin OnCpu(c)
    BY <2>1, <2>3, <2>4
  <2> QED BY <2>2, <2>5, <2>6, <2>7, <2>8 DEF PlaceOnce
<1>5. CallInv
  BY DEF Init, CallInv, Range
<1>6. LastApart
  BY DEF Init, LastApart
<1> QED BY <1>2, <1>3, <1>4, <1>5, <1>6 DEF PlaceInv

LEMMA PlaceCpuBoot ==
    ASSUME KmtAssumption, PlaceInv, NEW c \in Cpus, CpuBoot(c) PROVE PlaceInv'
<1> USE DEF CpuBoot, PlaceInv
<1>1. TypeOK' /\ ModeInv'
  BY DEF TypeOK, ModeInv, Modes, Statuses, cpuVars, semVars, thrVars, KmtAssumption
<1>2. LastApart' /\ CallInv'
  BY DEF TypeOK, ModeInv, LastApart, CallInv, cpuVars, semVars, thrVars, KmtAssumption
<1>3. \A d \in Cpus : OnCpu(d)' = OnCpu(d)
  BY OnCpuFrame DEF Modes, cpuVars
<1>4. \A t \in Tasks : status'[t] = "NEW" => status[t] = "NEW"
  BY DEF TypeOK, ModeInv, CallInv
<1> QED BY <1>1, <1>2, <1>3, <1>4, PlaceFrame DEF cpuVars

LEMMA PlaceTimerTrap ==
    ASSUME KmtAssumption, PlaceInv, NEW c \in Cpus, TimerTrap(c) PROVE PlaceInv'
<1> USE DEF TimerTrap, PlaceInv
<1>1. TypeOK' /\ ModeInv'
  BY DEF TypeOK, ModeInv, Modes, Statuses, cpuVars, semVars, thrVars, KmtAssumption
<1>2. LastApart' /\ CallInv'
  BY DEF TypeOK, ModeInv, LastApart, CallInv, cpuVars, semVars, thrVars, KmtAssumption
<1>3. \A d \in Cpus : OnCpu(d)' = OnCpu(d)
  BY OnCpuFrame DEF Modes, cpuVars
<1>4. \A t \in Tasks : status'[t] = "NEW" => status[t] = "NEW"
  BY DEF TypeOK, ModeInv, CallInv
<1> QED BY <1>1, <1>2, <1>3, <1>4, PlaceFrame DEF cpuVars

LEMMA PlaceYield ==
    ASSUME KmtAssumption, PlaceInv, NEW c \in Cpus, Yield(c) PROVE PlaceInv'
<1> USE DEF Yield, PlaceInv, StatusAtYield
<1>1. TypeOK' /\ ModeInv'
  BY DEF TypeOK, ModeInv, Modes, Statuses, cpuVars, semVars, thrVars, KmtAssumption
<1>2. LastApart' /\ CallInv'
  BY DEF TypeOK, ModeInv, LastApart, CallInv, cpuVars, semVars, thrVars, KmtAssumption
<1>3. \A d \in Cpus : OnCpu(d)' = OnCpu(d)
  BY OnCpuFrame DEF Modes, cpuVars
<1>4. \A t \in Tasks : status'[t] = "NEW" => status[t] = "NEW"
  BY DEF TypeOK, ModeInv, CallInv
<1> QED BY <1>1, <1>2, <1>3, <1>4, PlaceFrame DEF cpuVars

LEMMA PlaceScanNext ==
    ASSUME KmtAssumption, PlaceInv, NEW c \in Cpus, ScanNext(c) PROVE PlaceInv'
<1> USE DEF ScanNext, PlaceInv, LockAfterScan
<1>1. TypeOK' /\ ModeInv'
  <2>a. scan[c] + 1 \in Nat \ {0} /\ scan \in [Cpus -> Nat \ {0}]
    BY DEF TypeOK
  <2>b. scan' \in [Cpus -> Nat \ {0}]
    BY <2>a, UpdateType
  <2>1. TypeOK'
    BY ZenonT(40), <2>b DEF TypeOK, Modes, Statuses, cpuVars, semVars, thrVars, KmtAssumption
  <2>2. ModeInv'
    BY DEF TypeOK, ModeInv, cpuVars, KmtAssumption
  <2> QED BY <2>1, <2>2
<1>2. LastApart' /\ CallInv'
  BY DEF TypeOK, ModeInv, LastApart, CallInv, cpuVars, semVars, thrVars, KmtAssumption
<1>3. \A d \in Cpus : OnCpu(d)' = OnCpu(d)
  BY OnCpuFrame DEF Modes, cpuVars
<1>4. \A t \in Tasks : status'[t] = "NEW" => status[t] = "NEW"
  BY DEF TypeOK, ModeInv, CallInv
<1> QED BY <1>1, <1>2, <1>3, <1>4, PlaceFrame DEF cpuVars

LEMMA PlaceIret ==
    ASSUME KmtAssumption, PlaceInv, NEW c \in Cpus, Iret(c) PROVE PlaceInv'
<1> USE DEF Iret, PlaceInv
<1>1. TypeOK' /\ ModeInv'
  <2>1. TypeOK'
    BY ZenonT(40) DEF TypeOK, Modes, Statuses, cpuVars, semVars, thrVars, KmtAssumption
  <2>2. ModeInv'
    BY DEF TypeOK, ModeInv, cpuVars, KmtAssumption
  <2> QED BY <2>1, <2>2
<1>2. LastApart' /\ CallInv'
  BY DEF TypeOK, ModeInv, LastApart, CallInv, cpuVars, semVars, thrVars, KmtAssumption
<1>3. \A d \in Cpus : OnCpu(d)' = OnCpu(d)
  BY OnCpuFrame DEF Modes, cpuVars
<1>4. \A t \in Tasks : status'[t] = "NEW" => status[t] = "NEW"
  BY DEF TypeOK, ModeInv, CallInv
<1> QED BY <1>1, <1>2, <1>3, <1>4, PlaceFrame DEF cpuVars

LEMMA PlaceSemWait ==
    ASSUME KmtAssumption, PlaceInv, NEW c \in Cpus, NEW s \in Sems, SemWait(c, s) PROVE PlaceInv'
<1> USE DEF SemWait, PlaceInv, Calls
<1>1. TypeOK' /\ ModeInv'
  <2>1. current[c] = stack[c] /\ current[c] \in Tasks
    BY DEF ModeInv
  <2>2. /\ waiters[s] \in Seq(Tasks)
        /\ Append(waiters[s], current[c]) \in Seq(Tasks)
    BY <2>1, AppendElems DEF TypeOK
  <2>3. waiters' \in [Sems -> Seq(Tasks)]
    <3>1. waiters \in [Sems -> Seq(Tasks)]
      BY DEF TypeOK
    <3>2. waiters' = waiters \/
          waiters' = [waiters EXCEPT ![s] = Append(waiters[s], current[c])]
      OBVIOUS
    <3> HIDE DEF SemWait
    <3> QED BY ZenonT(40), <2>2, <3>1, <3>2, UpdateType
  <2>a. value[s] - 1 \in Int /\ value \in [Sems -> Int]
    BY DEF TypeOK
  <2>b. value' \in [Sems -> Int]
    BY <2>a, UpdateType
  <2>4. TypeOK'
    BY ZenonT(40), <2>3, <2>b DEF TypeOK, Statuses, cpuVars
  <2>5. ModeInv'
    BY DEF ModeInv, cpuVars
  <2> QED BY <2>4, <2>5
<1>2. LastApart' /\ CallInv'
  <2>1. current[c] = stack[c] /\ current[c] \in Tasks
    BY DEF ModeInv
  <2>2. status[current[c]] # "NEW"
    BY <2>1 DEF PlaceOnce, OnCpu
  <2>3. \A x \in Sems : \A t \in Range(waiters'[x]) :
          t \in Range(waiters[x]) \/ t = current[c]
    <3>1. CASE value[s] - 1 < 0
      <4>1. Range(Append(waiters[s], current[c])) = Range(waiters[s]) \cup {current[c]}
        BY <2>1, AppendElems DEF TypeOK
      <4> QED BY ZenonT(40), <3>1, <4>1 DEF TypeOK
    <3>2. CASE ~(value[s] - 1 < 0)
      BY <3>2
    <3> QED BY <3>1, <3>2
  <2>4. \A t \in Threads : status[t] # "NEW" => status'[t] # "NEW"
    BY DEF TypeOK
  <2>5. \A x \in Sems : Range(waiters[x]) \subseteq Tasks
    BY DEF TypeOK, Range
  <2>6. \A x \in Sems : \A t \in Range(waiters'[x]) : status'[t] # "NEW"
    BY <2>1, <2>2, <2>3, <2>4, <2>5 DEF CallInv
  <2>7. /\ \A d \in Cpus : status'[d] = "IDLE" /\ pc'[d] = "run"
        /\ \A t \in Tasks : status'[t] # "IDLE"
        /\ \A t \in Tasks : pc'[t] \in {"wake", "throw"} =>
              arg'[t] \in Tasks /\ status'[arg'[t]] # "NEW"
    BY <2>1, <2>4 DEF CallInv, TypeOK, KmtAssumption
  <2>8. LastApart'
    BY DEF LastApart, cpuVars
  <2> QED BY <2>6, <2>7, <2>8 DEF CallInv
<1>3. \A d \in Cpus : OnCpu(d)' = OnCpu(d)
  BY OnCpuFrame DEF Modes, cpuVars
<1>4. \A t \in Tasks : status'[t] = "NEW" => status[t] = "NEW"
  BY DEF TypeOK, ModeInv, CallInv
<1> QED BY <1>1, <1>2, <1>3, <1>4, PlaceFrame DEF cpuVars

LEMMA PlaceSemSignal ==
    ASSUME KmtAssumption, PlaceInv, NEW c \in Cpus, NEW s \in Sems, SemSignal(c, s) PROVE PlaceInv'
<1> USE DEF SemSignal, PlaceInv, Calls, HasWaiter
<1>0. waiters[s] # <<>> =>
        /\ Last(waiters[s]) \in Range(waiters[s]) /\ Last(waiters[s]) \in Tasks
        /\ Front(waiters[s]) \in Seq(Tasks)
  BY FrontElems DEF TypeOK
<1>1. TypeOK' /\ ModeInv'
  <2>1. waiters' \in [Sems -> Seq(Tasks)]
    <3>1. waiters \in [Sems -> Seq(Tasks)]
      BY DEF TypeOK
    <3>2. waiters' = waiters \/
          (waiters[s] # <<>> /\ waiters' = [waiters EXCEPT ![s] = Front(waiters[s])])
      OBVIOUS
    <3> HIDE DEF SemSignal
    <3>3. CASE waiters[s] # <<>> /\ waiters' = [waiters EXCEPT ![s] = Front(waiters[s])]
      <4>1. Front(waiters[s]) \in Seq(Tasks)
        BY <1>0, <3>3
      <4> QED BY <3>1, <3>3, <4>1, UpdateType
    <3> QED BY <3>1, <3>2, <3>3
  <2>a. arg' = arg \/ (waiters[s] # <<>> /\ arg' = [arg EXCEPT ![stack[c]] = Last(waiters[s])])
    OBVIOUS
  <2>b. arg \in [Threads -> Tasks \cup {None}] /\ stack[c] \in Threads
    BY DEF TypeOK
  <2>2. arg' \in [Threads -> Tasks \cup {None}]
    BY <1>0, <2>a, <2>b, UpdateType
  <2>c. value[s] + 1 \in Int /\ value \in [Sems -> Int]
    BY DEF TypeOK
  <2>d. value' \in [Sems -> Int]
    BY <2>c, UpdateType
  <2>e. pc' \in [Threads -> {"run", "yield", "wake", "throw"}]
    <3>1. pc' = pc \/ pc' = [pc EXCEPT ![stack[c]] = "wake"]
      OBVIOUS
    <3>2. pc \in [Threads -> {"run", "yield", "wake", "throw"}]
      BY DEF TypeOK
    <3> HIDE DEF SemSignal
    <3> QED BY <2>b, <3>1, <3>2
  <2>3. TypeOK'
    BY <2>1, <2>2, <2>d, <2>e DEF TypeOK, cpuVars
  <2>4. ModeInv'
    BY DEF ModeInv, cpuVars
  <2> QED BY <2>3, <2>4
<1>2. LastApart' /\ CallInv'
  <2>1. \A x \in Sems : \A t \in Range(waiters'[x]) : t \in Range(waiters[x])
    <3>1. \A q \in Seq(Tasks) : q # <<>> => Range(Front(q)) \subseteq Range(q)
      BY FrontElems
    <3>2. waiters \in [Sems -> Seq(Tasks)]
      BY DEF TypeOK
    <3>3. waiters' = waiters \/
          (waiters[s] # <<>> /\ waiters' = [waiters EXCEPT ![s] = Front(waiters[s])])
      OBVIOUS
    <3> HIDE DEF SemSignal
    <3>4. CASE waiters' = waiters
      BY <3>4
    <3>5. CASE waiters[s] # <<>> /\ waiters' = [waiters EXCEPT ![s] = Front(waiters[s])]
      BY <3>1, <3>2, <3>5
    <3> QED BY <3>3, <3>4, <3>5
  <2>2. \A x \in Sems : \A t \in Range(waiters'[x]) : status'[t] # "NEW"
    BY <2>1 DEF CallInv
  <2>3. /\ \A d \in Cpus : status'[d] = "IDLE" /\ pc'[d] = "run"
        /\ \A t \in Tasks : status'[t] # "IDLE"
        /\ \A t \in Tasks : pc'[t] \in {"wake", "throw"} =>
              arg'[t] \in Tasks /\ status'[arg'[t]] # "NEW"
    <3>1. stack[c] \in Tasks /\ stack[c] \notin Cpus
      BY DEF KmtAssumption
    <3>2. status' = status
      OBVIOUS
    <3>3. CASE waiters[s] = <<>>
      BY <3>2, <3>3 DEF CallInv
    <3>4. CASE waiters[s] # <<>>
      <4>1. /\ pc' = [pc EXCEPT ![stack[c]] = "wake"]
            /\ arg' = [arg EXCEPT ![stack[c]] = Last(waiters[s])]
        BY <3>4
      <4>2. /\ Last(waiters[s]) \in Tasks
            /\ status[Last(waiters[s])] # "NEW"
        BY <1>0, <3>4 DEF CallInv
      <4> QED BY <3>1, <3>2, <4>1, <4>2 DEF CallInv, TypeOK
    <3> QED BY <3>3, <3>4
  <2>4. LastApart'
    BY DEF LastApart, cpuVars
  <2> QED BY <2>2, <2>3, <2>4 DEF CallInv
<1>3. \A d \in Cpus : OnCpu(d)' = OnCpu(d)
  BY OnCpuFrame DEF Modes, cpuVars
<1>4. \A t \in Tasks : status'[t] = "NEW" => status[t] = "NEW"
  BY DEF TypeOK, ModeInv, CallInv
<1> QED BY <1>1, <1>2, <1>3, <1>4, PlaceFrame DEF cpuVars

LEMMA PlaceWake ==
    ASSUME KmtAssumption, PlaceInv, NEW c \in Cpus, Wake(c) PROVE PlaceInv'
<1> USE DEF Wake, PlaceInv, Woken, QueueAtWake
<1>1. TypeOK' /\ ModeInv'
  BY DEF TypeOK, ModeInv, Modes, Statuses, cpuVars, semVars, thrVars, KmtAssumption
<1>2. LastApart' /\ CallInv'
  BY DEF TypeOK, ModeInv, LastApart, CallInv, cpuVars, semVars, thrVars, KmtAssumption
<1>3. \A d \in Cpus : OnCpu(d)' = OnCpu(d)
  BY OnCpuFrame DEF Modes, cpuVars
<1>4. \A t \in Tasks : status'[t] = "NEW" => status[t] = "NEW"
  BY DEF TypeOK, ModeInv, CallInv
<1> QED BY <1>1, <1>2, <1>3, <1>4, PlaceFrame DEF cpuVars

LEMMA PlaceTeardown ==
    ASSUME KmtAssumption, PlaceInv, NEW c \in Cpus, NEW u \in Victims, Teardown(c, u) PROVE PlaceInv'
<1> USE DEF Teardown, PlaceInv, Calls
<1>1. TypeOK' /\ ModeInv'
  BY DEF TypeOK, ModeInv, Modes, Statuses, cpuVars, semVars, thrVars, KmtAssumption
<1>2. LastApart' /\ CallInv'
  BY DEF TypeOK, ModeInv, LastApart, CallInv, cpuVars, semVars, thrVars, KmtAssumption
<1>3. \A d \in Cpus : OnCpu(d)' = OnCpu(d)
  BY OnCpuFrame DEF Modes, cpuVars
<1>4. \A t \in Tasks : status'[t] = "NEW" => status[t] = "NEW"
  BY DEF TypeOK, ModeInv, CallInv
<1> QED BY <1>1, <1>2, <1>3, <1>4, PlaceFrame DEF cpuVars

LEMMA PlaceContextSave ==
    ASSUME KmtAssumption, PlaceInv, NEW c \in Cpus, ContextSave(c) PROVE PlaceInv'
<1> USE DEF ContextSave, PlaceInv, Requeues, Returned, FrameOf
<1>1. CASE ~SaveAsserts(c)
  <2>1. TypeOK' /\ ModeInv' /\ LastApart' /\ CallInv'
    BY <1>1 DEF TypeOK, ModeInv, LastApart, CallInv, cpuVars, semVars, thrVars
  <2>2. \A d \in Cpus : OnCpu(d)' = OnCpu(d)
    BY <1>1 DEF OnCpu
  <2> QED BY <1>1, <2>1, <2>2, PlaceFrame
<1>2. CASE SaveAsserts(c)
  <2>1. ModeInv' /\ LastApart' /\ CallInv'
    BY <1>2 DEF TypeOK, ModeInv, LastApart, CallInv, semVars, thrVars, Modes
  <2>2. /\ \A d \in Cpus : d # c => OnCpu(d)' = OnCpu(d)
        /\ OnCpu(c)' = {current[c]} /\ OnCpu(c) = {current[c], last[c]}
    BY <1>2 DEF TypeOK, OnCpu
  <2>3. ctx' \in [Threads -> {"NULL", "saved", "live"}] /\ mode' \in [Cpus -> Modes]
    BY ZenonT(40), <1>2 DEF TypeOK, Modes
  <2>4. CASE ~Requeues(c)
    <3>1. TypeOK'
      BY <1>2, <2>3, <2>4 DEF TypeOK, semVars, thrVars
    <3> QED BY <1>2, <2>1, <2>2, <2>4, <3>1, PlaceFrame
  <2>5. CASE Requeues(c)
    <3>1. last[c] \in Tasks /\ last[c] \in OnCpu(c)
      BY <2>2, <2>5 DEF TypeOK, CallInv
    <3>2. queue' = Append(queue, last[c])
      BY <1>2, <2>5
    <3>3. queue \in Seq(Tasks) /\ IsInjective(queue) /\ last[c] \notin Range(queue)
      BY <3>1 DEF TypeOK, PlaceOnce
    <3>4. /\ queue' \in Seq(Tasks)
          /\ Range(queue') = Range(queue) \cup {last[c]}
          /\ IsInjective(queue')
      BY <3>1, <3>2, <3>3, EnqueFacts
    <3>5. TypeOK'
      BY <1>2, <2>3, <3>4 DEF TypeOK, semVars, thrVars
    <3>6. last[c] # current[c]
      BY <3>1 DEF LastApart
    <3>7. \A d \in Cpus : OnCpu(d)' \cap Range(queue') = {}
      <4>1. ASSUME NEW d \in Cpus PROVE last[c] \notin OnCpu(d)'
        BY <2>2, <3>1, <3>6 DEF PlaceOnce, KmtAssumption
      <4>2. ASSUME NEW d \in Cpus PROVE OnCpu(d)' \subseteq OnCpu(d)
        BY <2>2
      <4> QED BY <3>4, <4>1, <4>2 DEF PlaceOnce
    <3>8. status[last[c]] # "NEW"
      BY <3>1 DEF PlaceOnce
    <3>9. PlaceOnce'
      <4>1. \A d, e \in Cpus : d # e => OnCpu(d)' \cap OnCpu(e)' \subseteq {None}
                                       /\ e \notin OnCpu(d)'
        BY <2>2 DEF PlaceOnce
      <4>2. \A t \in Tasks : status[t] = "NEW" =>
              t \notin Range(queue') /\ \A d \in Cpus : t \notin OnCpu(d)'
        BY <2>2, <3>4, <3>8 DEF PlaceOnce
      <4> QED BY <3>4, <3>7, <4>1, <4>2 DEF PlaceOnce
    <3> QED BY <2>1, <3>5, <3>9
  <2> QED BY <2>4, <2>5
<1> QED BY <1>1, <1>2

LEMMA PlaceSchedLock ==
    ASSUME KmtAssumption, PlaceInv, NEW c \in Cpus, SchedLock(c) PROVE PlaceInv'
<1> USE DEF SchedLock, PlaceInv, ScanFrom
<1>1. TypeOK'
  BY DEF TypeOK, Modes, semVars, thrVars
<1>2. ModeInv' /\ LastApart' /\ CallInv'
  BY DEF TypeOK, ModeInv, LastApart, CallInv, semVars, thrVars, KmtAssumption
<1>3. \A d \in Cpus : OnCpu(d)' = OnCpu(d)
  BY DEF OnCpu, TypeOK
<1> QED BY <1>1, <1>2, <1>3, PlaceFrame

LEMMA PlacePickIdle ==
    ASSUME KmtAssumption, PlaceInv, NEW c \in Cpus, PickIdle(c) PROVE PlaceInv'
<1> USE DEF PickIdle, PlaceInv
<1>1. TypeOK'
  BY DEF TypeOK, Modes, semVars, thrVars
<1>2. ModeInv' /\ CallInv'
  BY DEF TypeOK, ModeInv, CallInv, semVars, thrVars, KmtAssumption
<1>3. LastApart'
  BY DEF TypeOK, LastApart, KmtAssumption
<1>4. /\ OnCpu(c)' = {c, last[c]} /\ last[c] \in OnCpu(c)
      /\ \A d \in Cpus : d # c => OnCpu(d)' = OnCpu(d)
  BY DEF OnCpu, TypeOK
<1>5. PlaceOnce'
  <2>1. c \notin Queued /\ c \notin Tasks
    BY DEF TypeOK, KmtAssumption, Range
  <2>2. \A d \in Cpus : OnCpu(d)' \cap Queued = {}
    BY <1>4, <2>1 DEF PlaceOnce
  <2>3. \A d, e \in Cpus : d # e => OnCpu(d)' \cap OnCpu(e)' \subseteq {None}
                                   /\ e \notin OnCpu(d)'
    BY <1>4 DEF PlaceOnce
  <2>4. \A t \in Tasks : status[t] = "NEW" => \A d \in Cpus : t \notin OnCpu(d)'
    BY <1>4, <2>1 DEF PlaceOnce
  <2> QED BY <2>2, <2>3, <2>4 DEF PlaceOnce
<1> QED BY <1>1, <1>2, <1>3, <1>5

LEMMA PlacePick ==
    ASSUME KmtAssumption, PlaceInv, NEW c \in Cpus, Pick(c) PROVE PlaceInv'
<1> USE DEF Pick, PlaceInv, Selected
<1>1. CASE queue = <<>>
  <2>1. TypeOK' /\ ModeInv' /\ LastApart' /\ CallInv'
    BY <1>1 DEF TypeOK, ModeInv, LastApart, CallInv, semVars, thrVars
  <2>2. \A d \in Cpus : OnCpu(d)' = OnCpu(d)
    BY <1>1 DEF OnCpu
  <2> QED BY <1>1, <2>1, <2>2, PlaceFrame
<1>2. CASE queue # <<>>
  <2> DEFINE h == Head(queue)
  <2>1. /\ h \in Range(queue) /\ h \in Tasks
        /\ Tail(queue) \in Seq(Tasks)
        /\ Range(Tail(queue)) = Range(queue) \ {h}
        /\ IsInjective(Tail(queue))
    BY <1>2, TailElems DEF TypeOK, PlaceOnce
  <2> HIDE DEF h
  <2>2. CASE status[h] = "RUNNING"
    <3>1. /\ queue' = Tail(queue)
          /\ current' = [current EXCEPT ![c] = h]
          /\ lk' = None
          /\ mode' = [mode EXCEPT ![c] = "iret"]
          /\ panicked' = panicked
      BY <1>2, <2>2 DEF h
    <3>2. TypeOK'
      BY <2>1, <3>1 DEF TypeOK, Modes, semVars, thrVars
    <3>3. /\ OnCpu(c)' = {h, last[c]} /\ last[c] \in OnCpu(c)
          /\ \A d \in Cpus : d # c => OnCpu(d)' = OnCpu(d)
      BY <3>1 DEF OnCpu, TypeOK
    <3>4. \A d \in Cpus : h \notin OnCpu(d)
      BY <2>1 DEF PlaceOnce
    <3>5. ModeInv' /\ CallInv'
      BY <3>1 DEF TypeOK, ModeInv, CallInv, semVars, thrVars, KmtAssumption
    <3>6. LastApart'
      BY <3>1, <3>3, <3>4 DEF TypeOK, LastApart
    <3>7. PlaceOnce'
      <4>0. \A d \in Cpus : \A x \in OnCpu(d)' : x \in OnCpu(d) \/ (d = c /\ x = h)
        <5> SUFFICES ASSUME NEW d \in Cpus, NEW x \in OnCpu(d)'
                     PROVE  x \in OnCpu(d) \/ (d = c /\ x = h)
          OBVIOUS
        <5>1. CASE d = c
          BY <3>3, <5>1
        <5>2. CASE d # c
          BY <3>3, <5>2
        <5> QED BY <5>1, <5>2
      <4>1. \A d \in Cpus : OnCpu(d)' \cap Range(queue') = {}
        <5> SUFFICES ASSUME NEW d \in Cpus, NEW x \in OnCpu(d)' PROVE x \notin Range(queue')
          OBVIOUS
        <5> QED BY <2>1, <3>1, <4>0 DEF PlaceOnce
      <4>2. \A d, e \in Cpus : d # e => OnCpu(d)' \cap OnCpu(e)' \subseteq {None}
                                       /\ e \notin OnCpu(d)'
        <5> SUFFICES ASSUME NEW d \in Cpus, NEW e \in Cpus, d # e, NEW x \in OnCpu(d)'
                     PROVE  x # e /\ (x \in OnCpu(e)' => x = None)
          OBVIOUS
        <5>1. h \notin Cpus
          BY <2>1 DEF KmtAssumption
        <5> QED BY <3>4, <4>0, <5>1 DEF PlaceOnce
      <4>3. \A t \in Tasks : status[t] = "NEW" =>
              t \notin Range(queue') /\ \A d \in Cpus : t \notin OnCpu(d)'
        BY <2>1, <2>2, <3>1, <3>3 DEF PlaceOnce
      <4> QED BY <2>1, <3>1, <4>1, <4>2, <4>3 DEF PlaceOnce
    <3> QED BY <3>2, <3>5, <3>6, <3>7
  <2>3. CASE status[h] # "RUNNING"
    <3>1. queue' = Append(Tail(queue), h) /\ UNCHANGED <<lk, current, mode, panicked>>
      BY <1>2, <2>3 DEF h
    <3>2. /\ queue' \in Seq(Tasks)
          /\ Range(queue') = Range(queue)
          /\ IsInjective(queue')
      <4>1. h \notin Range(Tail(queue))
        BY <2>1
      <4>2. /\ Append(Tail(queue), h) \in Seq(Tasks)
            /\ Range(Append(Tail(queue), h)) = Range(Tail(queue)) \cup {h}
            /\ IsInjective(Append(Tail(queue), h))
        BY <2>1, <4>1, EnqueFacts
      <4> QED BY <2>1, <3>1, <4>2
    <3>3. TypeOK' /\ ModeInv' /\ LastApart' /\ CallInv'
      BY <3>1, <3>2 DEF TypeOK, ModeInv, LastApart, CallInv, semVars, thrVars
    <3>4. \A d \in Cpus : OnCpu(d)' = OnCpu(d)
      BY <3>1 DEF OnCpu
    <3>5. PlaceOnce'
      BY <3>2, <3>4 DEF PlaceOnce
    <3> QED BY <3>3, <3>5
  <2> QED BY <2>2, <2>3
<1> QED BY <1>1, <1>2

LEMMA PlaceCreate ==
    ASSUME KmtAssumption, PlaceInv, NEW c \in Cpus, NEW u \in Tasks, Create(c, u)
    PROVE  PlaceInv'
<1> USE DEF Create, Calls, PlaceInv
<1>1. u \notin Queued /\ \A d \in Cpus : u \notin OnCpu(d)
  BY DEF PlaceOnce
<1>2. /\ queue' \in Seq(Tasks)
      /\ Range(queue') = Range(queue) \cup {u}
      /\ IsInjective(queue')
  BY <1>1, EnqueFacts DEF TypeOK, PlaceOnce
<1>3. TypeOK'
  BY <1>2 DEF TypeOK, Statuses, cpuVars, semVars, thrVars
<1>4. ModeInv' /\ LastApart'
  BY DEF ModeInv, LastApart, cpuVars
<1>5. CallInv'
  BY DEF TypeOK, CallInv, semVars, thrVars, KmtAssumption
<1>6. \A d \in Cpus : OnCpu(d)' = OnCpu(d)
  BY DEF OnCpu, cpuVars
<1>7. \A t \in Tasks : status'[t] = "NEW" => status[t] = "NEW" /\ t # u
  BY DEF TypeOK
<1>8. PlaceOnce'
  BY <1>1, <1>2, <1>6, <1>7 DEF PlaceOnce
<1> QED BY <1>3, <1>4, <1>5, <1>8

LEMMA PlaceThrow ==
    ASSUME KmtAssumption, PlaceInv, NEW c \in Cpus, Throw(c) PROVE PlaceInv'
<1> USE DEF PlaceInv
<1> DEFINE u == arg[stack[c]]
<1>1. CASE u \in Queued /\ status[u] = "DEAD"
  <2>1. PICK k \in 1..Len(queue) : queue[k] = u /\ queue' = RemoveAt(queue, k)
    BY <1>1 DEF Throw
  <2>2. /\ queue' \in Seq(Tasks)
        /\ Range(queue') = Range(queue) \ {u}
        /\ IsInjective(queue')
    BY <2>1, RemoveElems DEF TypeOK, PlaceOnce
  <2>3. /\ pc' = [pc EXCEPT ![stack[c]] = "run"]
        /\ arg' = [arg EXCEPT ![stack[c]] = None]
        /\ UNCHANGED <<panicked, lk, status, ctx, cpuVars, semVars>>
    BY <1>1 DEF Throw
  <2>4. TypeOK'
    BY <2>2, <2>3 DEF TypeOK, cpuVars, semVars
  <2>5. ModeInv' /\ LastApart' /\ CallInv'
    BY <2>3 DEF TypeOK, ModeInv, LastApart, CallInv, cpuVars, semVars
  <2>6. \A d \in Cpus : OnCpu(d)' = OnCpu(d)
    BY <2>3 DEF OnCpu, cpuVars
  <2>7. PlaceOnce'
    BY <2>2, <2>3, <2>6 DEF PlaceOnce
  <2> QED BY <2>4, <2>5, <2>7
<1>2. CASE ~(u \in Queued /\ status[u] = "DEAD")
  <2>1. panicked' = TRUE /\ UNCHANGED <<queue, thrVars, lk, status, ctx, cpuVars, semVars>>
    BY <1>2 DEF Throw
  <2>2. TypeOK' /\ ModeInv' /\ LastApart' /\ CallInv'
    BY <2>1 DEF TypeOK, ModeInv, LastApart, CallInv, cpuVars, semVars, thrVars
  <2>3. \A d \in Cpus : OnCpu(d)' = OnCpu(d)
    BY <2>1 DEF OnCpu, cpuVars
  <2> QED BY <2>1, <2>2, <2>3, PlaceFrame
<1> QED BY <1>1, <1>2

\* Every step of every CPU preserves PlaceInv.
LEMMA PlaceNext == ASSUME KmtAssumption, PlaceInv, [Next]_vars PROVE PlaceInv'
<1>1. CASE UNCHANGED vars
  <2>1. \A d \in Cpus : OnCpu(d)' = OnCpu(d)
    BY <1>1 DEF vars, OnCpu, cpuVars
  <2> QED BY <1>1, <2>1 DEF PlaceInv, TypeOK, ModeInv, PlaceOnce, LastApart, CallInv,
                            vars, cpuVars, semVars, thrVars
<1>2. CASE Next
  <2>1. PICK c \in Cpus : Step(c)
    BY <1>2 DEF Next
  <2>2. CASE CpuBoot(c) \/ TimerTrap(c) \/ Yield(c)
    BY <2>2, PlaceCpuBoot, PlaceTimerTrap, PlaceYield
  <2>3. CASE Handler(c)
    BY <2>3, PlaceContextSave, PlaceSchedLock, PlaceScanNext, PlacePickIdle, PlacePick,
       PlaceIret DEF Handler
  <2>4. CASE Call(c)
    BY <2>4, PlaceSemWait, PlaceSemSignal, PlaceWake, PlaceCreate, PlaceTeardown,
       PlaceThrow DEF Call
  <2> QED BY <2>1, <2>2, <2>3, <2>4 DEF Step
<1> QED BY <1>1, <1>2

-----------------------------------------------------------------------------
\* The type invariant of kmt.c's state, whatever is torn down.
THEOREM TypeCorrect == ASSUME KmtAssumption PROVE Spec => []TypeOK
<1>1. Init => PlaceInv
  BY PlaceInit
<1>2. PlaceInv /\ [Next]_vars => PlaceInv'
  BY PlaceNext
<1>3. PlaceInv => TypeOK
  BY DEF PlaceInv
<1> QED BY <1>1, <1>2, <1>3, PTL DEF Spec

\* No two CPUs ever run on one stack, and no queued task's stack is in use: a
\* CPU keeps the thread it interrupted in last until it has left its stack.
\* Teardown cannot break this.
THEOREM StackSafety == ASSUME KmtAssumption PROVE Spec => []StackExclusive
<1>1. Init => PlaceInv
  BY PlaceInit
<1>2. PlaceInv /\ [Next]_vars => PlaceInv'
  BY PlaceNext
<1>3. PlaceInv => StackExclusive
  <2> SUFFICES ASSUME PlaceInv PROVE StackExclusive
    OBVIOUS
  <2>1. \A c \in Cpus : stack[c] \in OnCpu(c) /\ stack[c] # None
    BY DEF PlaceInv, TypeOK, ModeInv, OnCpu, KmtAssumption
  <2> QED BY <2>1 DEF PlaceInv, PlaceOnce, StackExclusive
<1> QED BY <1>1, <1>2, <1>3, PTL DEF Spec

\* A task that has no place: not in the queue, and on no CPU.
Off(t) == t \notin Queued /\ \A c \in Cpus : t \notin OnCpu(c)

\* Only kmt_create gives a place to a task without one; every other step moves
\* tasks between the places they have.
LEMMA OffStep ==
    ASSUME KmtAssumption, PlaceInv, NEW t \in Tasks, status[t] # "NEW", Off(t),
           NEW c \in Cpus, Step(c)
    PROVE  Off(t)'
<1> USE DEF PlaceInv
<1>1. t \notin Range(queue) /\ \A d \in Cpus : t # d /\ t \notin OnCpu(d)
  BY DEF Off, KmtAssumption
<1>2. queue \in Seq(Tasks) /\ current \in [Cpus -> Threads] /\ mode \in [Cpus -> Modes]
      /\ last \in [Cpus -> Threads \cup {None}]
  BY DEF TypeOK
<1>3. ASSUME UNCHANGED <<current, last>>,
             \A d \in Cpus : mode'[d] = mode[d] \/ (mode[d] # "sched" \/ mode'[d] = "sched")
      PROVE  \A d \in Cpus : t \notin OnCpu(d)'
  BY <1>1, <1>3 DEF OnCpu
<1>4. CASE CpuBoot(c) \/ TimerTrap(c) \/ Yield(c) \/ Iret(c) \/ ScanNext(c)
  <2>1. queue' = queue /\ UNCHANGED <<current, last>>
        /\ \A d \in Cpus : mode'[d] = mode[d] \/ mode[d] # "sched"
    BY <1>2, <1>4 DEF CpuBoot, TimerTrap, Yield, Iret, ScanNext
  <2> QED BY <1>1, <1>3, <2>1 DEF Off
<1>5. CASE ContextSave(c)
  <2>1. UNCHANGED <<current, last>> /\ mode[c] = "save"
        /\ \A d \in Cpus : mode'[d] = mode[d] \/ mode'[d] = "sched"
    BY <1>2, <1>5 DEF ContextSave
  <2>2. t # last[c]
    BY <1>1, <2>1 DEF OnCpu
  <2>3. t \notin Range(queue')
    <3>1. CASE queue' = queue
      BY <1>1, <3>1
    <3>2. CASE queue' = Append(queue, last[c]) /\ Requeues(c)
      <4>1. last[c] \in Tasks
        BY <1>2, <3>2 DEF Requeues, CallInv
      <4>2. Range(queue') = Range(queue) \cup {last[c]}
        BY <1>2, <3>2, <4>1, EnqueFacts
      <4> QED BY <1>1, <2>2, <4>2
    <3> QED BY <1>5, <3>1, <3>2 DEF ContextSave, Returned
  <2> QED BY <1>3, <2>1, <2>3 DEF Off
<1>6. CASE SchedLock(c)
  <2>1. queue' = queue /\ current' = current /\ last' = [last EXCEPT ![c] = current[c]]
        /\ mode' = [mode EXCEPT ![c] = "scan"]
    BY <1>6 DEF SchedLock
  <2>2. \A d \in Cpus : t \notin OnCpu(d)'
    BY <1>1, <1>2, <2>1 DEF OnCpu
  <2> QED BY <1>1, <2>1, <2>2 DEF Off
<1>7. CASE PickIdle(c)
  <2>1. queue' = queue /\ last' = last /\ current' = [current EXCEPT ![c] = c]
        /\ mode' = [mode EXCEPT ![c] = "iret"] /\ mode[c] = "scan"
    BY <1>7 DEF PickIdle
  <2>2. \A d \in Cpus : t \notin OnCpu(d)'
    BY <1>1, <1>2, <2>1 DEF OnCpu
  <2> QED BY <1>1, <2>1, <2>2 DEF Off
<1>8. CASE Pick(c)
  <2>1. CASE queue = <<>>
    BY <1>1, <1>3, <1>8, <2>1 DEF Pick, Off
  <2>2. CASE queue # <<>>
    <3>1. Head(queue) \in Range(queue) /\ Head(queue) \in Tasks /\ Tail(queue) \in Seq(Tasks)
          /\ Range(Tail(queue)) = Range(queue) \ {Head(queue)}
      BY <1>2, <2>2, TailElems DEF PlaceOnce
    <3>2. CASE Selected(Head(queue))
      <4>1. queue' = Tail(queue) /\ last' = last /\ mode' = [mode EXCEPT ![c] = "iret"]
            /\ current' = [current EXCEPT ![c] = Head(queue)] /\ mode[c] = "pick"
        BY <1>8, <2>2, <3>2 DEF Pick
      <4>2. \A d \in Cpus : t \notin OnCpu(d)'
        BY <1>1, <1>2, <3>1, <4>1 DEF OnCpu
      <4> QED BY <1>1, <3>1, <4>1, <4>2 DEF Off
    <3>3. CASE ~Selected(Head(queue))
      <4>1. queue' = Append(Tail(queue), Head(queue)) /\ UNCHANGED <<current, last, mode>>
        BY <1>8, <2>2, <3>3 DEF Pick
      <4>2. Range(queue') = Range(Tail(queue)) \cup {Head(queue)}
        BY <3>1, <4>1, EnqueFacts
      <4> QED BY <1>1, <1>3, <3>1, <4>1, <4>2 DEF Off
    <3> QED BY <3>2, <3>3
  <2> QED BY <2>1, <2>2
<1>9. ASSUME NEW u \in Tasks, Create(c, u) PROVE Off(t)'
  <2>1. u # t /\ queue' = Append(queue, u) /\ UNCHANGED <<current, last, mode>>
    BY <1>9 DEF Create, cpuVars
  <2>2. Range(queue') = Range(queue) \cup {u}
    BY <1>2, <2>1, EnqueFacts
  <2> QED BY <1>1, <1>3, <2>1, <2>2 DEF Off
<1>10. CASE Throw(c)
  <2>1. UNCHANGED <<current, last, mode>>
    BY <1>10 DEF Throw, cpuVars
  <2>2. t \notin Range(queue')
    <3>1. CASE queue' = queue
      BY <1>1, <3>1
    <3>2. ASSUME NEW i \in 1..Len(queue), queue' = RemoveAt(queue, i)
          PROVE  t \notin Range(queue')
      <4>1. Range(RemoveAt(queue, i)) = Range(queue) \ {queue[i]}
        BY <1>2, RemoveElems DEF PlaceOnce
      <4> QED BY <1>1, <3>2, <4>1
    <3> QED BY <1>10, <3>1, <3>2 DEF Throw
  <2> QED BY <1>3, <2>1, <2>2 DEF Off
<1>11. CASE \/ \E s \in Sems : SemWait(c, s) \/ SemSignal(c, s)
            \/ Wake(c) \/ \E u \in Victims : Teardown(c, u)
  <2>1. queue' = queue /\ UNCHANGED <<current, last, mode>>
    BY <1>11 DEF SemWait, SemSignal, Wake, QueueAtWake, Teardown, cpuVars
  <2> QED BY <1>1, <1>3, <2>1 DEF Off
<1> QED BY <1>4, <1>5, <1>6, <1>7, <1>8, <1>9, <1>10, <1>11 DEF Step, Handler, Call

\* What kmt_teardown unlinked gets no place again, whoever is torn down, and
\* even if a signal makes it RUNNING.
THEOREM UnlinkedStaysOut == ASSUME KmtAssumption PROVE Spec => NoResurrection
<1> DEFINE A == \A t \in Victims :
                  status[t] # "NEW" /\ t \notin Queued
                                    /\ (\A c \in Cpus : t \notin OnCpu(c))
                  => t \notin Queued' /\ \A c \in Cpus : t \notin OnCpu(c)'
<1>1. Init => PlaceInv
  BY PlaceInit
<1>2. PlaceInv /\ [Next]_vars => PlaceInv'
  BY PlaceNext
<1>3. PlaceInv /\ [Next]_vars => [A]_vars
  <2> SUFFICES ASSUME PlaceInv, Next PROVE A
    OBVIOUS
  <2>1. PICK c \in Cpus : Step(c)
    BY DEF Next
  <2>2. ASSUME NEW t \in Victims, status[t] # "NEW", Off(t) PROVE Off(t)'
    BY <2>1, <2>2, OffStep DEF KmtAssumption
  <2> QED BY <2>2 DEF Off
<1> QED BY <1>1, <1>2, <1>3, PTL DEF Spec, NoResurrection

-----------------------------------------------------------------------------
(* Without kmt_teardown: SafeInv is inductive, and the scheduler's and the
   semaphores' safety properties follow from it.                           *)

\* What the proofs below assume: nobody calls kmt_teardown.
NoTeardown == KmtAssumption /\ Victims = {}

LEMMA QueueType == ASSUME PlaceInv PROVE queue \in Seq(Tasks) /\ Range(queue) \subseteq Tasks
BY DEF PlaceInv, TypeOK, Range

\* No assertion fails: kmt_context_save finds an idle thread on its first
\* trap or a last thread, the loop of kmt_schedule a nonempty queue, and the
\* iret a frame.
LEMMA PanicNext ==
    ASSUME NoTeardown, SafeInv, NEW c \in Cpus, Step(c) PROVE ~panicked'
<1> USE DEF NoTeardown, SafeInv
<1>1. CASE ContextSave(c)
  <2>1. SaveAsserts(c)
    <3>1. mode[c] = "save" /\ current[c] \in Threads
      BY <1>1 DEF ContextSave, PlaceInv, TypeOK
    <3>2. CASE current[c] \in Tasks
      <4>1. current[c] # c /\ ctx[current[c]] # "NULL"
        BY <3>2 DEF FrameInv, KmtAssumption
      <4>2. ctx[c] = "saved" /\ last[c] # None
        BY <3>1, <4>1 DEF FrameInv
      <4> QED BY <4>1, <4>2 DEF SaveAsserts
    <3>3. CASE current[c] \in Cpus
      <4>1. current[c] = c
        BY <3>1, <3>3 DEF PlaceInv, PlaceOnce, OnCpu
      <4>2. status[c] = "IDLE"
        BY DEF PlaceInv, CallInv
      <4>3. IF ctx[c] = "NULL" THEN last[c] = None ELSE last[c] # None
        BY <3>1 DEF FrameInv
      <4> QED BY <4>1, <4>2, <4>3 DEF SaveAsserts
    <3> QED BY <3>1, <3>2, <3>3
  <2> QED BY <1>1, <2>1 DEF ContextSave
<1>2. CASE Pick(c)
  <2>1. queue # <<>>
    BY <1>2 DEF Pick, PickTerminates
  <2> QED BY <1>2, <2>1 DEF Pick
<1>3. CASE Iret(c)
  BY <1>3 DEF Iret, FrameInv
<1>4. CASE Throw(c)
  BY <1>4 DEF Throw, AliveInv, PlaceInv, CallInv, TypeOK
<1>5. CASE \/ CpuBoot(c) \/ TimerTrap(c) \/ Yield(c) \/ SchedLock(c) \/ ScanNext(c)
           \/ PickIdle(c) \/ Wake(c)
           \/ \E s \in Sems : SemWait(c, s) \/ SemSignal(c, s)
           \/ \E u \in Tasks : Create(c, u)
           \/ \E u \in Victims : Teardown(c, u)
  BY <1>5 DEF CpuBoot, TimerTrap, Yield, SchedLock, ScanNext, PickIdle, Wake,
     SemWait, SemSignal, Create
<1> QED BY <1>1, <1>2, <1>3, <1>4, <1>5 DEF Step, Handler, Call

\* A step never loses a task: what has a place keeps one.
LEMMA PlacedNext ==
    ASSUME NoTeardown, SafeInv, NEW c \in Cpus, Step(c), NEW t \in Tasks, Placed(t)
    PROVE  Placed(t)'
<1> USE DEF NoTeardown, SafeInv, PlaceInv
<1>1. CASE ContextSave(c)
  <2>1. SaveAsserts(c)
    BY <1>1, PanicNext DEF ContextSave
  <2>2. /\ \A d \in Cpus : d # c => OnCpu(d)' = OnCpu(d)
        /\ OnCpu(c)' = {current[c]} /\ OnCpu(c) = {current[c], last[c]}
    BY <1>1, <2>1 DEF ContextSave, TypeOK, OnCpu
  <2>3. queue \in Seq(Tasks) /\ last[c] \in Threads \cup {None}
    BY DEF TypeOK
  <2>4. CASE t = last[c]
    <3>1. Requeues(c)
      BY <2>4 DEF Requeues, CallInv, KmtAssumption
    <3>2. queue' = Append(queue, t)
      BY <1>1, <2>1, <2>4, <3>1 DEF ContextSave, Returned
    <3> QED BY <2>3, <3>2, EnqueFacts DEF Placed
  <2>5. CASE t # last[c]
    <3>1. Queued \subseteq Queued'
      <4>1. CASE Requeues(c)
        <5>1. queue' = Append(queue, last[c]) /\ last[c] \in Tasks
          BY <1>1, <2>1, <2>3, <4>1 DEF ContextSave, Returned, Requeues, CallInv
        <5> QED BY <2>3, <5>1, EnqueFacts
      <4>2. CASE ~Requeues(c)
        BY <1>1, <2>1, <4>2 DEF ContextSave
      <4> QED BY <4>1, <4>2
    <3>2. \A d \in Cpus : t \in OnCpu(d) => t \in OnCpu(d)'
      BY <2>2, <2>5
    <3> QED BY <3>1, <3>2 DEF Placed
  <2> QED BY <2>4, <2>5
<1>2. CASE SchedLock(c) \/ PickIdle(c)
  <2>1. queue' = queue
    BY <1>2 DEF SchedLock, PickIdle
  <2>2. \A d \in Cpus : t \in OnCpu(d) => t \in OnCpu(d)'
    BY <1>2 DEF SchedLock, PickIdle, OnCpu, TypeOK, ModeInv
  <2> QED BY <2>1, <2>2 DEF Placed
<1>3. CASE Pick(c)
  <2>1. queue # <<>> /\ queue \in Seq(Tasks) /\ IsInjective(queue) /\ mode[c] = "pick"
    BY <1>3 DEF Pick, PickTerminates, TypeOK, PlaceOnce
  <2>2. /\ Head(queue) \in Tasks /\ Tail(queue) \in Seq(Tasks)
        /\ Range(Tail(queue)) = Range(queue) \ {Head(queue)}
    BY <2>1, TailElems
  <2>3. CASE Selected(Head(queue))
    <3>1. /\ queue' = Tail(queue) /\ last' = last
          /\ current' = [current EXCEPT ![c] = Head(queue)]
          /\ mode' = [mode EXCEPT ![c] = "iret"]
      BY <1>3, <2>1, <2>3 DEF Pick
    <3>2. /\ Head(queue) \in OnCpu(c)'
          /\ \A d \in Cpus : OnCpu(d) \subseteq OnCpu(d)'
      BY <2>1, <3>1 DEF OnCpu, TypeOK, ModeInv
    <3> QED BY <2>2, <3>1, <3>2 DEF Placed
  <2>4. CASE ~Selected(Head(queue))
    <3>1. queue' = Append(Tail(queue), Head(queue)) /\ UNCHANGED <<current, last, mode>>
      BY <1>3, <2>1, <2>4 DEF Pick
    <3>2. Range(queue') = Range(queue)
      <4>1. Range(queue') = Range(Tail(queue)) \cup {Head(queue)}
        BY <2>2, <3>1, EnqueFacts
      <4>2. Head(queue) \in Range(queue)
        BY <2>1, TailElems
      <4> QED BY <2>2, <4>1, <4>2
    <3> QED BY <3>1, <3>2 DEF Placed, OnCpu
  <2> QED BY <2>3, <2>4
<1>4. CASE \/ CpuBoot(c) \/ TimerTrap(c) \/ Yield(c) \/ ScanNext(c) \/ Iret(c) \/ Wake(c)
           \/ \E s \in Sems : SemWait(c, s) \/ SemSignal(c, s)
  <2>1. queue' = queue /\ UNCHANGED <<current, last>>
    BY <1>4 DEF CpuBoot, TimerTrap, Yield, ScanNext, Iret, Wake, QueueAtWake, SemWait,
       SemSignal, cpuVars
  <2>2. \A d \in Cpus : OnCpu(d)' = OnCpu(d)
    BY <1>4 DEF OnCpu, CpuBoot, TimerTrap, Yield, ScanNext, Iret, Wake, QueueAtWake,
       SemWait, SemSignal, cpuVars, TypeOK
  <2> QED BY <2>1, <2>2 DEF Placed
<1>5. CASE \E u \in Tasks : Create(c, u)
  <2>1. PICK u \in Tasks : Create(c, u)
    BY <1>5
  <2>2. Queued \subseteq Queued'
    BY <2>1, EnqueFacts DEF Create, TypeOK
  <2> QED BY <2>1, <2>2 DEF Placed, Create, OnCpu, cpuVars
<1>6. CASE Throw(c) \/ \E u \in Victims : Teardown(c, u)
  BY <1>6 DEF Throw, AliveInv, CallInv, TypeOK
<1> QED BY <1>1, <1>2, <1>3, <1>4, <1>5, <1>6 DEF Step, Handler, Call

LEMMA AliveNext ==
    ASSUME NoTeardown, SafeInv, NEW c \in Cpus, Step(c) PROVE AliveInv'
<1> USE DEF NoTeardown, SafeInv, PlaceInv
<1>1. ~Throw(c) /\ ~\E u \in Victims : Teardown(c, u)
  BY DEF Throw, AliveInv, CallInv, TypeOK
<1>2. CASE \E u \in Tasks : Create(c, u)
  <2>1. PICK u \in Tasks : Create(c, u)
    BY <1>2
  <2>2. Range(queue') = Range(queue) \cup {u}
    BY <2>1, EnqueFacts DEF Create, TypeOK
  <2>3. /\ status' = [status EXCEPT ![u] = "RUNNING"] /\ pc' = pc
        /\ status \in [Threads -> Statuses]
    BY <2>1 DEF Create, thrVars, TypeOK
  <2>4. ASSUME NEW t \in Tasks, status'[t] # "NEW" PROVE Placed(t)'
    <3>1. CASE t = u
      BY <2>2, <3>1 DEF Placed
    <3>2. CASE t # u
      BY <2>3, <2>4, <3>2, PlacedNext DEF AliveInv
    <3> QED BY <3>1, <3>2
  <2>5. \A t \in Tasks : status'[t] # "DEAD" /\ pc'[t] # "throw"
    BY <2>3 DEF AliveInv
  <2> QED BY <2>4, <2>5 DEF AliveInv
<1>3. CASE \/ CpuBoot(c) \/ TimerTrap(c) \/ Yield(c) \/ Handler(c) \/ Wake(c)
           \/ \E s \in Sems : SemWait(c, s) \/ SemSignal(c, s)
  <2>1. \A t \in Tasks : /\ status'[t] # "DEAD" /\ pc'[t] # "throw"
                         /\ status'[t] # "NEW" => status[t] # "NEW"
    <3>1. CASE CpuBoot(c) \/ TimerTrap(c) \/ Handler(c)
      BY <3>1 DEF CpuBoot, TimerTrap, Handler, ContextSave, SchedLock, ScanNext, PickIdle,
         Pick, Iret, thrVars, AliveInv
    <3>2. CASE Yield(c)
      BY <3>2 DEF Yield, StatusAtYield, AliveInv, TypeOK
    <3>3. CASE Wake(c)
      <4>1. arg[stack[c]] \in Tasks /\ status[arg[stack[c]]] # "NEW"
        BY <3>3 DEF Wake, CallInv, TypeOK
      <4> QED BY <3>3, <4>1 DEF Wake, Woken, AliveInv, TypeOK
    <3>4. CASE \E s \in Sems : SemWait(c, s)
      <4>1. current[c] \in Tasks /\ status[current[c]] # "NEW"
        BY <3>4 DEF SemWait, Calls, ModeInv, PlaceOnce, OnCpu
      <4> QED BY <3>4, <4>1 DEF SemWait, AliveInv, TypeOK
    <3>5. CASE \E s \in Sems : SemSignal(c, s)
      BY <3>5 DEF SemSignal, AliveInv, TypeOK
    <3> QED BY <1>3, <3>1, <3>2, <3>3, <3>4, <3>5
  <2> QED BY <2>1, PlacedNext DEF AliveInv
<1> QED BY <1>1, <1>2, <1>3 DEF Step, Call

LEMMA FrameNext ==
    ASSUME NoTeardown, SafeInv, NEW c \in Cpus, Step(c) PROVE FrameInv'
<1> USE DEF NoTeardown, SafeInv, PlaceInv, KmtAssumption
<1>0. \A d \in Cpus : d # c => current[d] # current[c] /\ c # current[d]
  <2>1. \A d \in Cpus : current[d] \in OnCpu(d) /\ current[d] # None
    BY DEF OnCpu, TypeOK
  <2> QED BY <2>1 DEF PlaceOnce
<1>q. queue \in Seq(Tasks) /\ Range(queue) \subseteq Tasks
  BY DEF TypeOK, Range
<1>1. CASE ContextSave(c)
  <2>1. SaveAsserts(c)
    BY <1>1, PanicNext DEF ContextSave
  <2>2. /\ ctx' = [ctx EXCEPT ![current[c]] = "saved"]
        /\ mode' = [mode EXCEPT ![c] = "sched"] /\ mode[c] = "save"
        /\ current' = current /\ last' = last
    BY <1>1, <2>1 DEF ContextSave, FrameOf
  <2>3. \A t \in Range(queue') : t \in Threads /\ ctx[t] = "saved"
    <3>1. CASE Requeues(c)
      <4>1. queue' = Append(queue, last[c]) /\ last[c] \in Tasks
        BY <1>1, <2>1, <3>1 DEF ContextSave, Returned, Requeues, CallInv, TypeOK
      <4>2. Range(queue') = Range(queue) \cup {last[c]}
        BY <4>1, EnqueFacts DEF TypeOK
      <4> QED BY <1>q, <2>2, <4>1, <4>2 DEF FrameInv
    <3>2. CASE ~Requeues(c)
      BY <1>1, <1>q, <2>1, <3>2 DEF ContextSave, FrameInv
    <3> QED BY <3>1, <3>2
  <2>4. \A t \in Threads : ctx[t] = "saved" => ctx'[t] = "saved"
    BY <2>2 DEF TypeOK
  <2>5. \A t \in Queued' : ctx'[t] = "saved"
    BY <2>3, <2>4
  <2>6. ASSUME NEW d \in Cpus
        PROVE  /\ mode'[d] \notin {"off", "user", "save"} => ctx'[current'[d]] = "saved"
               /\ ctx'[d] # "saved" => current'[d] = d /\ mode'[d] \in {"off", "user", "save"}
               /\ last'[d] \in Tasks /\ mode'[d] # "sched" => ctx'[last'[d]] = "saved"
               /\ IF ctx'[d] = "NULL"
                  THEN last'[d] = None
                  ELSE last'[d] # None \/ mode'[d] = "sched"
               /\ current'[d] \in Tasks => ctx'[current'[d]] # "NULL"
    <3>1. CASE d = c
      BY <2>2, <3>1 DEF FrameInv, TypeOK, SaveAsserts
    <3>2. CASE d # c
      BY <1>0, <2>2, <3>2 DEF FrameInv, TypeOK
    <3> QED BY <3>1, <3>2
  <2> QED BY <2>5, <2>6 DEF FrameInv
<1>2. CASE SchedLock(c)
  <2>1. /\ mode[c] = "sched" /\ mode' = [mode EXCEPT ![c] = "scan"]
        /\ last' = [last EXCEPT ![c] = current[c]]
        /\ UNCHANGED <<queue, ctx, current>>
    BY <1>2 DEF SchedLock
  <2>2. ctx[c] = "saved" /\ ctx[current[c]] = "saved" /\ current[c] # None
    BY <2>1 DEF FrameInv, TypeOK
  <2> QED BY <2>1, <2>2 DEF FrameInv, TypeOK
<1>3. CASE ScanNext(c)
  <2>1. /\ UNCHANGED <<queue, ctx, current, last>> /\ mode[c] = "scan"
        /\ mode' = mode \/ mode' = [mode EXCEPT ![c] = "pick"]
    BY <1>3 DEF ScanNext
  <2> QED BY <2>1 DEF FrameInv, TypeOK
<1>4. CASE PickIdle(c)
  <2>1. /\ mode[c] = "scan" /\ mode' = [mode EXCEPT ![c] = "iret"]
        /\ current' = [current EXCEPT ![c] = c]
        /\ UNCHANGED <<queue, ctx, last>>
    BY <1>4 DEF PickIdle
  <2>2. ctx[c] = "saved"
    BY <2>1 DEF FrameInv
  <2> QED BY <2>1, <2>2 DEF FrameInv, TypeOK
<1>5. CASE Pick(c)
  <2>1. queue # <<>> /\ queue \in Seq(Tasks) /\ IsInjective(queue) /\ mode[c] = "pick"
    BY <1>5 DEF Pick, PickTerminates, TypeOK, PlaceOnce
  <2>2. /\ Head(queue) \in Tasks /\ Tail(queue) \in Seq(Tasks)
        /\ Range(Tail(queue)) = Range(queue) \ {Head(queue)}
        /\ Head(queue) \in Range(queue)
    BY <2>1, TailElems
  <2>3. CASE Selected(Head(queue))
    <3>1. /\ queue' = Tail(queue) /\ last' = last /\ ctx' = ctx
          /\ current' = [current EXCEPT ![c] = Head(queue)]
          /\ mode' = [mode EXCEPT ![c] = "iret"]
      BY <1>5, <2>1, <2>3 DEF Pick
    <3>2. ctx[Head(queue)] = "saved" /\ \A t \in Range(queue') : ctx[t] = "saved"
      BY <2>2, <3>1 DEF FrameInv
    <3>3. ctx[c] = "saved" /\ Head(queue) # c
      BY <2>1, <2>2 DEF FrameInv
    <3>4. last[c] # None /\ (last[c] \in Tasks => ctx[last[c]] = "saved")
      BY <2>1, <3>3 DEF FrameInv
    <3>5. ASSUME NEW d \in Cpus
          PROVE  /\ mode'[d] \notin {"off", "user", "save"} => ctx'[current'[d]] = "saved"
                 /\ ctx'[d] # "saved" => current'[d] = d /\ mode'[d] \in {"off", "user", "save"}
                 /\ last'[d] \in Tasks /\ mode'[d] # "sched" => ctx'[last'[d]] = "saved"
                 /\ IF ctx'[d] = "NULL"
                    THEN last'[d] = None
                    ELSE last'[d] # None \/ mode'[d] = "sched"
                 /\ current'[d] \in Tasks => ctx'[current'[d]] # "NULL"
      <4>1. CASE d = c
        BY <3>1, <3>2, <3>3, <3>4, <4>1 DEF TypeOK
      <4>2. CASE d # c
        BY <3>1, <4>2 DEF FrameInv, TypeOK
      <4> QED BY <4>1, <4>2
    <3>6. \A t \in Queued' : ctx'[t] = "saved"
      BY <3>1, <3>2
    <3> QED BY <3>5, <3>6 DEF FrameInv
  <2>4. CASE ~Selected(Head(queue))
    <3>1. queue' = Append(Tail(queue), Head(queue)) /\ UNCHANGED <<ctx, current, last, mode>>
      BY <1>5, <2>1, <2>4 DEF Pick
    <3>2. Range(queue') = Range(queue)
      <4>1. Range(queue') = Range(Tail(queue)) \cup {Head(queue)}
        BY <2>2, <3>1, EnqueFacts
      <4> QED BY <2>2, <4>1
    <3> QED BY <3>1, <3>2 DEF FrameInv
  <2> QED BY <2>3, <2>4
<1>6. CASE Iret(c)
  <2>1. ctx[current[c]] = "saved" /\ mode[c] = "iret"
    BY <1>6 DEF Iret, FrameInv
  <2>2. /\ ctx' = [ctx EXCEPT ![current[c]] = "live"]
        /\ mode' = [mode EXCEPT ![c] = "user"]
        /\ UNCHANGED <<queue, current, last>>
    BY <1>6, <2>1 DEF Iret
  <2>3. \A t \in Queued : t # current[c]
    BY DEF PlaceOnce, OnCpu
  <2>4. \A t \in Queued' : ctx'[t] = "saved"
    BY <2>2, <2>3 DEF FrameInv, TypeOK, Range
  <2>5. ASSUME NEW d \in Cpus
        PROVE  /\ mode'[d] \notin {"off", "user", "save"} => ctx'[current'[d]] = "saved"
               /\ ctx'[d] # "saved" => current'[d] = d /\ mode'[d] \in {"off", "user", "save"}
               /\ last'[d] \in Tasks /\ mode'[d] # "sched" => ctx'[last'[d]] = "saved"
               /\ IF ctx'[d] = "NULL"
                  THEN last'[d] = None
                  ELSE last'[d] # None \/ mode'[d] = "sched"
               /\ current'[d] \in Tasks => ctx'[current'[d]] # "NULL"
    <3>1. last[d] \in Tasks /\ mode[d] # "sched" => last[d] # current[c]
      <4>1. CASE d = c
        BY <2>1, <4>1 DEF LastApart
      <4>2. CASE d # c
        BY <4>2 DEF PlaceOnce, OnCpu
      <4> QED BY <4>1, <4>2
    <3>2. CASE d = c
      <4>1. current[c] \in Tasks \/ current[c] = c
        BY DEF TypeOK, PlaceOnce, OnCpu
      <4>2. ctx[c] = "saved" /\ last[c] # None
        BY <2>1 DEF FrameInv
      <4> QED BY <2>1, <2>2, <3>1, <3>2, <4>1, <4>2 DEF FrameInv, TypeOK
    <3>3. CASE d # c
      <4>1. /\ current[d] \in Threads /\ d \in Threads
            /\ current[d] # current[c] /\ d # current[c]
        <5>1. current[c] \in OnCpu(c)
          BY DEF OnCpu
        <5> QED BY <1>0, <3>3, <5>1 DEF TypeOK, PlaceOnce
      <4>2. ctx'[d] = ctx[d] /\ ctx'[current[d]] = ctx[current[d]] /\ mode'[d] = mode[d]
        BY <2>2, <3>3, <4>1 DEF TypeOK
      <4>3. last[d] \in Tasks /\ mode[d] # "sched" => ctx'[last[d]] = ctx[last[d]]
        BY <2>2, <3>1 DEF TypeOK
      <4> QED BY <2>2, <4>2, <4>3 DEF FrameInv
    <3> QED BY <3>2, <3>3
  <2> QED BY <2>4, <2>5 DEF FrameInv
<1>7. CASE CpuBoot(c) \/ TimerTrap(c) \/ Yield(c)
  <2>1. /\ UNCHANGED <<queue, ctx, current, last>>
        /\ mode[c] \in {"off", "user"}
        /\ \E m \in {"user", "save"} : mode' = [mode EXCEPT ![c] = m]
    BY <1>7 DEF CpuBoot, TimerTrap, Yield
  <2> QED BY <2>1 DEF FrameInv, TypeOK
<1>8. CASE \E u \in Tasks : Create(c, u)
  <2>1. PICK u \in Tasks : Create(c, u)
    BY <1>8
  <2>2. Range(queue') = Range(queue) \cup {u}
    BY <2>1, EnqueFacts DEF Create, TypeOK
  <2>3. ctx' = [ctx EXCEPT ![u] = "saved"] /\ UNCHANGED <<current, last, mode>>
    BY <2>1 DEF Create, cpuVars
  <2>4. \A t \in Range(queue') : ctx'[t] = "saved"
    BY <1>q, <2>2, <2>3 DEF FrameInv, TypeOK
  <2>5. \A t \in Threads : ctx[t] # "NULL" => ctx'[t] # "NULL"
    BY <2>3 DEF TypeOK
  <2>6. \A t \in Threads : ctx[t] = "saved" => ctx'[t] = "saved"
    BY <2>3 DEF TypeOK
  <2>7. \A d \in Cpus : ctx'[d] = ctx[d]
    BY <2>3 DEF TypeOK
  <2> QED BY <2>3, <2>4, <2>5, <2>6, <2>7 DEF FrameInv, TypeOK
<1>9. CASE \/ Wake(c) \/ \E s \in Sems : SemWait(c, s) \/ SemSignal(c, s)
           \/ Throw(c) \/ \E u \in Victims : Teardown(c, u)
  <2>1. UNCHANGED <<queue, ctx, current, last, mode>>
    BY <1>9 DEF Wake, QueueAtWake, SemWait, SemSignal, cpuVars, Throw, AliveInv, CallInv, TypeOK
  <2> QED BY <2>1 DEF FrameInv
<1> QED BY <1>1, <1>2, <1>3, <1>4, <1>5, <1>6, <1>7, <1>8, <1>9 DEF Step, Handler, Call

\* While a CPU is between check_running_ulk and the end of its loop, nobody
\* else changes the queue, and no queued task stops being RUNNING.
LEMMA PickNext ==
    ASSUME NoTeardown, SafeInv, NEW c \in Cpus, Step(c) PROVE PickTerminates'
<1> USE DEF NoTeardown, SafeInv, PlaceInv
<1> DEFINE Some(q, st) == \E t \in Range(q) : st[t] = "RUNNING"
<1>1. \A q \in Seq(Tasks) : \A st :
        (\E i \in 1..Len(q) : st[q[i]] = "RUNNING") <=> Some(q, st)
  BY DEF Range
<1>2. queue \in Seq(Tasks) /\ queue' \in Seq(Tasks)
  <2>1. Next
    BY PanicNext DEF Next
  <2> QED BY <2>1, PlaceNext DEF TypeOK
<1>3. SUFFICES ASSUME NEW d \in Cpus, mode'[d] = "pick" PROVE Some(queue', status')
  BY <1>1, <1>2 DEF PickTerminates
<1>4. mode[d] = "pick" => lk = d /\ Some(queue, status)
  BY <1>1, <1>2 DEF PickTerminates, ModeInv
<1>5. d # None
  BY DEF KmtAssumption
<1> HIDE DEF Some
<1>6. CASE ContextSave(c)
  <2>1. SaveAsserts(c)
    BY <1>6, PanicNext DEF ContextSave
  <2>2. mode[d] = "pick" /\ status' = status
    BY <1>3, <1>6, <2>1 DEF ContextSave, TypeOK
  <2>3. queue' = queue
    BY <1>4, <1>5, <1>6, <2>1, <2>2 DEF ContextSave
  <2> QED BY <1>4, <2>2, <2>3
<1>7. CASE SchedLock(c)
  BY <1>3, <1>4, <1>5, <1>7 DEF SchedLock, TypeOK
<1>8. CASE ScanNext(c)
  <2>1. queue' = queue /\ status' = status
    BY <1>8 DEF ScanNext
  <2>2. CASE d = c /\ status[queue[scan[c]]] = "RUNNING"
    <3>1. scan[c] \in 1..Len(queue)
      BY <1>2, <1>8 DEF ScanNext, TypeOK
    <3> QED BY <1>1, <1>2, <2>1, <2>2, <3>1
  <2>3. CASE ~(d = c /\ status[queue[scan[c]]] = "RUNNING")
    <3>1. mode[d] = "pick"
      BY <1>3, <1>8, <2>3 DEF ScanNext, TypeOK
    <3> QED BY <1>4, <2>1, <3>1
  <2> QED BY <2>2, <2>3
<1>9. CASE PickIdle(c)
  BY <1>3, <1>4, <1>9 DEF PickIdle, TypeOK, ModeInv
<1>10. CASE Pick(c)
  <2>1. queue # <<>> /\ IsInjective(queue) /\ mode[c] = "pick" /\ lk = c
    BY <1>10 DEF Pick, PickTerminates, PlaceOnce, ModeInv
  <2>2. /\ Head(queue) \in Tasks /\ Tail(queue) \in Seq(Tasks)
        /\ Range(Tail(queue)) = Range(queue) \ {Head(queue)}
        /\ Head(queue) \in Range(queue)
    BY <1>2, <2>1, TailElems
  <2>3. CASE Selected(Head(queue))
    <3>1. mode' = [mode EXCEPT ![c] = "iret"]
      BY <1>10, <2>1, <2>3 DEF Pick
    <3>2. mode[d] = "pick" /\ d # c
      BY <1>3, <3>1 DEF TypeOK
    <3> QED BY <1>4, <2>1, <3>2
  <2>4. CASE ~Selected(Head(queue))
    <3>1. /\ queue' = Append(Tail(queue), Head(queue))
          /\ mode' = mode /\ status' = status
      BY <1>10, <2>1, <2>4 DEF Pick
    <3>2. Range(queue') = Range(queue)
      <4>1. Range(queue') = Range(Tail(queue)) \cup {Head(queue)}
        BY <2>2, <3>1, EnqueFacts
      <4> QED BY <2>2, <4>1
    <3> QED BY <1>3, <1>4, <3>1, <3>2 DEF Some
  <2> QED BY <2>3, <2>4
<1>11. CASE Iret(c) \/ CpuBoot(c) \/ TimerTrap(c) \/ Yield(c)
  <2>1. mode[d] = "pick" /\ queue' = queue /\ status' = status
    BY <1>3, <1>11 DEF Iret, CpuBoot, TimerTrap, Yield, StatusAtYield, TypeOK
  <2> QED BY <1>4, <2>1
<1>12. CASE Wake(c)
  <2>1. /\ mode[d] = "pick" /\ queue' = queue
        /\ status' = [status EXCEPT ![arg[stack[c]]] = "RUNNING"]
    BY <1>3, <1>12 DEF Wake, Woken, QueueAtWake, cpuVars
  <2>2. Range(queue) \subseteq Threads
    BY QueueType
  <2> QED BY <1>4, <2>1, <2>2 DEF Some, TypeOK
<1>13. CASE \E s \in Sems : SemWait(c, s)
  <2>1. /\ mode[d] = "pick" /\ queue' = queue
        /\ \A t \in Threads : t # current[c] => status'[t] = status[t]
    BY <1>3, <1>13 DEF SemWait, cpuVars, TypeOK
  <2>2. Range(queue) \subseteq Threads /\ current[c] \notin Range(queue)
    BY QueueType DEF PlaceOnce, OnCpu
  <2> QED BY <1>4, <2>1, <2>2 DEF Some
<1>14. CASE \E s \in Sems : SemSignal(c, s)
  BY <1>3, <1>4, <1>14 DEF SemSignal, cpuVars
<1>15. CASE \E u \in Tasks : Create(c, u)
  BY <1>3, <1>4, <1>5, <1>15 DEF Create, cpuVars
<1>16. CASE Throw(c) \/ \E u \in Victims : Teardown(c, u)
  BY <1>16 DEF Throw, AliveInv, CallInv, TypeOK
<1> QED BY <1>6, <1>7, <1>8, <1>9, <1>10, <1>11, <1>12, <1>13, <1>14, <1>15, <1>16
        DEF Step, Handler, Call

LEMMA RunNext ==
    ASSUME NoTeardown, SafeInv, NEW c \in Cpus, Step(c) PROVE RunInv'
<1> USE DEF NoTeardown, SafeInv, PlaceInv
<1>0. \A d \in Cpus : d # c => stack[d] # stack[c] /\ current[d] # current[c]
  <2>1. \A d \in Cpus : /\ stack[d] \in OnCpu(d) /\ stack[d] # None
                        /\ current[d] \in OnCpu(d) /\ current[d] # None
    BY DEF TypeOK, ModeInv, OnCpu, KmtAssumption
  <2> QED BY <2>1 DEF PlaceOnce
<1>1. CASE ContextSave(c) \/ SchedLock(c) \/ ScanNext(c) \/ PickIdle(c)
  <2>1. /\ UNCHANGED <<status, pc, stack>>
        /\ \A d \in Cpus : mode'[d] = "user" => mode[d] = "user"
        /\ \A d \in Cpus : mode'[d] = "iret" =>
              (mode[d] = "iret" /\ current'[d] = current[d]) \/ current'[d] \notin Tasks
    BY <1>1 DEF ContextSave, SchedLock, ScanNext, PickIdle, TypeOK, thrVars, KmtAssumption
  <2> QED BY <2>1 DEF RunInv
<1>2. CASE Pick(c)
  <2>1. queue # <<>> /\ queue \in Seq(Tasks)
    BY <1>2 DEF Pick, PickTerminates, TypeOK
  <2>2. /\ UNCHANGED <<status, pc, stack>>
        /\ \A d \in Cpus : mode'[d] = "user" => mode[d] = "user"
    BY <1>2, <2>1 DEF Pick, TypeOK, thrVars
  <2>3. ASSUME NEW d \in Cpus, mode'[d] = "iret", current'[d] \in Tasks
        PROVE  status[current'[d]] = "RUNNING"
    <3>1. CASE Selected(Head(queue)) /\ d = c
      BY <1>2, <2>1, <3>1 DEF Pick, Selected, TypeOK
    <3>2. CASE ~(Selected(Head(queue)) /\ d = c)
      BY <1>2, <2>1, <2>3, <3>2 DEF Pick, TypeOK, RunInv
    <3> QED BY <3>1, <3>2
  <2> QED BY <2>2, <2>3 DEF RunInv
<1>3. CASE Iret(c)
  <2>1. /\ stack' = [stack EXCEPT ![c] = current[c]]
        /\ mode' = [mode EXCEPT ![c] = "user"] /\ mode[c] = "iret"
        /\ UNCHANGED <<status, pc, current>>
    BY <1>3 DEF Iret, FrameInv, thrVars
  <2> QED BY <2>1 DEF RunInv, TypeOK
<1>4. CASE CpuBoot(c)
  <2>1. stack[c] \notin Tasks
    BY <1>4 DEF CpuBoot, ModeInv, KmtAssumption
  <2> QED BY <1>4, <2>1 DEF CpuBoot, RunInv, TypeOK, thrVars
<1>5. CASE TimerTrap(c)
  BY <1>5 DEF TimerTrap, RunInv, TypeOK, thrVars
<1>6. CASE Yield(c)
  BY <1>0, <1>6 DEF Yield, StatusAtYield, RunInv, TypeOK
<1>7. CASE \E s \in Sems : SemWait(c, s)
  <2>1. /\ stack[c] = current[c] /\ stack[c] \in Tasks /\ pc[stack[c]] = "run"
        /\ UNCHANGED cpuVars
        /\ \A t \in Threads : t # stack[c] => status'[t] = status[t] /\ pc'[t] = pc[t]
        /\ \/ status'[stack[c]] = status[stack[c]] /\ pc'[stack[c]] = "run"
           \/ pc'[stack[c]] = "yield"
    BY <1>7 DEF SemWait, Calls, TypeOK, ModeInv
  <2>2. \A t \in Tasks : pc'[t] = "wake" => status'[t] = "RUNNING"
    BY <2>1 DEF RunInv
  <2>3. ASSUME NEW d \in Cpus
        PROVE  /\ mode[d] = "user" /\ stack[d] \in Tasks /\ pc'[stack[d]] = "run"
                     => status'[stack[d]] = "RUNNING"
               /\ mode[d] = "iret" /\ current[d] \in Tasks
                     => status'[current[d]] = "RUNNING"
    <3>1. mode[c] = "user"
      BY <1>7 DEF SemWait, Calls
    <3>2. CASE d = c
      BY <2>1, <3>1, <3>2 DEF RunInv
    <3>3. CASE d # c
      BY <1>0, <2>1, <3>3 DEF RunInv
    <3> QED BY <3>2, <3>3
  <2> QED BY <2>1, <2>2, <2>3 DEF RunInv, cpuVars
<1>8. CASE \E s \in Sems : SemSignal(c, s)
  BY <1>0, <1>8 DEF SemSignal, Calls, cpuVars, RunInv, TypeOK
<1>9. CASE Wake(c)
  BY <1>0, <1>9 DEF Wake, Woken, cpuVars, RunInv, TypeOK
<1>10. CASE \E u \in Tasks : Create(c, u)
  BY <1>10 DEF Create, cpuVars, thrVars, RunInv, TypeOK
<1>11. CASE Throw(c) \/ \E u \in Victims : Teardown(c, u)
  BY <1>11 DEF Throw, AliveInv, CallInv, TypeOK
<1> QED BY <1>1, <1>2, <1>3, <1>4, <1>5, <1>6, <1>7, <1>8, <1>9, <1>10, <1>11
        DEF Step, Handler, Call

\* The wait lists and the pending wakeups through every step.
LEMMA WaitNext ==
    ASSUME NoTeardown, SafeInv, NEW c \in Cpus, Step(c)
    PROVE  NoLostWakeup' /\ SemCount'
<1> USE DEF NoTeardown, SafeInv, PlaceInv
<1>0. /\ waiters \in [Sems -> Seq(Tasks)] /\ value \in [Sems -> Int]
      /\ status \in [Threads -> Statuses]
  BY DEF TypeOK
<1>1. CASE UNCHANGED <<status, waiters, value>> /\ UNCHANGED <<pc, arg>>
  BY <1>1 DEF NoLostWakeup, SemCount, BlockedAt, WokenBy
<1>2. CASE CpuBoot(c) \/ TimerTrap(c) \/ Handler(c)
  BY <1>1, <1>2 DEF CpuBoot, TimerTrap, Handler, ContextSave, SchedLock, ScanNext, PickIdle,
     Pick, Iret, thrVars, semVars
<1>3. CASE Yield(c)
  <2>1. UNCHANGED <<status, waiters, value, arg>>
    BY <1>3 DEF Yield, StatusAtYield, semVars
  <2>2. \A t \in Threads : (pc'[t] = "wake") <=> (pc[t] = "wake")
    BY <1>3 DEF Yield, TypeOK
  <2> QED BY <2>1, <2>2 DEF NoLostWakeup, SemCount, BlockedAt, WokenBy
<1>4. CASE \E u \in Tasks : Create(c, u)
  <2>1. PICK u \in Tasks : Create(c, u)
    BY <1>4
  <2>2. /\ UNCHANGED <<waiters, value, pc, arg>>
        /\ \A t \in Tasks : (status'[t] = "WAITING") <=> (status[t] = "WAITING")
    BY <1>0, <2>1 DEF Create, semVars, thrVars
  <2> QED BY <2>2 DEF NoLostWakeup, SemCount, BlockedAt, WokenBy
<1>5. CASE Wake(c)
  <2>0. stack[c] \in Tasks /\ arg[stack[c]] \in Tasks /\ pc[stack[c]] = "wake"
    BY <1>5 DEF Wake, CallInv, TypeOK
  <2>1. PICK t0 \in Tasks, u0 \in Tasks : t0 = stack[c] /\ u0 = arg[t0] /\ pc[t0] = "wake"
    BY <2>0
  <2>2. /\ status' = [status EXCEPT ![u0] = "RUNNING"]
        /\ pc' = [pc EXCEPT ![t0] = "run"] /\ arg' = [arg EXCEPT ![t0] = None]
        /\ UNCHANGED <<waiters, value>>
    BY <1>5, <2>1 DEF Wake, Woken, semVars
  <2>3. t0 \in WokenBy(u0)
    BY <2>1 DEF WokenBy
  <2>4. WokenBy(u0) = {t0} /\ BlockedAt(u0) = {}
    BY <2>1, <2>3 DEF NoLostWakeup
  <2>5. BlockedAt(u0)' = {} /\ WokenBy(u0)' = {}
    <3>1. BlockedAt(u0)' = BlockedAt(u0)
      BY <2>2 DEF BlockedAt
    <3>2. \A t \in Tasks : pc'[t] = "wake" => t # t0 /\ pc[t] = "wake" /\ arg'[t] = arg[t]
      BY <2>1, <2>2 DEF TypeOK
    <3>3. \A t \in Tasks : pc[t] = "wake" /\ arg[t] = u0 => t = t0
      BY <2>4 DEF WokenBy
    <3> QED BY <2>4, <3>1, <3>2, <3>3 DEF WokenBy
  <2>6. ASSUME NEW t \in Tasks, t # u0
        PROVE  /\ status'[t] = status[t] /\ BlockedAt(t)' = BlockedAt(t)
               /\ WokenBy(t)' = WokenBy(t)
    <3>1. status'[t] = status[t] /\ BlockedAt(t)' = BlockedAt(t)
      BY <2>1, <2>2, <2>6 DEF BlockedAt, TypeOK
    <3>2. \A u \in Tasks : (pc'[u] = "wake" /\ arg'[u] = t) <=> (pc[u] = "wake" /\ arg[u] = t)
      BY <2>1, <2>2, <2>6 DEF TypeOK
    <3> QED BY <3>1, <3>2 DEF WokenBy
  <2>7. status'[u0] = "RUNNING"
    BY <2>1, <2>2 DEF TypeOK
  <2> QED BY <2>2, <2>5, <2>6, <2>7 DEF NoLostWakeup, SemCount
<1>6. ASSUME NEW s \in Sems, SemWait(c, s) PROVE NoLostWakeup' /\ SemCount'
  <2>0. stack[c] \in Tasks
    BY <1>6 DEF SemWait, Calls
  <2>1. PICK t0 \in Tasks : /\ t0 = stack[c] /\ t0 = current[c]
                           /\ pc[t0] = "run" /\ status[t0] = "RUNNING"
    BY <1>6, <2>0 DEF SemWait, Calls, ModeInv, RunInv
  <2>2. value' = [value EXCEPT ![s] = value[s] - 1] /\ arg' = arg
    BY <1>6 DEF SemWait
  <2>3. CASE ~(value[s] - 1 < 0)
    <3>1. UNCHANGED <<status, waiters, pc>>
      BY <1>6, <2>3 DEF SemWait
    <3>2. NoLostWakeup'
      BY <2>2, <3>1 DEF NoLostWakeup, BlockedAt, WokenBy
    <3>3. SemCount'
      BY <1>0, <2>2, <2>3, <3>1 DEF SemCount
    <3> QED BY <3>2, <3>3
  <2>4. CASE value[s] - 1 < 0
    <3>1. /\ status' = [status EXCEPT ![t0] = "WAITING"]
          /\ waiters' = [waiters EXCEPT ![s] = Append(waiters[s], t0)]
          /\ pc' = [pc EXCEPT ![t0] = "yield"]
      BY <1>6, <2>1, <2>4 DEF SemWait
    <3>2. BlockedAt(t0) = {} /\ WokenBy(t0) = {}
      BY <2>1 DEF NoLostWakeup
    <3>3. waiters[s] \in Seq(Tasks) /\ t0 \notin Range(waiters[s]) /\ IsInjective(waiters[s])
      BY <1>0, <3>2 DEF BlockedAt, NoLostWakeup
    <3>4. /\ Range(Append(waiters[s], t0)) = Range(waiters[s]) \cup {t0}
          /\ IsInjective(Append(waiters[s], t0))
          /\ Len(Append(waiters[s], t0)) = Len(waiters[s]) + 1
      BY <2>1, <3>3, AppendElems
    <3>5. /\ waiters'[s] = Append(waiters[s], t0)
          /\ \A x \in Sems : x # s => waiters'[x] = waiters[x]
      BY <1>0, <3>1
    <3>6. \A x \in Sems : IsInjective(waiters'[x])
      BY <3>4, <3>5 DEF NoLostWakeup
    <3>7. BlockedAt(t0)' = {s} /\ \A t \in Tasks : t # t0 => BlockedAt(t)' = BlockedAt(t)
      BY <3>2, <3>4, <3>5 DEF BlockedAt
    <3>8. \A t \in Tasks : WokenBy(t)' = WokenBy(t)
      BY <2>1, <2>2, <3>1 DEF WokenBy, TypeOK
    <3>9. status'[t0] = "WAITING" /\ \A t \in Tasks : t # t0 => status'[t] = status[t]
      BY <1>0, <2>1, <3>1
    <3>10. NoLostWakeup'
      BY <3>2, <3>6, <3>7, <3>8, <3>9 DEF NoLostWakeup
    <3>11. ASSUME NEW x \in Sems
           PROVE  Len(waiters'[x]) = IF value'[x] < 0 THEN -value'[x] ELSE 0
      <4>1. CASE x = s
        <5>1. value'[s] = value[s] - 1 /\ value[s] \in Int
          BY <1>0, <2>2
        <5>2. Len(waiters[s]) = IF value[s] < 0 THEN -value[s] ELSE 0
          BY DEF SemCount
        <5>3. Len(waiters'[s]) = Len(waiters[s]) + 1
          BY <3>4, <3>5
        <5> HIDE DEF SafeInv
        <5> QED BY <2>4, <4>1, <5>1, <5>2, <5>3
      <4>2. CASE x # s
        BY <1>0, <2>2, <3>5, <4>2 DEF SemCount
      <4> QED BY <4>1, <4>2
    <3> QED BY <3>10, <3>11 DEF SemCount
  <2> QED BY <2>3, <2>4
<1>7. ASSUME NEW s \in Sems, SemSignal(c, s) PROVE NoLostWakeup' /\ SemCount'
  <2>0. stack[c] \in Tasks
    BY <1>7 DEF SemSignal, Calls
  <2>1. PICK t0 \in Tasks : t0 = stack[c] /\ pc[t0] = "run"
    BY <1>7, <2>0 DEF SemSignal, Calls
  <2>2. value' = [value EXCEPT ![s] = value[s] + 1] /\ status' = status
    BY <1>7 DEF SemSignal
  <2>3. CASE waiters[s] = <<>>
    <3>1. UNCHANGED <<waiters, pc, arg>>
      BY <1>7, <2>3 DEF SemSignal, HasWaiter
    <3>2. NoLostWakeup'
      BY <2>2, <3>1 DEF NoLostWakeup, BlockedAt, WokenBy
    <3>3. Len(waiters[s]) = 0
      BY <2>3
    <3>4. SemCount'
      BY <1>0, <2>2, <3>1, <3>3 DEF SemCount
    <3> QED BY <3>2, <3>4
  <2>4. CASE waiters[s] # <<>>
    <3>2. waiters[s] \in Seq(Tasks) /\ IsInjective(waiters[s])
      BY <1>0 DEF NoLostWakeup
    <3>0. Last(waiters[s]) \in Tasks
      BY <2>4, <3>2, FrontElems
    <3>u. PICK u0 \in Tasks : u0 = Last(waiters[s])
      BY <3>0
    <3>1. /\ waiters' = [waiters EXCEPT ![s] = Front(waiters[s])]
          /\ arg' = [arg EXCEPT ![t0] = u0]
          /\ pc' = [pc EXCEPT ![t0] = "wake"]
      BY <1>7, <2>1, <2>4, <3>u DEF SemSignal, HasWaiter
    <3>3. /\ u0 \in Range(waiters[s]) /\ u0 \in Tasks
          /\ Len(Front(waiters[s])) = Len(waiters[s]) - 1
          /\ Range(Front(waiters[s])) = Range(waiters[s]) \ {u0}
          /\ IsInjective(Front(waiters[s]))
      BY <2>4, <3>2, <3>u, FrontElems
    <3>4. s \in BlockedAt(u0)
      BY <3>3 DEF BlockedAt
    <3>5. status[u0] = "WAITING" /\ WokenBy(u0) = {} /\ BlockedAt(u0) = {s}
      BY <3>3, <3>4 DEF NoLostWakeup
    <3>6. /\ waiters'[s] = Front(waiters[s])
          /\ \A x \in Sems : x # s => waiters'[x] = waiters[x]
      BY <1>0, <3>1
    <3>7. \A x \in Sems : IsInjective(waiters'[x])
      BY <3>3, <3>6 DEF NoLostWakeup
    <3>8. BlockedAt(u0)' = {} /\ \A t \in Tasks : t # u0 => BlockedAt(t)' = BlockedAt(t)
      BY <3>3, <3>5, <3>6 DEF BlockedAt
    <3>9. \A t \in Tasks : /\ pc'[t] = IF t = t0 THEN "wake" ELSE pc[t]
                           /\ arg'[t] = IF t = t0 THEN u0 ELSE arg[t]
      BY <2>1, <3>1 DEF TypeOK
    <3>10. WokenBy(u0)' = {t0}
      BY <2>1, <3>5, <3>9 DEF WokenBy
    <3>11. \A t \in Tasks : t # u0 => WokenBy(t)' = WokenBy(t)
      BY <2>1, <3>9 DEF WokenBy
    <3>12. NoLostWakeup'
      <4>1. ASSUME NEW t \in Tasks
            PROVE  IF status'[t] # "WAITING"
                   THEN BlockedAt(t)' = {} /\ WokenBy(t)' = {}
                   ELSE \/ BlockedAt(t)' = {} /\ \E u \in Tasks : WokenBy(t)' = {u}
                        \/ WokenBy(t)' = {} /\ \E x \in Sems : BlockedAt(t)' = {x}
        <5>1. CASE t = u0
          BY <2>1, <2>2, <3>5, <3>8, <3>10, <5>1
        <5>2. CASE t # u0
          BY <2>2, <3>8, <3>11, <5>2 DEF NoLostWakeup
        <5> QED BY <5>1, <5>2
      <4> QED BY <3>7, <4>1 DEF NoLostWakeup
    <3>13. ASSUME NEW x \in Sems
           PROVE  Len(waiters'[x]) = IF value'[x] < 0 THEN -value'[x] ELSE 0
      <4>1. CASE x = s
        <5>1. value'[s] = value[s] + 1 /\ value[s] \in Int
          BY <1>0, <2>2
        <5>2. Len(waiters[s]) = IF value[s] < 0 THEN -value[s] ELSE 0
          BY DEF SemCount
        <5>3. Len(waiters'[s]) = Len(waiters[s]) - 1 /\ Len(waiters[s]) # 0
          BY <2>4, <3>2, <3>3, <3>6
        <5> HIDE DEF SafeInv
        <5> QED BY <4>1, <5>1, <5>2, <5>3
      <4>2. CASE x # s
        BY <1>0, <2>2, <3>6, <4>2 DEF SemCount
      <4> QED BY <4>1, <4>2
    <3> QED BY <3>12, <3>13 DEF SemCount
  <2> QED BY <2>3, <2>4
<1>8. CASE Throw(c) \/ \E u \in Victims : Teardown(c, u)
  BY <1>8 DEF Throw, AliveInv, CallInv, TypeOK
<1> QED BY <1>2, <1>3, <1>4, <1>5, <1>6, <1>7, <1>8 DEF Step, Call

-----------------------------------------------------------------------------
LEMMA SafeInit == ASSUME NoTeardown, Init PROVE SafeInv
<1> USE DEF NoTeardown
<1>1. PlaceInv
  BY PlaceInit
<1>2. ~panicked /\ PickTerminates
  BY DEF Init, PickTerminates
<1>3. AliveInv
  BY DEF Init, AliveInv, Placed, KmtAssumption
<1>4. FrameInv
  <2>1. Range(Boot) \subseteq Tasks
    BY DEF KmtAssumption, Range
  <2> QED BY <2>1 DEF Init, FrameInv, KmtAssumption
<1>5. RunInv
  BY DEF Init, RunInv, KmtAssumption
<1>6. NoLostWakeup
  <2>1. \A s \in Sems : IsInjective(waiters[s]) /\ Range(waiters[s]) = {}
    BY DEF Init, IsInjective, Range
  <2>2. \A t \in Tasks : BlockedAt(t) = {} /\ WokenBy(t) = {} /\ status[t] # "WAITING"
    BY <2>1 DEF Init, BlockedAt, WokenBy, KmtAssumption
  <2> QED BY <2>1, <2>2 DEF NoLostWakeup
<1>7. SemCount
  BY DEF Init, SemCount, KmtAssumption
<1> QED BY <1>1, <1>2, <1>3, <1>4, <1>5, <1>6, <1>7 DEF SafeInv

\* SafeInv is inductive.
LEMMA SafeNext == ASSUME NoTeardown, SafeInv, [Next]_vars PROVE SafeInv'
<1>1. PlaceInv'
  BY PlaceNext DEF NoTeardown, SafeInv
<1>2. CASE UNCHANGED vars
  BY <1>1, <1>2 DEF SafeInv, AliveInv, Placed, OnCpu, FrameInv, PickTerminates, RunInv,
     NoLostWakeup, BlockedAt, WokenBy, SemCount, vars, cpuVars, semVars, thrVars
<1>3. CASE Next
  <2>1. PICK c \in Cpus : Step(c)
    BY <1>3 DEF Next
  <2> QED BY <1>1, <2>1, PanicNext, AliveNext, FrameNext, PickNext, RunNext, WaitNext
          DEF SafeInv
<1> QED BY <1>2, <1>3

\* No assertion of the trap handlers fails: the first trap of a CPU finds its
\* idle thread with no context, every later one a last thread, and the loop
\* of kmt_schedule never meets an empty queue.
THEOREM NeverPanics == ASSUME NoTeardown PROVE Spec => []NoPanic
<1>1. Init => SafeInv
  BY SafeInit
<1>2. SafeInv /\ [Next]_vars => SafeInv'
  BY SafeNext
<1>3. SafeInv => NoPanic
  BY DEF SafeInv, NoPanic
<1> QED BY <1>1, <1>2, <1>3, PTL DEF Spec

\* Every created task is queued once or kept by one CPU: the scheduler loses
\* none and duplicates none.
THEOREM TasksKept == ASSUME NoTeardown PROVE Spec => []NothingLost
<1>1. Init => SafeInv
  BY SafeInit
<1>2. SafeInv /\ [Next]_vars => SafeInv'
  BY SafeNext
<1>3. SafeInv => NothingLost
  BY DEF SafeInv, PlaceInv, PlaceOnce, AliveInv, Placed, NothingLost
<1> QED BY <1>1, <1>2, <1>3, PTL DEF Spec

\* A CPU only restores frames that are up to date.
THEOREM FramesFresh == ASSUME NoTeardown PROVE Spec => []FrameFresh
<1>1. Init => SafeInv
  BY SafeInit
<1>2. SafeInv /\ [Next]_vars => SafeInv'
  BY SafeNext
<1>3. SafeInv => FrameFresh
  BY DEF SafeInv, FrameInv, FrameFresh
<1> QED BY <1>1, <1>2, <1>3, PTL DEF Spec

\* "At least one thread is running": the loop of kmt_schedule, which holds
\* queue_lk, has a RUNNING task to find.
THEOREM PickEnds == ASSUME NoTeardown PROVE Spec => []PickTerminates
<1>1. Init => SafeInv
  BY SafeInit
<1>2. SafeInv /\ [Next]_vars => SafeInv'
  BY SafeNext
<1>3. SafeInv => PickTerminates
  BY DEF SafeInv
<1> QED BY <1>1, <1>2, <1>3, PTL DEF Spec

\* No wakeup is lost and the value counts the waiters, although the status is
\* written to RUNNING outside the semaphore's lock.
THEOREM SemaphoreSafety == ASSUME NoTeardown PROVE Spec => [](NoLostWakeup /\ SemCount)
<1>1. Init => SafeInv
  BY SafeInit
<1>2. SafeInv /\ [Next]_vars => SafeInv'
  BY SafeNext
<1>3. SafeInv => NoLostWakeup /\ SemCount
  BY DEF SafeInv
<1> QED BY <1>1, <1>2, <1>3, PTL DEF Spec

\* No CPU moves to the stack of a thread that is blocked.
THEOREM BlockedStayOff == ASSUME NoTeardown PROVE Spec => WaitingNotResumed
<1> DEFINE A == \A c \in Cpus : stack'[c] # stack[c] => status[stack'[c]] \in {"RUNNING", "IDLE"}
<1>1. Init => SafeInv
  BY SafeInit
<1>2. SafeInv /\ [Next]_vars => SafeInv'
  BY SafeNext
<1>3. SafeInv /\ [Next]_vars => [A]_vars
  <2> SUFFICES ASSUME SafeInv, Next PROVE A
    OBVIOUS
  <2>1. PICK c \in Cpus : Step(c)
    BY DEF Next
  <2>2. CASE Iret(c)
    <3>1. /\ mode[c] = "iret"
          /\ \A d \in Cpus : stack'[d] # stack[d] => d = c /\ stack'[d] = current[c]
      BY <2>2 DEF Iret, SafeInv, PlaceInv, TypeOK
    <3>2. status[current[c]] \in {"RUNNING", "IDLE"}
      BY <3>1 DEF SafeInv, RunInv, PlaceInv, CallInv, TypeOK
    <3> QED BY <3>1, <3>2
  <2>4. CASE Step(c) /\ ~Iret(c)
    <3>1. stack' = stack
      BY <2>4 DEF Step, CpuBoot, TimerTrap, Yield, Handler, ContextSave, SchedLock, ScanNext,
         PickIdle, Pick, Call, SemWait, SemSignal, Wake, Create, Teardown, Throw, cpuVars
    <3> QED BY <3>1
  <2> QED BY <2>1, <2>2, <2>4
<1> QED BY <1>1, <1>2, <1>3, PTL DEF Spec, WaitingNotResumed

-----------------------------------------------------------------------------
(* The semaphores implement module Semaphore. *)

LEMMA AbsInitStep == ASSUME NoTeardown, Init PROVE Abs!AbsInit
<1>1. \A s \in Sems : SemInit[s] \in Nat /\ (IF SemInit[s] > 0 THEN SemInit[s] ELSE 0) = SemInit[s]
  BY DEF NoTeardown, KmtAssumption
<1>2. [s \in Sems |-> IF value[s] > 0 THEN value[s] ELSE 0] = SemInit
  BY <1>1 DEF Init, NoTeardown, KmtAssumption
<1>3. \A s \in Sems : Range(waiters[s]) = {}
  BY DEF Init, Range
<1> QED BY <1>2, <1>3 DEF Abs!AbsInit

LEMMA AbsNextStep ==
    ASSUME NoTeardown, SafeInv, [Next]_vars PROVE [Abs!AbsNext]_(Abs!absVars)
<1> DEFINE av == [s \in Sems |-> IF value[s] > 0 THEN value[s] ELSE 0]
           bl == [s \in Sems |-> Range(waiters[s])]
<1> USE DEF SafeInv, PlaceInv
<1>0. /\ waiters \in [Sems -> Seq(Tasks)] /\ value \in [Sems -> Int]
      /\ \A s \in Sems : /\ IsInjective(waiters[s])
                         /\ Len(waiters[s]) = IF value[s] < 0 THEN -value[s] ELSE 0
  BY DEF TypeOK, NoLostWakeup, SemCount
<1>1. ASSUME UNCHANGED <<value, waiters>> PROVE UNCHANGED Abs!absVars
  BY <1>1 DEF Abs!absVars
<1>2. ASSUME NEW t \in Tasks, status[t] # "WAITING" PROVE Abs!Free(t)
  BY <1>2 DEF Abs!Free, NoLostWakeup, BlockedAt
<1>3. ASSUME NEW c \in Cpus, NEW s \in Sems, SemWait(c, s) PROVE Abs!P(stack[c], s)
  <2>1. stack[c] \in Tasks /\ stack[c] = current[c] /\ status[stack[c]] = "RUNNING"
    BY <1>3 DEF SemWait, Calls, ModeInv, RunInv
  <2>2. Abs!Free(stack[c])
    BY <1>2, <2>1
  <2>3. value' = [value EXCEPT ![s] = value[s] - 1] /\ value[s] \in Int
    BY <1>0, <1>3 DEF SemWait
  <2>4. CASE value[s] - 1 < 0
    <3>1. waiters' = [waiters EXCEPT ![s] = Append(waiters[s], stack[c])]
      BY <1>3, <2>1, <2>4 DEF SemWait
    <3>2. Range(Append(waiters[s], stack[c])) = Range(waiters[s]) \cup {stack[c]}
      BY <1>0, <2>1, AppendElems
    <3>3. ~(av[s] > 0) /\ av' = av
      <4>1. ~(value[s] > 0) /\ ~(value[s] - 1 > 0)
        BY <2>3, <2>4
      <4> QED BY <1>0, <2>3, <4>1
    <3>4. bl' = [bl EXCEPT ![s] = bl[s] \cup {stack[c]}]
      BY <1>0, <3>1, <3>2
    <3> QED BY <2>2, <3>3, <3>4 DEF Abs!P
  <2>5. CASE ~(value[s] - 1 < 0)
    <3>1. waiters' = waiters
      BY <1>3, <2>5 DEF SemWait
    <3>2. value[s] > 0 /\ (IF value[s] - 1 > 0 THEN value[s] - 1 ELSE 0) = value[s] - 1
      BY <2>3, <2>5
    <3>3. av[s] > 0 /\ av' = [av EXCEPT ![s] = av[s] - 1]
      BY <1>0, <2>3, <3>2
    <3> QED BY <2>2, <3>1, <3>3 DEF Abs!P
  <2> QED BY <2>4, <2>5
<1>4. ASSUME NEW c \in Cpus, NEW s \in Sems, SemSignal(c, s) PROVE Abs!V(stack[c], s)
  <2>1. stack[c] \in Tasks /\ status[stack[c]] = "RUNNING"
    BY <1>4 DEF SemSignal, Calls, RunInv
  <2>2. Abs!Free(stack[c])
    BY <1>2, <2>1
  <2>3. value' = [value EXCEPT ![s] = value[s] + 1] /\ value[s] \in Int
    BY <1>0, <1>4 DEF SemSignal
  <2>4. CASE waiters[s] = <<>>
    <3>1. waiters' = waiters
      BY <1>4, <2>4 DEF SemSignal, HasWaiter
    <3>2. bl[s] = {} /\ Len(waiters[s]) = 0
      BY <2>4 DEF Range
    <3>3. value[s] >= 0
      BY <1>0, <2>3, <3>2
    <3>4. av' = [av EXCEPT ![s] = av[s] + 1]
      <4>1. /\ value[s] + 1 > 0
            /\ (IF value[s] > 0 THEN value[s] ELSE 0) = value[s]
        BY <2>3, <3>3
      <4>2. av[s] + 1 = value[s] + 1
        BY <4>1
      <4> HIDE DEF av
      <4>3. av' = [x \in Sems |-> IF x = s THEN av[s] + 1 ELSE av[x]]
        BY <1>0, <2>3, <4>1, <4>2 DEF av
      <4> QED BY <4>3 DEF av
    <3> QED BY <2>2, <3>1, <3>2, <3>4 DEF Abs!V
  <2>5. CASE waiters[s] # <<>>
    <3>1. waiters' = [waiters EXCEPT ![s] = Front(waiters[s])]
      BY <1>4, <2>5 DEF SemSignal, HasWaiter
    <3>2. /\ Last(waiters[s]) \in bl[s]
          /\ Range(Front(waiters[s])) = bl[s] \ {Last(waiters[s])}
      BY <1>0, <2>5, FrontElems
    <3>3. value[s] < 0
      BY <1>0, <2>3, <2>5
    <3>4. av' = av
      BY <1>0, <2>3, <3>3
    <3>5. bl' = [bl EXCEPT ![s] = bl[s] \ {Last(waiters[s])}]
      BY <1>0, <3>1, <3>2
    <3> QED BY <2>2, <3>2, <3>4, <3>5 DEF Abs!V
  <2> QED BY <2>4, <2>5
<1>5. CASE UNCHANGED vars
  BY <1>1, <1>5 DEF vars, semVars
<1>6. CASE Next
  <2>1. PICK c \in Cpus : Step(c)
    BY <1>6 DEF Next
  <2>2. CASE \E s \in Sems : SemWait(c, s) \/ SemSignal(c, s)
    <3>1. stack[c] \in Tasks
      BY <2>2 DEF SemWait, SemSignal, Calls
    <3> QED BY <1>3, <1>4, <2>2, <3>1 DEF Abs!AbsNext
  <2>3. CASE Step(c) /\ ~\E s \in Sems : SemWait(c, s) \/ SemSignal(c, s)
    <3>1. UNCHANGED <<value, waiters>>
      BY <2>3 DEF Step, CpuBoot, TimerTrap, Yield, Handler, ContextSave, SchedLock, ScanNext,
         PickIdle, Pick, Iret, Call, Wake, Create, Teardown, Throw, semVars
    <3> QED BY <1>1, <3>1
  <2> QED BY <2>1, <2>2, <2>3
<1> QED BY <1>5, <1>6

\* kmt_sem_wait and kmt_sem_signal implement the abstract semaphore: a task
\* whose wait blocked makes no call before a signal has granted it.
THEOREM SemaphoreRefinement == ASSUME NoTeardown PROVE Spec => ImplementsSemaphore
<1>1. Init => SafeInv /\ Abs!AbsInit
  BY SafeInit, AbsInitStep
<1>2. SafeInv /\ [Next]_vars => SafeInv'
  BY SafeNext
<1>3. SafeInv /\ [Next]_vars => [Abs!AbsNext]_(Abs!absVars)
  BY AbsNextStep
<1> QED BY <1>1, <1>2, <1>3, PTL DEF Spec, ImplementsSemaphore, Abs!AbsSpec

HIDE DEF Threads, Queued, Enque


-----------------------------------------------------------------------------
(* The thread manager under the demo. *)

\* The demo's steps are steps of the thread manager.
LEMMA DemoStep ==
    ASSUME DemoNext PROVE [Next]_vars
<1>1. ASSUME NEW c \in Cpus, DemoP(c) PROVE Next
  BY <1>1, DemoAssumption DEF DemoP, DemoNext, Next, Step, Call, Takes
<1>2. ASSUME NEW c \in Cpus, DemoPutc(c) PROVE UNCHANGED vars
  BY <1>2 DEF DemoPutc
<1>3. ASSUME NEW c \in Cpus, DemoV(c) PROVE Next
  BY <1>3, DemoAssumption DEF DemoV, DemoNext, Next, Step, Call, Gives
<1>4. ASSUME NEW c \in Cpus, DemoWake(c) PROVE Next
  BY <1>4 DEF DemoWake, DemoNext, Next, Step, Call
<1>5. ASSUME NEW c \in Cpus, DemoKernel(c) PROVE Next
  BY <1>5 DEF DemoKernel, DemoNext, Next, Step
<1> QED BY <1>1, <1>2, <1>3, <1>4, <1>5 DEF DemoNext

\* A task that makes a call, or prints, is in no wait list.
LEMMA CallerFree ==
    ASSUME SafeInv, NEW c \in Cpus, Calls(c)
    PROVE  /\ stack[c] \in Tasks /\ current[c] = stack[c]
           /\ \A s \in Sems : stack[c] \notin Range(waiters[s])
<1>1. stack[c] \in Tasks /\ mode[c] = "user" /\ pc[stack[c]] = "run"
  BY DEF Calls
<1>2. current[c] = stack[c] /\ status[stack[c]] = "RUNNING"
  BY <1>1 DEF SafeInv, PlaceInv, ModeInv, RunInv
<1>3. BlockedAt(stack[c]) = {}
  BY <1>1, <1>2 DEF SafeInv, NoLostWakeup
<1> QED BY <1>1, <1>2, <1>3 DEF BlockedAt

-----------------------------------------------------------------------------
(* The tasks that hold a unit. *)

\* Whoever waits is not the one that takes or gives, so that the holders
\* change by one task at a time.
LEMMA HoldersOf ==
    ASSUME NEW t
    PROVE  /\ t \in Holders <=> /\ t \in Tasks /\ at[t] # "P"
                                /\ \A s \in Sems : t \notin Range(waiters[s])
           /\ t \in OpenHolders <=>
                t \in Holders /\ at[t] = IF t \in Producers THEN "V" ELSE "putc"
BY DEF Holders, OpenHolders, Granted

LEMMA CountAdd ==
    ASSUME NEW S, NEW x, IsFiniteSet(S), x \notin S
    PROVE  IsFiniteSet(S \cup {x}) /\ Cardinality(S \cup {x}) = Cardinality(S) + 1
BY FS_AddElement

LEMMA CountRemove ==
    ASSUME NEW S, NEW x \in S, IsFiniteSet(S)
    PROVE  IsFiniteSet(S \ {x}) /\ Cardinality(S \ {x}) = Cardinality(S) - 1
BY FS_RemoveElement

\* Replacing one task by another keeps the number.
LEMMA CountSwap ==
    ASSUME NEW S, NEW x \in S, NEW y, IsFiniteSet(S), y \notin S
    PROVE  /\ IsFiniteSet((S \ {x}) \cup {y})
           /\ Cardinality((S \ {x}) \cup {y}) = Cardinality(S)
<1>1. IsFiniteSet(S \ {x}) /\ Cardinality(S \ {x}) = Cardinality(S) - 1
  BY CountRemove
<1>2. y \notin S \ {x}
  OBVIOUS
<1>3. Cardinality(S) \in Int
  BY FS_CardinalityType
<1> QED BY <1>1, <1>2, <1>3, CountAdd

\* What of DemoInv a step of the thread manager and its program has to keep.
LEMMA DemoFacts ==
    ASSUME DemoInv
    PROVE  /\ SafeInv /\ PlaceOfWaiters /\ at \in [Tasks -> Places]
           /\ value \in [Sems -> Int] /\ waiters \in [Sems -> Seq(Tasks)]
           /\ IsFiniteSet(Holders) /\ IsFiniteSet(OpenHolders)
           /\ Cardinality(Holders) \in Nat /\ Cardinality(OpenHolders) \in Nat
           /\ empty \in Sems /\ fill \in Sems /\ empty # fill
           /\ Depth = Avail(empty) + Avail(fill) + Cardinality(Holders)
           /\ open = Avail(fill) + Cardinality(OpenHolders)
<1>1. OpenHolders \subseteq Holders
  BY DEF OpenHolders
<1>2. IsFiniteSet(Holders) /\ IsFiniteSet(OpenHolders)
  BY <1>1, FS_Subset DEF DemoInv
<1>3. Cardinality(Holders) \in Nat /\ Cardinality(OpenHolders) \in Nat
  BY <1>2, FS_CardinalityType
<1>4. SafeInv /\ value \in [Sems -> Int] /\ waiters \in [Sems -> Seq(Tasks)]
  BY DEF DemoInv, SafeInv, PlaceInv, TypeOK
<1> QED BY <1>2, <1>3, <1>4, DemoAssumption DEF DemoInv, OpenCount

LEMMA DemoStart == ASSUME NoTeardown, DemoInit PROVE DemoInv
<1>1. SafeInv
  BY SafeInit DEF DemoInit
<1>2. at \in [Tasks -> Places]
  BY DEF DemoInit, Places
<1>3. \A s \in Sems : Range(waiters[s]) = {}
  BY DEF DemoInit, Init, Range
<1>4. Holders = {} /\ OpenHolders = {}
  BY DEF DemoInit, Holders, OpenHolders, Granted
<1>5. Cardinality(Holders) = 0 /\ Cardinality(OpenHolders) = 0 /\ IsFiniteSet(Holders)
  BY <1>4, FS_EmptySet
<1>6. Avail(empty) = Depth /\ Avail(fill) = 0 /\ Depth \in Nat
  BY DemoAssumption DEF DemoInit, Init, Avail
<1> QED BY <1>1, <1>2, <1>3, <1>5, <1>6 DEF DemoInv, PlaceOfWaiters, OpenCount, DemoInit

\* P: the caller gets a unit, or waits for one.
LEMMA DemoPInv ==
    ASSUME DemoInv, SafeInv', NEW c \in Cpus, DemoP(c)
    PROVE  DemoInv'
<1> DEFINE t == stack[c]
           s == Takes(t)
<1>1. /\ SafeInv /\ PlaceOfWaiters /\ at \in [Tasks -> Places]
      /\ value \in [Sems -> Int] /\ waiters \in [Sems -> Seq(Tasks)]
      /\ IsFiniteSet(Holders) /\ IsFiniteSet(OpenHolders)
      /\ Cardinality(Holders) \in Nat /\ Cardinality(OpenHolders) \in Nat
      /\ empty \in Sems /\ fill \in Sems /\ empty # fill
      /\ Depth = Avail(empty) + Avail(fill) + Cardinality(Holders)
      /\ open = Avail(fill) + Cardinality(OpenHolders)
  BY DemoFacts
<1>2. /\ t \in Tasks /\ current[c] = t /\ at[t] = "P"
      /\ \A x \in Sems : t \notin Range(waiters[x])
  BY <1>1, CallerFree DEF DemoP
<1>3. s = (IF t \in Producers THEN empty ELSE fill) /\ s \in Sems
  BY <1>1 DEF Takes
<1>4. /\ at' = [at EXCEPT ![t] = "putc"] /\ open' = open
      /\ value' = [value EXCEPT ![s] = @ - 1]
      /\ IF value[s] - 1 < 0
         THEN waiters' = [waiters EXCEPT ![s] = Append(@, t)]
         ELSE waiters' = waiters
  BY <1>2 DEF DemoP, SemWait
<1>5. at' \in [Tasks -> Places]
  BY <1>1, <1>2, <1>4 DEF Places
<1>6. t \notin Holders /\ t \notin OpenHolders
  BY <1>2, HoldersOf
<1> HIDE DEF s, t
<1>7. CASE value[s] - 1 < 0
  <2>1. \A x \in Sems : Range(waiters'[x]) = IF x = s THEN Range(waiters[x]) \cup {t}
                                                       ELSE Range(waiters[x])
    <3>1. \A x \in Sems : waiters'[x] = IF x = s THEN Append(waiters[s], t) ELSE waiters[x]
      BY <1>1, <1>3, <1>4, <1>7
    <3>2. waiters[s] \in Seq(Tasks)
      BY <1>1, <1>3
    <3>3. Range(Append(waiters[s], t)) = Range(waiters[s]) \cup {t}
      BY <1>2, <3>2, AppendElems
    <3> QED BY <3>1, <3>3
  <2>2. PlaceOfWaiters'
    <3>1. ASSUME NEW x \in Sems, NEW u \in Range(waiters'[x])
          PROVE  at'[u] = "putc" /\ x = Takes(u)
      <4>1. CASE u = t
        <5>1. x = s
          BY <1>2, <2>1, <3>1, <4>1
        <5> QED BY <1>1, <1>2, <1>4, <4>1, <5>1 DEF s
      <4>2. CASE u # t
        <5>1. u \in Range(waiters[x])
          BY <2>1, <3>1, <4>2
        <5>2. at[u] = "putc" /\ x = Takes(u)
          BY <1>1, <5>1 DEF PlaceOfWaiters
        <5> QED BY <1>1, <1>4, <4>2, <5>2
      <4> QED BY <4>1, <4>2
    <3> QED BY <3>1 DEF PlaceOfWaiters, Takes
  <2>3. Holders' = Holders /\ OpenHolders' = OpenHolders
    <3>1. ASSUME NEW u \in Tasks PROVE Granted(u)' <=> Granted(u)
      <4>1. CASE u = t
        <5>1. t \in Range(waiters'[s])
          BY <1>3, <2>1
        <5> QED BY <1>2, <1>3, <4>1, <5>1 DEF Granted
      <4>2. CASE u # t
        <5>1. \A x \in Sems : u \in Range(waiters'[x]) <=> u \in Range(waiters[x])
          BY <2>1, <4>2
        <5> QED BY <1>1, <1>4, <4>2, <5>1 DEF Granted
      <4> QED BY <4>1, <4>2
    <3>2. Holders' = Holders
      BY <3>1 DEF Holders
    <3>3. \A u \in Holders : at'[u] = at[u]
      BY <1>1, <1>4, <1>6 DEF Holders
    <3> QED BY <3>2, <3>3 DEF OpenHolders
  <2>4. Avail(empty)' = Avail(empty) /\ Avail(fill)' = Avail(fill)
    BY <1>1, <1>3, <1>4, <1>7 DEF Avail
  <2> QED BY <1>1, <1>4, <1>5, <2>2, <2>3, <2>4 DEF DemoInv, OpenCount
<1>8. CASE ~(value[s] - 1 < 0)
  <2>1. waiters' = waiters
    BY <1>4, <1>8
  <2>2. PlaceOfWaiters'
    BY <1>1, <1>2, <1>4, <2>1 DEF PlaceOfWaiters, Takes
  <2>3. Holders' = Holders \cup {t}
    <3>1. \A u \in Tasks : Granted(u)' <=> Granted(u) \/ u = t
      BY <1>1, <1>2, <1>4, <2>1 DEF Granted
    <3> QED BY <1>2, <3>1 DEF Holders
  <2>4. OpenHolders' = IF t \in Producers THEN OpenHolders ELSE OpenHolders \cup {t}
    <3>1. \A u \in Tasks : at'[u] = IF u = t THEN "putc" ELSE at[u]
      BY <1>1, <1>4
    <3>2. Holders \subseteq Tasks
      BY DEF Holders
    <3> QED BY <1>2, <1>6, <2>3, <3>1, <3>2 DEF OpenHolders
  <2>5. IsFiniteSet(Holders') /\ Cardinality(Holders') = Cardinality(Holders) + 1
    BY <1>1, <1>6, <2>3, CountAdd
  <2>6. CASE t \in Producers
    <3>1. Avail(empty)' = Avail(empty) - 1 /\ Avail(fill)' = Avail(fill)
      BY <1>1, <1>3, <1>4, <1>8, <2>6 DEF Avail
    <3>2. Avail(empty) \in Int /\ Avail(fill) \in Int
      BY <1>1 DEF Avail
    <3>3. OpenHolders' = OpenHolders
      BY <2>4, <2>6
    <3>4. Depth = Avail(empty)' + Avail(fill)' + Cardinality(Holders')
      BY <1>1, <2>5, <3>1, <3>2
    <3>5. open' = Avail(fill)' + Cardinality(OpenHolders')
      BY <1>1, <1>4, <3>1, <3>3
    <3> QED BY <1>5, <2>2, <2>5, <3>4, <3>5 DEF DemoInv, OpenCount
  <2>7. CASE t \notin Producers
    <3>1. Avail(fill)' = Avail(fill) - 1 /\ Avail(empty)' = Avail(empty)
      BY <1>1, <1>3, <1>4, <1>8, <2>7 DEF Avail
    <3>2. Avail(empty) \in Int /\ Avail(fill) \in Int
      BY <1>1 DEF Avail
    <3>3. Cardinality(OpenHolders') = Cardinality(OpenHolders) + 1
      BY <1>1, <1>6, <2>4, <2>7, CountAdd
    <3>4. Depth = Avail(empty)' + Avail(fill)' + Cardinality(Holders')
      BY <1>1, <2>5, <3>1, <3>2
    <3>5. open' = Avail(fill)' + Cardinality(OpenHolders')
      BY <1>1, <1>4, <3>1, <3>2, <3>3
    <3> QED BY <1>5, <2>2, <2>5, <3>4, <3>5 DEF DemoInv, OpenCount
  <2> QED BY <2>6, <2>7
<1> QED BY <1>7, <1>8

\* _putc: a bracket is printed by a task that holds a unit.
LEMMA DemoPutcInv ==
    ASSUME DemoInv, SafeInv', NEW c \in Cpus, DemoPutc(c)
    PROVE  DemoInv'
<1> DEFINE t == stack[c]
<1>1. /\ SafeInv /\ PlaceOfWaiters /\ at \in [Tasks -> Places]
      /\ IsFiniteSet(Holders) /\ IsFiniteSet(OpenHolders)
      /\ Cardinality(Holders) \in Nat /\ Cardinality(OpenHolders) \in Nat
      /\ Depth = Avail(empty) + Avail(fill) + Cardinality(Holders)
      /\ open = Avail(fill) + Cardinality(OpenHolders)
  BY DemoFacts
<1>2. t \in Tasks /\ at[t] = "putc" /\ \A x \in Sems : t \notin Range(waiters[x])
  BY <1>1, CallerFree DEF DemoPutc
<1>3. /\ at' = [at EXCEPT ![t] = "V"] /\ waiters' = waiters /\ value' = value
      /\ open' = open + IF t \in Producers THEN 1 ELSE -1
  BY DEF DemoPutc, vars, semVars
<1>4. at' \in [Tasks -> Places]
  BY <1>1, <1>2, <1>3 DEF Places
<1>5. t \in Holders /\ (t \in OpenHolders <=> t \notin Producers)
  BY <1>2, HoldersOf
<1> HIDE DEF t
<1>6. PlaceOfWaiters'
  BY <1>1, <1>2, <1>3 DEF PlaceOfWaiters, Takes
<1>7. Holders' = Holders
  <2>1. \A u \in Tasks : Granted(u)' <=> Granted(u)
    BY <1>1, <1>2, <1>3 DEF Granted
  <2> QED BY <2>1 DEF Holders
<1>8. OpenHolders' = IF t \in Producers THEN OpenHolders \cup {t} ELSE OpenHolders \ {t}
  <2>1. \A u \in Tasks : at'[u] = IF u = t THEN "V" ELSE at[u]
    BY <1>1, <1>3
  <2>2. Holders \subseteq Tasks
    BY DEF Holders
  <2> QED BY <1>2, <1>5, <1>7, <2>1, <2>2 DEF OpenHolders
<1>9. Avail(empty)' = Avail(empty) /\ Avail(fill)' = Avail(fill) /\ Avail(fill) \in Int
  BY <1>3, DemoFacts DEF Avail
<1>10. open' = Avail(fill)' + Cardinality(OpenHolders')
  <2>1. CASE t \in Producers
    <3>1. Cardinality(OpenHolders') = Cardinality(OpenHolders) + 1
      BY <1>1, <1>5, <1>8, <2>1, CountAdd
    <3> QED BY <1>1, <1>3, <1>9, <2>1, <3>1
  <2>2. CASE t \notin Producers
    <3>1. Cardinality(OpenHolders') = Cardinality(OpenHolders) - 1
      BY <1>1, <1>5, <1>8, <2>2, CountRemove
    <3> QED BY <1>1, <1>3, <1>9, <2>2, <3>1
  <2> QED BY <2>1, <2>2
<1> QED BY <1>1, <1>4, <1>6, <1>7, <1>9, <1>10 DEF DemoInv, OpenCount

\* V: the unit goes to the task that has waited shortest, or is available.
LEMMA DemoVInv ==
    ASSUME DemoInv, SafeInv', NEW c \in Cpus, DemoV(c)
    PROVE  DemoInv'
<1> DEFINE t == stack[c]
           s == Gives(t)
           u == Last(waiters[s])
<1>1. /\ SafeInv /\ PlaceOfWaiters /\ at \in [Tasks -> Places]
      /\ value \in [Sems -> Int] /\ waiters \in [Sems -> Seq(Tasks)]
      /\ IsFiniteSet(Holders) /\ IsFiniteSet(OpenHolders)
      /\ Cardinality(Holders) \in Nat /\ Cardinality(OpenHolders) \in Nat
      /\ empty \in Sems /\ fill \in Sems /\ empty # fill
      /\ Depth = Avail(empty) + Avail(fill) + Cardinality(Holders)
      /\ open = Avail(fill) + Cardinality(OpenHolders)
  BY DemoFacts
<1>2. /\ t \in Tasks /\ current[c] = t /\ at[t] = "V"
      /\ \A x \in Sems : t \notin Range(waiters[x])
  BY <1>1, CallerFree DEF DemoV
<1>3. s = (IF t \in Producers THEN fill ELSE empty) /\ s \in Sems
  BY <1>1 DEF Gives
<1>4. /\ at' = [at EXCEPT ![t] = "P"] /\ open' = open
      /\ value' = [value EXCEPT ![s] = @ + 1]
      /\ waiters' = IF waiters[s] # <<>> THEN [waiters EXCEPT ![s] = Front(@)]
                                         ELSE waiters
  BY DEF DemoV, SemSignal, HasWaiter
<1>5. at' \in [Tasks -> Places]
  BY <1>1, <1>2, <1>4 DEF Places
<1>6. t \in Holders /\ (t \in OpenHolders <=> t \in Producers)
  BY <1>2, HoldersOf
<1>7. /\ waiters[s] \in Seq(Tasks) /\ IsInjective(waiters[s]) /\ value[s] \in Int
      /\ Len(waiters[s]) = IF value[s] < 0 THEN -value[s] ELSE 0
  BY <1>1, <1>3 DEF SafeInv, NoLostWakeup, SemCount
<1>8. Avail(empty) \in Int /\ Avail(fill) \in Int
  BY <1>1 DEF Avail
<1> HIDE DEF t, s, u
<1>9. \A x \in Tasks : at'[x] = IF x = t THEN "P" ELSE at[x]
  BY <1>1, <1>4
<1>10. Holders \subseteq Tasks
  BY DEF Holders
<1>11. CASE waiters[s] = <<>>
  <2>1. waiters' = waiters /\ value[s] >= 0
    BY <1>4, <1>7, <1>11
  <2>2. PlaceOfWaiters'
    BY <1>1, <1>2, <1>4, <2>1 DEF PlaceOfWaiters, Takes
  <2>3. Holders' = Holders \ {t}
    <3>1. \A x \in Tasks : Granted(x)' <=> Granted(x) /\ x # t
      BY <1>2, <1>9, <2>1 DEF Granted
    <3> QED BY <3>1 DEF Holders
  <2>4. OpenHolders' = OpenHolders \ {t}
    BY <1>9, <1>10, <2>3 DEF OpenHolders
  <2>5. IsFiniteSet(Holders') /\ Cardinality(Holders') = Cardinality(Holders) - 1
    BY <1>1, <1>6, <2>3, CountRemove
  <2>6. \A x \in Sems : Avail(x)' = IF x = s THEN Avail(x) + 1 ELSE Avail(x)
    <3>1. \A x \in Sems : value'[x] = IF x = s THEN value[s] + 1 ELSE value[x]
      BY <1>1, <1>3, <1>4
    <3> QED BY <1>7, <2>1, <3>1 DEF Avail
  <2>7. Depth = Avail(empty)' + Avail(fill)' + Cardinality(Holders')
    <3>1. \/ Avail(empty)' = Avail(empty) + 1 /\ Avail(fill)' = Avail(fill)
          \/ Avail(fill)' = Avail(fill) + 1 /\ Avail(empty)' = Avail(empty)
      BY <1>1, <1>3, <2>6
    <3>2. Avail(empty)' + Avail(fill)' = Avail(empty) + Avail(fill) + 1
      BY <1>8, <3>1
    <3>3. /\ Depth = Avail(empty) + Avail(fill) + Cardinality(Holders)
          /\ Cardinality(Holders) \in Int
      BY <1>1
    <3>4. Avail(empty)' \in Int /\ Avail(fill)' \in Int
      BY <1>8, <3>1
    <3> QED BY <1>8, <2>5, <3>2, <3>3, <3>4
  <2>8. open' = Avail(fill)' + Cardinality(OpenHolders')
    <3>1. CASE t \in Producers
      <4>1. Cardinality(OpenHolders') = Cardinality(OpenHolders) - 1
        BY <1>1, <1>6, <2>4, <3>1, CountRemove
      <4> QED BY <1>1, <1>3, <1>4, <1>8, <2>6, <3>1, <4>1
    <3>2. CASE t \notin Producers
      <4>1. OpenHolders' = OpenHolders
        BY <1>6, <2>4, <3>2
      <4> QED BY <1>1, <1>3, <1>4, <1>8, <2>6, <3>2, <4>1
    <3> QED BY <3>1, <3>2
  <2> QED BY <1>5, <2>2, <2>5, <2>7, <2>8 DEF DemoInv, OpenCount
<1>12. CASE waiters[s] # <<>>
  <2>1. /\ u \in Range(waiters[s]) /\ u \in Tasks
        /\ Range(Front(waiters[s])) = Range(waiters[s]) \ {u}
    BY <1>7, <1>12, FrontElems DEF u
  <2>2. \A x \in Sems : Range(waiters'[x]) = IF x = s THEN Range(waiters[x]) \ {u}
                                                      ELSE Range(waiters[x])
    BY <1>1, <1>3, <1>4, <1>12, <2>1
  <2>3. at[u] = "putc" /\ s = Takes(u) /\ u # t
    BY <1>1, <1>2, <1>3, <2>1 DEF PlaceOfWaiters
  \* It waits for nothing else, and is a producer just if t is a consumer.
  <2>4. /\ \A x \in Sems : u \notin Range(waiters'[x])
        /\ u \in Producers <=> t \notin Producers
    BY <1>1, <1>3, <2>2, <2>3 DEF PlaceOfWaiters, Takes
  <2>5. PlaceOfWaiters'
    <3>1. ASSUME NEW x \in Sems, NEW y \in Range(waiters'[x])
          PROVE  at'[y] = "putc" /\ x = Takes(y)
      <4>1. y \in Range(waiters[x])
        BY <2>2, <3>1
      <4>2. at[y] = "putc" /\ x = Takes(y) /\ y # t
        BY <1>1, <1>2, <4>1 DEF PlaceOfWaiters
      <4> QED BY <1>1, <1>4, <4>2
    <3> QED BY <3>1 DEF PlaceOfWaiters, Takes
  <2>6. u \notin Holders
    BY <1>3, <2>1, HoldersOf
  <2>7. Holders' = (Holders \ {t}) \cup {u}
    <3>1. ASSUME NEW x \in Tasks PROVE Granted(x)' <=> (Granted(x) /\ x # t) \/ x = u
      <4>1. CASE x = u
        BY <1>9, <2>1, <2>3, <2>4, <4>1 DEF Granted
      <4>2. CASE x # u
        <5>1. \A y \in Sems : x \in Range(waiters'[y]) <=> x \in Range(waiters[y])
          BY <2>2, <4>2
        <5> QED BY <1>9, <4>2, <5>1 DEF Granted
      <4> QED BY <4>1, <4>2
    <3> QED BY <2>1, <3>1 DEF Holders
  <2>8. OpenHolders' = IF t \in Producers THEN (OpenHolders \ {t}) \cup {u}
                                          ELSE OpenHolders
    <3>1. ASSUME NEW x
          PROVE  x \in OpenHolders' <=> \/ x \in OpenHolders /\ x # t
                                        \/ x = u /\ u \notin Producers
      <4>1. x \in OpenHolders' <=>
              x \in Holders' /\ at'[x] = IF x \in Producers THEN "V" ELSE "putc"
        BY DEF OpenHolders
      <4>2. x \in OpenHolders <=>
              x \in Holders /\ at[x] = IF x \in Producers THEN "V" ELSE "putc"
        BY DEF OpenHolders
      <4>3. at'[u] = "putc"
        BY <1>9, <2>1, <2>3
      <4> QED BY <1>9, <1>10, <2>3, <2>6, <2>7, <4>1, <4>2, <4>3
    <3> QED BY <1>6, <2>4, <3>1
  <2>9. IsFiniteSet(Holders') /\ Cardinality(Holders') = Cardinality(Holders)
    BY <1>1, <1>6, <2>6, <2>7, CountSwap
  <2>10. Cardinality(OpenHolders') = Cardinality(OpenHolders)
    <3>1. CASE t \in Producers
      <4>1. u \notin OpenHolders /\ t \in OpenHolders
        BY <1>6, <2>6, <3>1 DEF OpenHolders
      <4> QED BY <1>1, <2>8, <3>1, <4>1, CountSwap
    <3>2. CASE t \notin Producers
      BY <2>8, <3>2
    <3> QED BY <3>1, <3>2
  <2>11. Avail(empty)' = Avail(empty) /\ Avail(fill)' = Avail(fill)
    <3>1. value[s] < 0
      BY <1>7, <1>12
    <3> QED BY <1>1, <1>3, <1>4, <3>1 DEF Avail
  <2> QED BY <1>1, <1>4, <1>5, <2>5, <2>9, <2>10, <2>11 DEF DemoInv, OpenCount
<1> QED BY <1>11, <1>12

\* The kernel's own steps leave the program alone.
LEMMA DemoKept ==
    ASSUME DemoInv, SafeInv', UNCHANGED <<at, open, value, waiters>>
    PROVE  DemoInv'
<1>1. Holders' = Holders
  BY DEF Holders, Granted
<1>2. OpenHolders' = OpenHolders
  BY <1>1 DEF OpenHolders
<1>3. PlaceOfWaiters' = PlaceOfWaiters
  BY DEF PlaceOfWaiters, Takes
<1>4. Avail(empty)' = Avail(empty) /\ Avail(fill)' = Avail(fill)
  BY DEF Avail
<1> QED BY <1>1, <1>2, <1>3, <1>4 DEF DemoInv, OpenCount

LEMMA DemoInvNext ==
    ASSUME NoTeardown, DemoInv, [DemoNext]_allVars PROVE DemoInv'
<1>1. [Next]_vars
  BY DemoStep DEF allVars
<1>2. SafeInv'
  BY <1>1, SafeNext DEF DemoInv
<1>3. ASSUME NEW c \in Cpus, DemoP(c) PROVE DemoInv'
  BY <1>2, <1>3, DemoPInv
<1>4. ASSUME NEW c \in Cpus, DemoPutc(c) PROVE DemoInv'
  BY <1>2, <1>4, DemoPutcInv
<1>5. ASSUME NEW c \in Cpus, DemoV(c) PROVE DemoInv'
  BY <1>2, <1>5, DemoVInv
<1>6. ASSUME NEW c \in Cpus, DemoWake(c) PROVE DemoInv'
  <2>1. UNCHANGED <<at, open, value, waiters>>
    BY <1>6 DEF DemoWake, Wake, demoVars, semVars
  <2> QED BY <1>2, <2>1, DemoKept
<1>7. ASSUME NEW c \in Cpus, DemoKernel(c) PROVE DemoInv'
  <2>1. UNCHANGED <<at, open, value, waiters>>
    BY <1>7 DEF DemoKernel, CpuBoot, TimerTrap, Yield, Handler, ContextSave, SchedLock,
                ScanNext, PickIdle, Pick, Iret, demoVars, semVars
  <2> QED BY <1>2, <2>1, DemoKept
<1>8. CASE UNCHANGED allVars
  <2>1. UNCHANGED <<at, open, value, waiters>>
    BY <1>8 DEF allVars, vars, demoVars, semVars
  <2> QED BY <1>2, <2>1, DemoKept
<1> QED BY <1>3, <1>4, <1>5, <1>6, <1>7, <1>8 DEF DemoNext

LEMMA DemoInvariant == ASSUME NoTeardown PROVE DemoSpec => []DemoInv
<1>1. DemoInit => DemoInv
  BY DemoStart
<1>2. DemoInv /\ [DemoNext]_allVars => DemoInv'
  BY DemoInvNext
<1> QED BY <1>1, <1>2, PTL DEF DemoSpec

-----------------------------------------------------------------------------
(* The properties.                                                         *)

\* A unit of the two semaphores is available, or granted to one task; V and
\* the wakeups of kmt.c lose none and make none up.
THEOREM DemoConserves == ASSUME NoTeardown PROVE DemoSpec => []Conserved
<1>1. DemoInv => Conserved
  BY DEF DemoInv, Conserved, Avail, Holders
<1> QED BY <1>1, DemoInvariant, PTL

\* What producer and consumer of os.c print is the beginning of a well nested
\* sequence at most Depth deep, with any number of each on any number of CPUs.
THEOREM DemoWellNested == ASSUME NoTeardown PROVE DemoSpec => []WellNested
<1>1. DemoInv => WellNested
  <2> SUFFICES ASSUME DemoInv PROVE WellNested
    OBVIOUS
  <2>1. /\ IsFiniteSet(Holders) /\ value \in [Sems -> Int]
        /\ Cardinality(Holders) \in Nat /\ Cardinality(OpenHolders) \in Nat
        /\ empty \in Sems /\ fill \in Sems
        /\ Depth = Avail(empty) + Avail(fill) + Cardinality(Holders)
        /\ open = Avail(fill) + Cardinality(OpenHolders)
    BY DemoFacts
  <2>2. OpenHolders \subseteq Holders
    BY DEF OpenHolders
  <2>3. Cardinality(OpenHolders) <= Cardinality(Holders)
    BY <2>1, <2>2, FS_Subset
  <2>4. Avail(empty) \in Nat /\ Avail(fill) \in Nat
    BY <2>1 DEF Avail
  <2> QED BY <2>1, <2>3, <2>4 DEF WellNested
<1> QED BY <1>1, DemoInvariant, PTL

\* The demo uses the thread manager as Kmt says: no assertion of it fails.
THEOREM DemoNeverPanics == ASSUME NoTeardown PROVE DemoSpec => []NoPanic
<1>1. DemoInv => NoPanic
  BY DEF DemoInv, SafeInv, NoPanic
<1> QED BY <1>1, DemoInvariant, PTL

==============================================================================
