------------------------------ MODULE SpinLock ------------------------------
(***************************************************************************)
(* The spin locks of the kernel at the grain of single memory accesses:    *)
(* kmt_spin_lock and kmt_spin_unlock of OSkernel/kernel/src/kmt.c with     *)
(* pushcli, popcli and holding, run by threads, which a timer interrupt    *)
(* may move to another CPU wherever interrupts are on, and by the trap     *)
(* handlers of each CPU, which run with interrupts off.                    *)
(*                                                                         *)
(* pushcli and popcli inside holding() are nested in those of its caller   *)
(* and cancel out.  The stores of a CPU become visible in program order:   *)
(* every store to a lock is followed by __sync_synchronize or _atomic_xchg *)
(* before the next one.                                                    *)
(*                                                                         *)
(* A definition Name_suffix states the definition Name that follows it the *)
(* way a plausible mistake would; no action uses it.                       *)
(***************************************************************************)
EXTENDS Integers, FiniteSets

CONSTANTS
    Cpus,       \* the processors
    Threads,    \* the threads that use locks
    Locks,      \* the locks, with queue_lk among them
    QueueLk,    \* queue_lk, which is never held while another is acquired
    Below,      \* pairs <<l, k>>: a thread may acquire k while it holds l
    Idle        \* stands for an idle thread, which takes no lock

ASSUME LockAssumption ==
    /\ IsFiniteSet(Cpus)
    /\ Cpus \cap Threads = {}
    /\ Idle \notin Cpus \cup Threads
    /\ QueueLk \in Locks
    /\ Below \subseteq Locks \X Locks

\* The trap handlers that run on CPU c are named by c.
Actors == Cpus \cup Threads

VARIABLES
    intr,       \* the interrupt flag of a CPU
    ncli,       \* cpu_local[c].ncli
    intena,     \* cpu_local[c].intena
    run,        \* the thread a CPU runs, or interrupted to run its handlers
    locked,     \* lk->locked
    owner,      \* lk->cpu, a CPU or Idle for NULL
    pc,         \* the next access of an actor inside a lock operation
    lock,       \* the lock that operation is about
    flag,       \* pushcli's local variable intr
    held,       \* the locks an actor has and has not begun to release
    phase,      \* where an actor is in kmt_create or in the trap handlers
    panicked    \* a panic(), or the endless loop of a second acquisition

cpuVars == <<intr, ncli, intena, run>>
lockVars == <<locked, owner>>
actorVars == <<pc, lock, flag, held, phase>>
vars == <<cpuVars, lockVars, actorVars, panicked>>

Acquiring == {"cli", "count", "held1", "held2", "spin", "own"}
Releasing == {"rel2", "clear", "release", "pop"}
Phases == {"none", "cli", "create", "created", "save", "sched", "done"}

\* The actor whose code CPU c executes.
InTrap(c) == phase[c] # "none"
On(c) == IF InTrap(c) THEN c ELSE run[c]

\* Steps of the actor a on CPU c.
At(c, a, p) == a = On(c) /\ a \in Actors /\ pc[a] = p
Goto(a, p) == pc' = [pc EXCEPT ![a] = p]

Init ==
    /\ intr = [c \in Cpus |-> TRUE]
    /\ ncli = [c \in Cpus |-> 0]
    /\ intena = [c \in Cpus |-> TRUE]
    /\ run = [c \in Cpus |-> Idle]
    /\ locked = [l \in Locks |-> FALSE]
    /\ owner = [l \in Locks |-> Idle]
    /\ pc = [a \in Actors |-> "out"]
    /\ lock = [a \in Actors |-> QueueLk]
    /\ flag = [a \in Actors |-> FALSE]
    /\ held = [a \in Actors |-> {}]
    /\ phase = [a \in Actors |-> "none"]
    /\ panicked = FALSE

-----------------------------------------------------------------------------
(* kmt_spin_lock. *)

\* Which locks the callers acquire: the handlers and kmt_create take queue_lk
\* once each time they get to it, and hold no other lock then; a thread takes
\* locks in the order of Below.
MayLock(a, l) ==
    CASE phase[a] \in {"create", "save", "sched"} -> l = QueueLk /\ held[a] = {}
      [] phase[a] = "none" -> l \notin held[a] /\ \A k \in held[a] : <<k, l>> \in Below
      [] OTHER -> FALSE

\* pushcli: int intr = _intr_read()
PushRead(c, a) ==
    /\ At(c, a, "out")
    /\ \E l \in Locks : MayLock(a, l) /\ lock' = [lock EXCEPT ![a] = l]
    /\ flag' = [flag EXCEPT ![a] = intr[c]]
    /\ Goto(a, "cli")
    /\ UNCHANGED <<cpuVars, lockVars, held, phase, panicked>>

\* pushcli: _intr_write(0)
PushCli(c, a) ==
    /\ At(c, a, "cli")
    /\ intr' = [intr EXCEPT ![c] = FALSE]
    /\ Goto(a, "count")
    /\ UNCHANGED <<ncli, intena, run, lockVars, lock, flag, held, phase, panicked>>

\* pushcli: the outermost call records the flag it found.
Outermost_always(c) == TRUE
Outermost(c) == ncli[c] = 0

Nested(c) == ncli[c] + 1

PushCount(c, a) ==
    /\ At(c, a, "count")
    /\ intena' = IF Outermost(c) THEN [intena EXCEPT ![c] = flag[a]] ELSE intena
    /\ ncli' = [ncli EXCEPT ![c] = Nested(c)]
    /\ Goto(a, "held1")
    /\ UNCHANGED <<intr, run, lockVars, lock, flag, held, phase, panicked>>

\* holding: lock->locked, then lock->cpu == mycpu(); a lock the CPU already
\* holds makes it loop for ever with interrupts off.
HoldingLocked(c, a) ==
    /\ At(c, a, "held1")
    /\ Goto(a, IF locked[lock[a]] THEN "held2" ELSE "spin")
    /\ UNCHANGED <<cpuVars, lockVars, lock, flag, held, phase, panicked>>

HoldingCpu(c, a) ==
    /\ At(c, a, "held2")
    /\ Goto(a, "spin")
    /\ panicked' = (owner[lock[a]] = c)
    /\ UNCHANGED <<cpuVars, lockVars, lock, flag, held, phase>>

\* The exchange of _atomic_xchg(&lk->locked, 1) that finds 0, and one that
\* finds 1 and goes round the loop.
Free_owner(l) == owner[l] = Idle
Free(l) == ~locked[l]

Xchg(c, a) ==
    /\ At(c, a, "spin")
    /\ Free(lock[a])
    /\ locked' = [locked EXCEPT ![lock[a]] = TRUE]
    /\ Goto(a, "own")
    /\ UNCHANGED <<cpuVars, owner, lock, flag, held, phase, panicked>>

Spin(c, a) == At(c, a, "spin") /\ ~Free(lock[a]) /\ UNCHANGED vars

\* lk->cpu = mycpu(): the caller is in its critical section.
Own(c, a) ==
    /\ At(c, a, "own")
    /\ owner' = [owner EXCEPT ![lock[a]] = c]
    /\ held' = [held EXCEPT ![a] = @ \cup {lock[a]}]
    /\ Goto(a, "out")
    /\ UNCHANGED <<cpuVars, locked, lock, flag, phase, panicked>>

-----------------------------------------------------------------------------
(* kmt_spin_unlock. *)

\* holding, at the start of kmt_spin_unlock.
UnlockLocked(c, a) ==
    /\ At(c, a, "out")
    /\ \E l \in held[a] :
         /\ lock' = [lock EXCEPT ![a] = l]
         /\ panicked' = ~locked[l]
    /\ Goto(a, "rel2")
    /\ UNCHANGED <<cpuVars, lockVars, flag, held, phase>>

UnlockCpu(c, a) ==
    /\ At(c, a, "rel2")
    /\ Goto(a, "clear")
    /\ panicked' = (owner[lock[a]] # c)
    /\ UNCHANGED <<cpuVars, lockVars, lock, flag, held, phase>>

\* lk->cpu = NULL, before the lock is free.
OwnerCleared_kept(l) == owner[l]
OwnerCleared(l) == Idle

Clear(c, a) ==
    /\ At(c, a, "clear")
    /\ owner' = [owner EXCEPT ![lock[a]] = OwnerCleared(lock[a])]
    /\ Goto(a, "release")
    /\ UNCHANGED <<cpuVars, locked, lock, flag, held, phase, panicked>>

\* _atomic_xchg(&lk->locked, 0)
Freed_outermost(c) == ncli[c] > 1
Freed(c) == FALSE

Release(c, a) ==
    /\ At(c, a, "release")
    /\ locked' = [locked EXCEPT ![lock[a]] = Freed(c)]
    /\ held' = [held EXCEPT ![a] = @ \ {lock[a]}]
    /\ Goto(a, "pop")
    /\ UNCHANGED <<cpuVars, owner, lock, flag, phase, panicked>>

\* popcli turns interrupts on at the outermost level, if they were on.
Restores_always(c) == intena[c]
Restores(c) == ncli[c] = 1 /\ intena[c]

\* What the release of queue_lk ends: the enqueue of kmt_create, or the part
\* of a trap handler that needs the lock.
After == [none |-> "none", create |-> "created", save |-> "sched",
          sched |-> "done"]

Pop(c, a) ==
    /\ At(c, a, "pop")
    /\ panicked' = (intr[c] \/ ncli[c] < 1)
    /\ ncli' = [ncli EXCEPT ![c] = @ - 1]
    /\ intr' = [intr EXCEPT ![c] = Restores(c) \/ @]
    /\ phase' = [phase EXCEPT ![a] = After[@]]
    /\ Goto(a, "out")
    /\ UNCHANGED <<intena, run, lockVars, lock, flag, held>>

-----------------------------------------------------------------------------
(* kmt_create turns interrupts off and on again around its own use of      *)
(* queue_lk.                                                               *)

CreateRead(c, a) ==
    /\ At(c, a, "out") /\ a \in Threads
    /\ phase[a] = "none" /\ held[a] = {}
    /\ phase' = [phase EXCEPT ![a] = "cli"]
    /\ UNCHANGED <<cpuVars, lockVars, pc, lock, flag, held, panicked>>

\* _intr_write(0); _intr_read() found interrupts on, as no lock is held.
CreateCli(c, a) ==
    /\ At(c, a, "out")
    /\ phase[a] = "cli"
    /\ intr' = [intr EXCEPT ![c] = FALSE]
    /\ phase' = [phase EXCEPT ![a] = "create"]
    /\ UNCHANGED <<ncli, intena, run, lockVars, pc, lock, flag, held, panicked>>

\* if(intr) _intr_write(1)
CreateSti(c, a) ==
    /\ At(c, a, "out")
    /\ phase[a] = "created"
    /\ intr' = [intr EXCEPT ![c] = TRUE]
    /\ phase' = [phase EXCEPT ![a] = "none"]
    /\ UNCHANGED <<ncli, intena, run, lockVars, pc, lock, flag, held, panicked>>

-----------------------------------------------------------------------------
(* Traps. *)

\* A timer interrupt, or the int instruction of _yield: interrupts are off in
\* the handlers; kmt_context_save takes queue_lk unless last is NULL or idle.
Trap(c) ==
    /\ ~InTrap(c)
    /\ intr[c]
    /\ intr' = [intr EXCEPT ![c] = FALSE]
    /\ \E p \in {"save", "sched"} : phase' = [phase EXCEPT ![c] = p]
    /\ UNCHANGED <<ncli, intena, run, lockVars, pc, lock, flag, held, panicked>>

\* The iret: it resumes a thread no other CPU is at (StackExclusive of Kmt),
\* and every saved context has the interrupt flag set.
Resume(c) ==
    /\ phase[c] = "done"
    /\ pc[c] = "out"
    /\ \E t \in Threads \cup {Idle} :
         /\ t = Idle \/ \A d \in Cpus \ {c} : run[d] # t
         /\ run' = [run EXCEPT ![c] = t]
    /\ intr' = [intr EXCEPT ![c] = TRUE]
    /\ phase' = [phase EXCEPT ![c] = "none"]
    /\ UNCHANGED <<ncli, intena, lockVars, pc, lock, flag, held, panicked>>

LockStep(c, a) ==
    PushRead(c, a) \/ PushCli(c, a) \/ PushCount(c, a) \/ HoldingLocked(c, a)
    \/ HoldingCpu(c, a) \/ Xchg(c, a) \/ Spin(c, a) \/ Own(c, a)

UnlockStep(c, a) ==
    UnlockLocked(c, a) \/ UnlockCpu(c, a) \/ Clear(c, a) \/ Release(c, a)
    \/ Pop(c, a)

CreateStep(c, a) == CreateRead(c, a) \/ CreateCli(c, a) \/ CreateSti(c, a)

Next ==
    /\ ~panicked
    /\ \E c \in Cpus :
         \/ Trap(c)
         \/ Resume(c)
         \/ \E a \in Actors : LockStep(c, a) \/ UnlockStep(c, a) \/ CreateStep(c, a)

Spec == Init /\ [][Next]_vars

\* A CPU goes on with what it executes, a critical section ends, and a CPU
\* that spins for a lock that is free again and again gets it some day.
Continues(c) ==
    \E a \in Actors : \/ PushCli(c, a) \/ PushCount(c, a) \/ HoldingLocked(c, a)
                      \/ HoldingCpu(c, a) \/ Own(c, a) \/ UnlockCpu(c, a)
                      \/ Clear(c, a) \/ Release(c, a) \/ Pop(c, a)

Unlocks(c, l) == \E a \in Actors : UnlockLocked(c, a) /\ lock'[a] = l

Fairness ==
    \A c \in Cpus :
        /\ WF_vars(~panicked /\ Continues(c))
        /\ SF_vars(~panicked /\ \E a \in Actors : Xchg(c, a))
        /\ \A l \in Locks : SF_vars(~panicked /\ Unlocks(c, l))

FairSpec == Spec /\ Fairness

-----------------------------------------------------------------------------
(* Properties. *)

\* The type invariant of the lock state (kmt.c and common.h).
TypeOK ==
    /\ intr \in [Cpus -> BOOLEAN]
    /\ ncli \in [Cpus -> Nat]
    /\ intena \in [Cpus -> BOOLEAN]
    /\ run \in [Cpus -> Threads \cup {Idle}]
    /\ locked \in [Locks -> BOOLEAN]
    /\ owner \in [Locks -> Cpus \cup {Idle}]
    /\ pc \in [Actors -> {"out"} \cup Acquiring \cup Releasing]
    /\ lock \in [Actors -> Locks]
    /\ flag \in [Actors -> BOOLEAN]
    /\ held \in [Actors -> SUBSET Locks]
    /\ phase \in [Actors -> Phases]
    /\ panicked \in BOOLEAN

\* From the exchange that found the lock free to the one that frees it.
Holds(a, l) == l \in held[a] \/ (pc[a] = "own" /\ lock[a] = l)

\* One actor at a time is between its kmt_spin_lock and kmt_spin_unlock of a
\* lock, wherever the threads are interrupted and moved to.
MutualExclusion ==
    \A a, b \in Actors, l \in Locks : Holds(a, l) /\ Holds(b, l) => a = b

\* The panics of kmt_spin_unlock and popcli and the endless loop of
\* kmt_spin_lock are out of reach: lk->cpu names the CPU that holds the lock
\* as long as it holds it, and no other CPU ever.
NoPanic == ~panicked

\* Who holds a lock is executing, with interrupts off: it is never preempted,
\* so that no trap handler of its CPU can spin on the lock for ever.
HolderKeepsCpu ==
    \A a \in Actors, l \in Locks :
        Holds(a, l) => \E c \in Cpus : On(c) = a /\ ~intr[c]

\* kmt_spin_unlock restores the interrupt flag kmt_spin_lock found: on in a
\* thread, off in the handlers and in the middle of kmt_create, although
\* ncli and intena belong to a CPU and threads move between CPUs.
InterruptsRestored ==
    \A c \in Cpus :
        On(c) = Idle \/ (pc[On(c)] = "out" /\ held[On(c)] = {})
        => intr[c] = (On(c) = Idle \/ phase[On(c)] \in {"none", "cli"})

\* Every critical section ends.
SectionsEnd == \A l \in Locks : locked[l] ~> ~locked[l]
=============================================================================
