-------------------------------- MODULE Kmt --------------------------------
(***************************************************************************)
(* The thread manager of the multi-core kernel, OSkernel/kernel/src/kmt.c: *)
(* the run queue, the two trap handlers every trap runs in order           *)
(* (kmt_context_save, then kmt_schedule), kmt_create, kmt_teardown, and    *)
(* the semaphores.                                                         *)
(*                                                                         *)
(* Each CPU executes on the stack of some thread.  A trap (timer or yield) *)
(* turns interrupts off and runs the handlers on the stack of the thread   *)
(* it interrupted, until the iret that moves the CPU to the stack of the   *)
(* thread it picked.  CPUs interleave at every step; what a step does      *)
(* inside one critical section of queue_lk or of a semaphore's lock is     *)
(* atomic, except for the two loops of kmt_schedule, whose reads of a      *)
(* task's status race with writes made by other CPUs outside queue_lk.     *)
(* The locks themselves are the subject of module SpinLock.                *)
(*                                                                         *)
(* A definition Name_suffix states the definition Name that follows it the *)
(* way a plausible mistake would; no action uses it, it is there to show   *)
(* which property catches that mistake.                                    *)
(***************************************************************************)
EXTENDS Integers, Sequences, FiniteSets, SequencesExt

CONSTANTS
    Cpus,       \* the processors, _ncpu() <= MAX_CPU of them
    Tasks,      \* the task_t objects threads are created in
    Sems,       \* the semaphores
    SemInit,    \* the value kmt_sem_init gave each semaphore
    Boot,       \* the tasks os_init created, in order, before the CPUs start
    Victims,    \* the tasks some thread may pass to kmt_teardown
    MaxValue,   \* bound: no V when the value has reached MaxValue
    None        \* NULL

\* The idle thread of a CPU is named by the CPU: idles[c] is c.
Threads == Cpus \cup Tasks

ASSUME KmtAssumption ==
    /\ IsFiniteSet(Cpus)
    /\ Cpus \cap Tasks = {}
    /\ None \notin Threads
    /\ SemInit \in [Sems -> Nat]
    /\ Boot \in Seq(Tasks)
    /\ IsInjective(Boot)
    /\ Victims \subseteq Tasks
    /\ MaxValue \in Int

VARIABLES
    queue,      \* the list behind task_head, head first
    lk,         \* the CPU that holds queue_lk across steps, or None
    status,     \* task->status of every thread
    ctx,        \* task->context: NULL, a saved frame, or a frame in use
    current,    \* cpu_local[c].current
    last,       \* cpu_local[c].last
    stack,      \* the thread on whose stack the CPU executes
    mode,       \* where the CPU is: running its thread, or in a handler
    scan,       \* position of the loop of check_running_ulk
    value,      \* sem->value
    waiters,    \* the list behind sem->sem_head, oldest first
    pc,         \* where a thread is inside a call to the kmt module
    arg,        \* the task a thread is about to wake or to unlink
    panicked    \* an assertion of the kernel failed

cpuVars == <<current, last, stack, mode, scan>>
semVars == <<value, waiters>>
thrVars == <<pc, arg>>
vars == <<queue, lk, status, ctx, cpuVars, semVars, thrVars, panicked>>

Modes == {"off", "user", "save", "sched", "scan", "pick", "iret"}
Statuses == {"NEW", "RUNNING", "WAITING", "DEAD", "IDLE"}

Queued == Range(queue)

Init ==
    /\ queue = Boot
    /\ lk = None
    /\ status = [t \in Threads |-> IF t \in Cpus THEN "IDLE"
                                   ELSE IF t \in Range(Boot) THEN "RUNNING"
                                   ELSE "NEW"]
    /\ ctx = [t \in Threads |-> IF t \in Range(Boot) THEN "saved" ELSE "NULL"]
    /\ current = [c \in Cpus |-> c]
    /\ last = [c \in Cpus |-> None]
    /\ stack = [c \in Cpus |-> c]
    /\ mode = [c \in Cpus |-> "off"]
    /\ scan = [c \in Cpus |-> 1]
    /\ value = SemInit
    /\ waiters = [s \in Sems |-> <<>>]
    /\ pc = [t \in Threads |-> "run"]
    /\ arg = [t \in Threads |-> None]
    /\ panicked = FALSE

-----------------------------------------------------------------------------
(* Traps and the scheduler: steps of a CPU. *)

\* os_run turns interrupts on and loops: the CPU now runs its idle thread.
CpuBoot(c) ==
    /\ mode[c] = "off"
    /\ mode' = [mode EXCEPT ![c] = "user"]
    /\ UNCHANGED <<queue, lk, status, ctx, current, last, stack, scan,
                   semVars, thrVars, panicked>>

\* A timer interrupt arrives: threads run with interrupts on.
TimerTrap(c) ==
    /\ mode[c] = "user"
    /\ mode' = [mode EXCEPT ![c] = "save"]
    /\ UNCHANGED <<queue, lk, status, ctx, current, last, stack, scan,
                   semVars, thrVars, panicked>>

\* A blocking caller's status is written inside the semaphore's lock and not
\* at the _yield().
StatusAtYield_late(c) == [status EXCEPT ![current[c]] = "WAITING"]
StatusAtYield(c) == status

\* The _yield() at the end of a kmt_sem_wait that must block.
Yield(c) ==
    /\ mode[c] = "user"
    /\ pc[stack[c]] = "yield"
    /\ pc' = [pc EXCEPT ![stack[c]] = "run"]
    /\ mode' = [mode EXCEPT ![c] = "save"]
    /\ status' = StatusAtYield(c)
    /\ UNCHANGED <<queue, lk, ctx, current, last, stack, scan, semVars, arg,
                   panicked>>

\* The assertions at the top of kmt_context_save.
SaveAsserts(c) ==
    IF ctx[current[c]] = "NULL"
    THEN current[c] = c /\ last[c] = None /\ status[current[c]] = "IDLE"
    ELSE last[c] # None

\* Does last go back into the queue, at which place, and whose context is the
\* interrupted one?  "Remember that idles should never be into the queue."
Requeues_idle(c) == last[c] # None
Requeues_running(c) == last[c] # None /\ status[last[c]] = "RUNNING"
Requeues(c) == last[c] # None /\ status[last[c]] # "IDLE"

Returned_current(c) == current[c]
Returned(c) == last[c]

FrameOf_last(c) == IF last[c] = None THEN current[c] ELSE last[c]
FrameOf(c) == current[c]

\* tasks_enque_lk and tasks_enque_ulk.
Enque_head(t, q) == <<t>> \o q
Enque(t, q) == Append(q, t)

\* kmt_context_save: put last back into the queue, unless it is an idle
\* thread, and record the interrupted context.
ContextSave(c) ==
    /\ mode[c] = "save"
    /\ IF ~SaveAsserts(c)
       THEN /\ panicked' = TRUE
            /\ UNCHANGED <<queue, ctx, mode>>
       ELSE /\ IF Requeues(c)
               THEN lk = None /\ queue' = Enque(Returned(c), queue)
               ELSE UNCHANGED queue
            /\ ctx' = [ctx EXCEPT ![FrameOf(c)] = "saved"]
            /\ mode' = [mode EXCEPT ![c] = "sched"]
            /\ UNCHANGED panicked
    /\ UNCHANGED <<lk, status, current, last, stack, scan, semVars, thrVars>>

\* task_head.next, where check_running_ulk starts.
ScanFrom_second == 2
ScanFrom == 1

\* kmt_schedule up to its spin_lock: last is the interrupted thread, which
\* stays out of the queue because this CPU still uses its stack.
SchedLock(c) ==
    /\ mode[c] = "sched"
    /\ lk = None
    /\ last' = [last EXCEPT ![c] = current[c]]
    /\ lk' = c
    /\ scan' = [scan EXCEPT ![c] = ScanFrom]
    /\ mode' = [mode EXCEPT ![c] = "scan"]
    /\ UNCHANGED <<queue, status, ctx, current, stack, semVars, thrVars,
                   panicked>>

\* One iteration of check_running_ulk, which keeps queue_lk when it succeeds.
LockAfterScan_none(c) == None
LockAfterScan(c) == lk

ScanNext(c) ==
    /\ mode[c] = "scan"
    /\ scan[c] <= Len(queue)
    /\ IF status[queue[scan[c]]] = "RUNNING"
       THEN /\ mode' = [mode EXCEPT ![c] = "pick"]
            /\ lk' = LockAfterScan(c)
            /\ UNCHANGED scan
       ELSE /\ scan' = [scan EXCEPT ![c] = @ + 1]
            /\ UNCHANGED <<mode, lk>>
    /\ UNCHANGED <<queue, status, ctx, current, last, stack, semVars,
                   thrVars, panicked>>

\* check_running_ulk found no RUNNING task: run the idle thread.
PickIdle(c) ==
    /\ mode[c] = "scan"
    /\ scan[c] > Len(queue)
    /\ current' = [current EXCEPT ![c] = c]
    /\ lk' = None
    /\ mode' = [mode EXCEPT ![c] = "iret"]
    /\ UNCHANGED <<queue, status, ctx, last, stack, scan, semVars, thrVars,
                   panicked>>

\* May the loop of kmt_schedule pick this task?
Selected_alive(t) == status[t] # "DEAD"
Selected(t) == status[t] = "RUNNING"

\* One iteration of the loop that dequeues tasks until one is RUNNING; the
\* others go back to the tail.  tasks_deque_ulk returns NULL on an empty
\* queue, and the loop dereferences it.
Pick(c) ==
    /\ mode[c] = "pick"
    /\ IF queue = <<>>
       THEN /\ panicked' = TRUE
            /\ UNCHANGED <<queue, lk, current, mode>>
       ELSE /\ IF Selected(Head(queue))
               THEN /\ queue' = Tail(queue)
                    /\ current' = [current EXCEPT ![c] = Head(queue)]
                    /\ lk' = None
                    /\ mode' = [mode EXCEPT ![c] = "iret"]
               ELSE /\ queue' = Enque(Head(queue), Tail(queue))
                    /\ UNCHANGED <<lk, current, mode>>
            /\ UNCHANGED panicked
    /\ UNCHANGED <<status, ctx, last, stack, scan, semVars, thrVars>>

\* The handlers returned current->context, which must not be NULL; the iret
\* leaves the interrupted thread's stack.
Iret(c) ==
    /\ mode[c] = "iret"
    /\ IF ctx[current[c]] = "NULL"
       THEN /\ panicked' = TRUE
            /\ UNCHANGED <<ctx, stack, mode>>
       ELSE /\ stack' = [stack EXCEPT ![c] = current[c]]
            /\ ctx' = [ctx EXCEPT ![current[c]] = "live"]
            /\ mode' = [mode EXCEPT ![c] = "user"]
            /\ UNCHANGED panicked
    /\ UNCHANGED <<queue, lk, status, current, last, scan, semVars, thrVars>>

-----------------------------------------------------------------------------
(* Calls to the kmt module: steps of the task a CPU runs. *)

\* CPU c runs a task that is not inside a call.
Calls(c) == mode[c] = "user" /\ stack[c] \in Tasks /\ pc[stack[c]] = "run"

\* kmt_sem_wait up to its spin_unlock; a caller that must block goes to the
\* tail of the wait list and still has its _yield() to make.
SemWait(c, s) ==
    /\ Calls(c)
    /\ value' = [value EXCEPT ![s] = @ - 1]
    /\ IF value[s] - 1 < 0
       THEN /\ status' = [status EXCEPT ![current[c]] = "WAITING"]
            /\ waiters' = [waiters EXCEPT ![s] = Append(@, current[c])]
            /\ pc' = [pc EXCEPT ![stack[c]] = "yield"]
       ELSE UNCHANGED <<status, waiters, pc>>
    /\ UNCHANGED <<queue, lk, ctx, cpuVars, arg, panicked>>

\* Is there a waiter to take?
HasWaiter_negative(s) == value[s] + 1 < 0
HasWaiter(s) == waiters[s] # <<>>

\* kmt_sem_signal up to its spin_unlock: it takes the waiter at the tail of
\* the wait list, which it wakes only after it released the lock.
SemSignal(c, s) ==
    /\ Calls(c)
    /\ value[s] < MaxValue
    /\ value' = [value EXCEPT ![s] = @ + 1]
    /\ IF HasWaiter(s)
       THEN /\ waiters' = [waiters EXCEPT ![s] = Front(@)]
            /\ arg' = [arg EXCEPT ![stack[c]] = Last(waiters[s])]
            /\ pc' = [pc EXCEPT ![stack[c]] = "wake"]
       ELSE UNCHANGED <<waiters, arg, pc>>
    /\ UNCHANGED <<queue, lk, status, ctx, cpuVars, panicked>>

\* The task that set_thread points to, and the queue, which a wakeup leaves
\* alone.
Woken_self(c) == stack[c]
Woken(c) == arg[stack[c]]

QueueAtWake_append(c) == Append(queue, arg[stack[c]])
QueueAtWake(c) == queue

\* The rest of kmt_sem_signal, outside every lock: the waiter is RUNNING.
Wake(c) ==
    /\ mode[c] = "user"
    /\ pc[stack[c]] = "wake"
    /\ status' = [status EXCEPT ![Woken(c)] = "RUNNING"]
    /\ queue' = QueueAtWake(c)
    /\ pc' = [pc EXCEPT ![stack[c]] = "run"]
    /\ arg' = [arg EXCEPT ![stack[c]] = None]
    /\ UNCHANGED <<lk, ctx, cpuVars, semVars, panicked>>

\* kmt_create of a task_t that is in no list yet.
Create(c, u) ==
    /\ Calls(c)
    /\ status[u] = "NEW"
    /\ lk = None
    /\ status' = [status EXCEPT ![u] = "RUNNING"]
    /\ ctx' = [ctx EXCEPT ![u] = "saved"]
    /\ queue' = Enque(u, queue)
    /\ UNCHANGED <<lk, cpuVars, semVars, thrVars, panicked>>

\* kmt_teardown up to tasks_throw_lk: the status is written with no lock.
Teardown(c, u) ==
    /\ Calls(c)
    /\ u # stack[c]
    /\ status[u] \in {"RUNNING", "WAITING"}
    /\ status' = [status EXCEPT ![u] = "DEAD"]
    /\ pc' = [pc EXCEPT ![stack[c]] = "throw"]
    /\ arg' = [arg EXCEPT ![stack[c]] = u]
    /\ UNCHANGED <<queue, lk, ctx, cpuVars, semVars, panicked>>

\* tasks_throw_lk: assert that the task is queued and DEAD, and unlink it.
Throw(c) ==
    /\ mode[c] = "user"
    /\ pc[stack[c]] = "throw"
    /\ lk = None
    /\ LET u == arg[stack[c]] IN
       IF u \in Queued /\ status[u] = "DEAD"
       THEN /\ \E i \in 1..Len(queue) :
                 queue[i] = u /\ queue' = RemoveAt(queue, i)
            /\ pc' = [pc EXCEPT ![stack[c]] = "run"]
            /\ arg' = [arg EXCEPT ![stack[c]] = None]
            /\ UNCHANGED panicked
       ELSE /\ panicked' = TRUE
            /\ UNCHANGED <<queue, thrVars>>
    /\ UNCHANGED <<lk, status, ctx, cpuVars, semVars>>

-----------------------------------------------------------------------------
Handler(c) == \/ ContextSave(c) \/ SchedLock(c) \/ ScanNext(c)
              \/ PickIdle(c) \/ Pick(c) \/ Iret(c)

Call(c) == \/ \E s \in Sems : SemWait(c, s)
           \/ \E s \in Sems : SemSignal(c, s)
           \/ Wake(c)
           \/ \E u \in Tasks : Create(c, u)
           \/ \E u \in Victims : Teardown(c, u)
           \/ Throw(c)

Step(c) == CpuBoot(c) \/ TimerTrap(c) \/ Yield(c) \/ Handler(c) \/ Call(c)

\* A failed assertion stops the machine.
Next == ~panicked /\ \E c \in Cpus : Step(c)

Spec == Init /\ [][Next]_vars

\* The timer keeps firing on every CPU, a handler does not stop half way, a
\* CPU that spins for queue_lk gets it some day, and a thread that is given
\* time slices again and again makes the step it is at.
Fairness ==
    /\ \A c \in Cpus :
         /\ WF_vars(CpuBoot(c) /\ ~panicked)
         /\ WF_vars(TimerTrap(c) /\ ~panicked)
         /\ SF_vars(Handler(c) /\ ~panicked)
    /\ \A t \in Tasks :
         SF_vars(~panicked /\ \E c \in Cpus : stack[c] = t /\ Wake(c))

FairSpec == Spec /\ Fairness

-----------------------------------------------------------------------------
(* Properties. *)

\* The type invariant of the thread manager's state (kmt.c and common.h).
TypeOK ==
    /\ queue \in Seq(Tasks)
    /\ lk \in Cpus \cup {None}
    /\ status \in [Threads -> Statuses]
    /\ ctx \in [Threads -> {"NULL", "saved", "live"}]
    /\ current \in [Cpus -> Threads]
    /\ last \in [Cpus -> Threads \cup {None}]
    /\ stack \in [Cpus -> Threads]
    /\ mode \in [Cpus -> Modes]
    /\ scan \in [Cpus -> Nat \ {0}]
    /\ value \in [Sems -> Int]
    /\ waiters \in [Sems -> Seq(Tasks)]
    /\ pc \in [Threads -> {"run", "yield", "wake", "throw"}]
    /\ arg \in [Threads -> Tasks \cup {None}]
    /\ panicked \in BOOLEAN

\* The threads that only CPU c may touch: the one it runs, and the one it ran
\* before, whose stack it may still be on; in "sched" kmt_context_save has
\* already given last back to the queue.
OnCpu(c) == {current[c]} \cup (IF mode[c] = "sched" THEN {} ELSE {last[c]})

\* No assertion of kmt_context_save, no NULL dereference in the loop of
\* kmt_schedule and no NULL context at the iret, as long as nobody calls
\* kmt_teardown.
NoPanic == ~panicked

\* No stack race: two CPUs never execute on one stack, and a task another
\* CPU could dequeue is never one whose stack is in use.  This is what
\* cpu_local.last is for.
StackExclusive ==
    /\ \A c, d \in Cpus : stack[c] = stack[d] => c = d
    /\ \A c \in Cpus : stack[c] \notin Queued

\* Every task that was created is either queued, once, or kept by exactly one
\* CPU; the scheduler neither loses nor duplicates a task.
NothingLost ==
    /\ IsInjective(queue)
    /\ \A c \in Cpus : OnCpu(c) \cap Queued = {}
    /\ \A c, d \in Cpus : c # d => OnCpu(c) \cap OnCpu(d) \subseteq {None}
    /\ \A t \in Tasks : status[t] # "NEW" =>
          t \in Queued \/ \E c \in Cpus : t \in OnCpu(c)

\* The frame a CPU is about to restore is one that kmt_context_save or
\* _kcontext wrote and that nobody resumed since.
FrameFresh == \A c \in Cpus : mode[c] = "iret" => ctx[current[c]] = "saved"

\* The comment at the loop of kmt_schedule, "at least one thread is running":
\* once check_running_ulk said yes, a RUNNING task stays in the queue until
\* the loop has found it, so the loop, which holds queue_lk, ends.  A teardown
\* writes DEAD without queue_lk, so this is said of systems without one.
PickTerminates ==
    \A c \in Cpus : mode[c] = "pick" =>
        \E i \in 1..Len(queue) : status[queue[i]] = "RUNNING"

\* The wait lists a task is in, and the signallers that took the task from
\* one and have still to write its status.
BlockedAt(t) == {s \in Sems : t \in Range(waiters[s])}
WokenBy(t) == {u \in Tasks : pc[u] = "wake" /\ arg[u] = t}

\* No lost wakeup: a task is WAITING exactly as long as it has one entry in a
\* semaphore's wait list, or one signaller that took the entry and has still
\* to write RUNNING.
NoLostWakeup ==
    /\ \A s \in Sems : IsInjective(waiters[s])
    /\ \A t \in Tasks :
         IF status[t] # "WAITING"
         THEN BlockedAt(t) = {} /\ WokenBy(t) = {}
         ELSE \/ BlockedAt(t) = {} /\ \E u \in Tasks : WokenBy(t) = {u}
              \/ WokenBy(t) = {} /\ \E s \in Sems : BlockedAt(t) = {s}

\* A semaphore's value counts its wait list: there are waiters only when the
\* value is negative, and then as many as it says.
SemCount ==
    \A s \in Sems : Len(waiters[s]) = IF value[s] < 0 THEN -value[s] ELSE 0

\* A CPU never moves to the stack of a thread that is blocked.
WaitingNotResumed ==
    [][\A c \in Cpus : stack'[c] # stack[c] =>
          status[stack'[c]] \in {"RUNNING", "IDLE"}]_vars

\* What kmt_teardown unlinked never comes back to the queue or to a CPU, even
\* when a signal that took it from a wait list makes it RUNNING again.
NoResurrection ==
    [][\A t \in Victims :
          status[t] # "NEW" /\ t \notin Queued
                          /\ (\A c \in Cpus : t \notin OnCpu(c))
          => t \notin Queued' /\ \A c \in Cpus : t \notin OnCpu(c)']_vars

\* Round robin starves nobody: a queued RUNNING task gets a CPU.
RunnableRuns ==
    \A t \in Tasks :
        (t \in Queued /\ status[t] = "RUNNING")
        ~> \E c \in Cpus : mode[c] = "user" /\ stack[c] = t

\* A waiter that a signal took from the wait list runs again, although the
\* signaller may be preempted before it writes the waiter's status.
WakeDelivered ==
    \A t \in Tasks :
        (\E u \in Tasks : pc[u] = "wake" /\ arg[u] = t)
        ~> \E c \in Cpus : mode[c] = "user" /\ stack[c] = t /\ status[t] = "RUNNING"

\* OSkernel/README.md: after long enough, a thread has been scheduled on every
\* processor.
EveryCpu ==
    \A t \in Range(Boot), c \in Cpus : <>(mode[c] = "user" /\ stack[c] = t)

\* The semaphores keep the promise of module Semaphore: a task whose
\* kmt_sem_wait had to block makes no further call before a kmt_sem_signal has
\* taken it from the wait list.
Abs == INSTANCE Semaphore WITH
           avail <- [s \in Sems |-> IF value[s] > 0 THEN value[s] ELSE 0],
           blocked <- [s \in Sems |-> Range(waiters[s])]

ImplementsSemaphore == Abs!AbsSpec
=============================================================================
