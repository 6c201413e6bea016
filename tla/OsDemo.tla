------------------------------- MODULE OsDemo -------------------------------
(***************************************************************************)
(* The threads os_init of OSkernel/kernel/src/os.c starts: producers print *)
(* an opening bracket and consumers a closing one, kept in step by two     *)
(* semaphores of the thread manager.  Composes Kmt, whose calls are now    *)
(* made by the loops of producer and consumer and nothing else.            *)
(*                                                                         *)
(* A definition Name_suffix states the definition Name that follows it the *)
(* way a plausible mistake would; no action uses it.                       *)
(***************************************************************************)
EXTENDS Kmt

CONSTANTS
    Producers,      \* the tasks created with entry producer; the others run
                    \* consumer
    empty, fill,    \* the two semaphores
    Depth           \* the value os_init gives empty: brackets nest this deep

ASSUME DemoAssumption ==
    /\ Producers \subseteq Tasks
    /\ empty # fill /\ Sems = {empty, fill}
    /\ Depth \in Nat \ {0}
    /\ SemInit[empty] = Depth /\ SemInit[fill] = 0
    /\ MaxValue >= Depth

VARIABLES
    at,         \* the statement of its loop a task is at
    open        \* opening brackets printed minus closing ones

demoVars == <<at, open>>

DemoInit ==
    /\ Init
    /\ at = [t \in Tasks |-> "P"]
    /\ open = 0

\* P(&empty) of a producer and P(&fill) of a consumer, V the other way round.
Takes(t) == IF t \in Producers THEN empty ELSE fill

Gives_taken(t) == Takes(t)
Gives(t) == IF t \in Producers THEN fill ELSE empty

DemoP(c) ==
    /\ Calls(c) /\ at[stack[c]] = "P"
    /\ SemWait(c, Takes(stack[c]))
    /\ at' = [at EXCEPT ![stack[c]] = "putc"]
    /\ UNCHANGED open

\* _putc
DemoPutc(c) ==
    /\ Calls(c) /\ at[stack[c]] = "putc"
    /\ open' = open + IF stack[c] \in Producers THEN 1 ELSE -1
    /\ at' = [at EXCEPT ![stack[c]] = "V"]
    /\ UNCHANGED vars

DemoV(c) ==
    /\ Calls(c) /\ at[stack[c]] = "V"
    /\ SemSignal(c, Gives(stack[c]))
    /\ at' = [at EXCEPT ![stack[c]] = "P"]
    /\ UNCHANGED open

\* What is not the text of the two loops: the rest of a V, and the kernel.
DemoWake(c) == Wake(c) /\ UNCHANGED demoVars
DemoKernel(c) ==
    /\ CpuBoot(c) \/ TimerTrap(c) \/ Yield(c) \/ Handler(c)
    /\ UNCHANGED demoVars

DemoNext ==
    /\ ~panicked
    /\ \E c \in Cpus : \/ DemoP(c) \/ DemoPutc(c) \/ DemoV(c) \/ DemoWake(c)
                       \/ DemoKernel(c)

allVars == <<vars, demoVars>>
DemoSpec == DemoInit /\ [][DemoNext]_allVars

\* As in Kmt, and a thread that gets a CPU again and again makes its step.
DemoFairness ==
    /\ \A c \in Cpus :
         /\ WF_allVars(~panicked /\ CpuBoot(c) /\ UNCHANGED demoVars)
         /\ WF_allVars(~panicked /\ TimerTrap(c) /\ UNCHANGED demoVars)
         /\ SF_allVars(~panicked /\ Handler(c) /\ UNCHANGED demoVars)
    /\ \A t \in Tasks :
         SF_allVars(~panicked /\ \E c \in Cpus :
            /\ stack[c] = t
            /\ \/ DemoP(c) \/ DemoPutc(c) \/ DemoV(c) \/ DemoWake(c)
               \/ Yield(c) /\ UNCHANGED demoVars)

DemoFairSpec == DemoSpec /\ DemoFairness

-----------------------------------------------------------------------------
(* Properties. *)

\* The brackets printed are always the beginning of a well nested sequence at
\* most Depth deep: no reordering of wakeups by the scheduler breaks it.
WellNested == open \in 0..Depth

\* A unit is never lost or made up between the two semaphores: what is
\* available, what was granted to a task that has not given it on, and nothing
\* else adds up to Depth.
Granted(t) == at[t] # "P" /\ \A s \in Sems : t \notin Range(waiters[s])
Conserved ==
    Depth = (IF value[empty] > 0 THEN value[empty] ELSE 0)
            + (IF value[fill] > 0 THEN value[fill] ELSE 0)
            + Cardinality({t \in Tasks : Granted(t)})

\* The output never stops: producers and consumers cannot all get stuck.
KeepsPrinting == []<><<\E c \in Cpus : DemoPutc(c)>>_allVars
=============================================================================
