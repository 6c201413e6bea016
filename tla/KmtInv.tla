------------------------------- MODULE KmtInv -------------------------------
(***************************************************************************)
(* The inductive invariants behind the safety properties of Kmt.  PlaceInv *)
(* holds whatever kmt_teardown is used for; SafeInv needs Victims = {}.    *)
(***************************************************************************)
EXTENDS Kmt

\* What a CPU's position in the trap path says about current, last, the stack
\* it is on and queue_lk.
ModeInv ==
    \A c \in Cpus :
        /\ mode[c] = "off" => current[c] = c /\ last[c] = None
        /\ mode[c] # "iret" => stack[c] = current[c]
        /\ mode[c] \in {"scan", "pick", "iret"} => stack[c] = last[c]
        /\ lk = c <=> mode[c] \in {"scan", "pick"}

\* A thread has at most one place: one entry of the queue or one CPU; an idle
\* thread has no place but its own CPU, and a task not yet created has none.
PlaceOnce ==
    /\ IsInjective(queue)
    /\ \A c \in Cpus : OnCpu(c) \cap Queued = {}
    /\ \A c, d \in Cpus : c # d => OnCpu(c) \cap OnCpu(d) \subseteq {None}
    /\ \A c, d \in Cpus : c # d => d \notin OnCpu(c)
    /\ \A t \in Tasks : status[t] = "NEW" =>
          t \notin Queued /\ \A c \in Cpus : t \notin OnCpu(c)

\* The task a CPU ran before is not the one it runs now.
LastApart ==
    \A c \in Cpus : mode[c] \in {"iret", "user", "save"} /\ last[c] \in Tasks
          => last[c] # current[c]

\* Statuses and pending calls: idle threads stay IDLE and make no calls; what
\* waits or is about to be woken or unlinked was created.
CallInv ==
    /\ \A c \in Cpus : status[c] = "IDLE" /\ pc[c] = "run"
    /\ \A t \in Tasks : status[t] # "IDLE"
    /\ \A t \in Tasks : pc[t] \in {"wake", "throw"} =>
          arg[t] \in Tasks /\ status[arg[t]] # "NEW"
    /\ \A s \in Sems : \A t \in Range(waiters[s]) : status[t] # "NEW"

PlaceInv == TypeOK /\ ModeInv /\ PlaceOnce /\ LastApart /\ CallInv

Placed(t) == t \in Queued \/ \E c \in Cpus : t \in OnCpu(c)

\* Without kmt_teardown no task is DEAD or about to be unlinked, and each one
\* that was created has a place.
AliveInv ==
    /\ \A t \in Tasks : status[t] # "DEAD" /\ pc[t] # "throw"
    /\ \A t \in Tasks : status[t] # "NEW" => Placed(t)

\* Which frames are fit to be restored.
FrameInv ==
    /\ \A t \in Queued : ctx[t] = "saved"
    /\ \A c \in Cpus :
        /\ mode[c] \notin {"off", "user", "save"} => ctx[current[c]] = "saved"
        /\ ctx[c] # "saved" => current[c] = c /\ mode[c] \in {"off", "user", "save"}
        /\ last[c] \in Tasks /\ mode[c] # "sched" => ctx[last[c]] = "saved"
        /\ IF ctx[c] = "NULL"
           THEN last[c] = None
           ELSE last[c] # None \/ mode[c] = "sched"
        /\ current[c] \in Tasks => ctx[current[c]] # "NULL"

\* What the status of a thread that has a CPU can be.
RunInv ==
    /\ \A c \in Cpus :
        /\ mode[c] = "user" /\ stack[c] \in Tasks /\ pc[stack[c]] = "run"
              => status[stack[c]] = "RUNNING"
        /\ mode[c] = "iret" /\ current[c] \in Tasks
              => status[current[c]] = "RUNNING"
    /\ \A t \in Tasks : pc[t] = "wake" => status[t] = "RUNNING"

\* The inductive invariant for executions without kmt_teardown.
SafeInv ==
    /\ PlaceInv
    /\ ~panicked
    /\ AliveInv
    /\ FrameInv
    /\ PickTerminates
    /\ RunInv
    /\ NoLostWakeup
    /\ SemCount
=============================================================================
