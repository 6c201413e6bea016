---------------------------- MODULE SpinLockInv ----------------------------
(***************************************************************************)
(* The inductive invariant behind the safety properties of SpinLock.       *)
(***************************************************************************)
EXTENDS SpinLock

\* Past the _intr_write(0) of pushcli or kmt_create, before the flag is back.
Pinned(a) ==
    pc[a] \notin {"out", "cli"} \/ held[a] # {} \/ phase[a] \in {"create", "created"}

\* Where actors are: handlers run with interrupts off and only in a trap, a
\* thread has one CPU, and a pinned one is executing with interrupts off.
PlaceInv ==
    /\ \A c \in Cpus :
        /\ phase[c] \in {"none", "save", "sched", "done"}
        /\ InTrap(c) => ~intr[c]
        /\ ~InTrap(c) => pc[c] = "out" /\ held[c] = {}
    /\ \A t \in Threads : phase[t] \in {"none", "cli", "create", "created"}
    /\ \A c, d \in Cpus : run[c] = run[d] /\ run[c] # Idle => c = d
    /\ \A t \in Threads :
        Pinned(t) => \E c \in Cpus : run[c] = t /\ ~InTrap(c) /\ ~intr[c]

\* Is the flag on where this actor is outside of its lock operations?
FlagOutside(a) == a \in Threads /\ phase[a] = "none"

Counted == {"held1", "held2", "spin", "own", "pop"}

\* ncli counts the pushcli that have no popcli yet, intena is the flag the
\* first of them found, and the flag is on only outside all of them.
CountAt(c, a) ==
    /\ a = Idle => ncli[c] = 0 /\ intr[c]
    /\ a # Idle =>
        /\ ncli[c] = Cardinality(held[a]) + (IF pc[a] \in Counted THEN 1 ELSE 0)
        /\ ncli[c] > 0 => intena[c] = FlagOutside(a) /\ ~intr[c]
        /\ pc[a] \in {"out", "cli"} /\ held[a] = {}
              => intr[c] = (a \in Threads /\ phase[a] \in {"none", "cli"})
        /\ pc[a] = "count" => ~intr[c]

CountInv == \A c \in Cpus : CountAt(c, On(c))

\* What the local variables of a lock operation stand for.
LocalAt(a) ==
    /\ IsFiniteSet(held[a])
    /\ pc[a] \in {"cli", "count"} => flag[a] = (FlagOutside(a) /\ held[a] = {})
    /\ pc[a] \in Acquiring \cup {"pop"} => lock[a] \notin held[a]
    /\ pc[a] \in {"rel2", "clear", "release"} => lock[a] \in held[a]
    /\ pc[a] # "out" => phase[a] \in {"none", "create", "save", "sched"}
    /\ phase[a] \in {"cli", "created", "done"} => held[a] = {}
    /\ phase[a] \in {"create", "save", "sched"} /\ pc[a] \in Acquiring \cup {"pop"}
          => held[a] = {}
    /\ phase[a] \in {"create", "save", "sched"} => \A k, l \in held[a] : k = l

LocalInv == \A a \in Actors : LocalAt(a)

\* locked and cpu of a lock say whether and where it is held.
OwnedBy(c, l) ==
    /\ On(c) # Idle
    /\ l \in held[On(c)]
    /\ ~(pc[On(c)] = "release" /\ lock[On(c)] = l)

OwnerInv ==
    /\ \A l \in Locks : locked[l] <=> \E a \in Actors : Holds(a, l)
    /\ \A c \in Cpus, l \in Locks : owner[l] = c <=> OwnedBy(c, l)

LockInv ==
    /\ TypeOK
    /\ ~panicked
    /\ MutualExclusion
    /\ PlaceInv
    /\ CountInv
    /\ LocalInv
    /\ OwnerInv
=============================================================================
