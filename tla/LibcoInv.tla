------------------------------ MODULE LibcoInv ------------------------------
(***************************************************************************)
(* The inductive invariant behind the safety properties of Libco.          *)
(***************************************************************************)
EXTENDS Libco

\* The list holds what is not dead, once; freed memory still says dead.
ListInv ==
    /\ IsInjective(order)
    /\ Range(order) = {c \in Cos : status[c] # "dead"}
    /\ \A c \in Cos \ heap : status[c] = "dead"

\* What the status of a coroutine says about where it is.
StageInv ==
    /\ status[Main] # "dead"
    /\ \A x \in Everyone :
        /\ status[x] = "new" => pc[x] = "body"
        /\ status[x] = "waiting" => pc[x] = "free"
        /\ status[x] = "dead" => pc[x] # "free"
        /\ pc[x] = "end" => status[x] = "dead"
    /\ ~stuck => status[current] = "running"

\* Whoever may still free a coroutine has the only pointer to it.
HoldInv ==
    /\ \A c \in Cos : parent[c] # None => c \in heap
    /\ \A t \in Everyone : pc[t] = "free" =>
        /\ target[t] \in heap /\ parent[target[t]] = None
        /\ \A u \in Everyone : pc[u] = "free" /\ target[u] = target[t] => u = t

\* A coroutine waits for another as long as that one has not returned.
WaitInv ==
    /\ \A t \in Everyone :
        /\ status[t] = "waiting" => waiter[target[t]] = t
        /\ pc[t] = "free" =>
              (status[t] = "waiting" <=> status[target[t]] # "dead")
    /\ \A c \in heap :
        status[c] # "dead" /\ waiter[c] # None
            => status[waiter[c]] = "waiting" /\ target[waiter[c]] = c

CoInv == TypeOK /\ ListInv /\ StageInv /\ HoldInv /\ WaitInv
=============================================================================
