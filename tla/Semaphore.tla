----------------------------- MODULE Semaphore -----------------------------
(***************************************************************************)
(* What the semaphores of the kernel promise to the threads that use them  *)
(* (include/common.h, kmt_sem_wait and kmt_sem_signal of kmt.c): a number  *)
(* of available units and a set of blocked tasks.  A blocked task makes no *)
(* further call until a V has granted it a unit; which one a V grants is   *)
(* left open.                                                              *)
(***************************************************************************)
EXTENDS Naturals

CONSTANTS Tasks, Sems, SemInit

VARIABLES
    avail,      \* units that a P takes without blocking
    blocked     \* tasks whose P has not been granted

absVars == <<avail, blocked>>

AbsInit == avail = SemInit /\ blocked = [s \in Sems |-> {}]

Free(t) == \A s \in Sems : t \notin blocked[s]

P(t, s) ==
    /\ Free(t)
    /\ IF avail[s] > 0
       THEN /\ avail' = [avail EXCEPT ![s] = @ - 1]
            /\ UNCHANGED blocked
       ELSE /\ blocked' = [blocked EXCEPT ![s] = @ \cup {t}]
            /\ UNCHANGED avail

V(t, s) ==
    /\ Free(t)
    /\ IF blocked[s] = {}
       THEN /\ avail' = [avail EXCEPT ![s] = @ + 1]
            /\ UNCHANGED blocked
       ELSE /\ \E u \in blocked[s] :
                 blocked' = [blocked EXCEPT ![s] = @ \ {u}]
            /\ UNCHANGED avail

AbsNext == \E t \in Tasks, s \in Sems : P(t, s) \/ V(t, s)

AbsSpec == AbsInit /\ [][AbsNext]_absVars
=============================================================================
