------------------------------- MODULE Libco -------------------------------
(***************************************************************************)
(* The coroutines of Coroutine/libco/co.c.  One coroutine executes at a    *)
(* time; co_yield picks the next one by a random walk round the list of    *)
(* coroutines, whose sentinel stands for main.                             *)
(*                                                                         *)
(* The program around the library starts coroutines, yields, and waits for *)
(* coroutines it started, once for each, as co_wait frees them; memory     *)
(* that was freed may come back from malloc for another coroutine, with    *)
(* what it held before.                                                    *)
(*                                                                         *)
(* A definition Name_suffix states the definition Name that follows it the *)
(* way a plausible mistake would; no action uses it.                       *)
(***************************************************************************)
EXTENDS Integers, Sequences, SequencesExt

CONSTANTS
    Cos,        \* the places in memory for a struct co
    Main,       \* the sentinel
    MaxRound,   \* round_max is at most this, 129 in the code
    None        \* NULL

ASSUME LibcoAssumption ==
    /\ Main \notin Cos /\ None \notin Cos \cup {Main}
    /\ MaxRound \in Nat \ {0}

VARIABLES
    order,      \* the list, from sentinel->next to sentinel->prev
    heap,       \* the coroutines that were allocated and not freed
    status,     \* co->status, what is left of it in freed memory too
    waiter,     \* co->waiter
    current,    \* the coroutine that executes
    pc,         \* where a coroutine is: "body" of its function, "free" in
                \* co_wait after the yield, "end" after the yield of wrapper
    target,     \* the co of its co_wait
    parent,     \* the coroutine that has the pointer co_start returned
    stuck       \* rand_select does not end

listVars == <<order, heap>>
vars == <<listVars, status, waiter, current, pc, target, parent, stuck>>

Everyone == Cos \cup {Main}
Statuses == {"new", "running", "waiting", "dead"}

\* init_co
Init ==
    /\ order = <<>>
    /\ heap = {}
    /\ status = [x \in Everyone |-> IF x = Main THEN "running" ELSE "dead"]
    /\ waiter = [x \in Everyone |-> None]
    /\ current = Main
    /\ pc = [x \in Everyone |-> "body"]
    /\ target = [x \in Everyone |-> None]
    /\ parent = [x \in Cos |-> None]
    /\ stuck = FALSE

-----------------------------------------------------------------------------
(* co_yield. *)

Selectable_alive == {"new", "running", "waiting"}
Selectable == {"new", "running"}

\* The list o from the sentinel on, and the place after j in it.
Ring(o) == <<Main>> \o o
After(o, j) == (j % Len(Ring(o))) + 1

\* Past what is not selectable, from place j on, where st is the status of
\* each: the second loop of rand_select, and the turns of the first one that
\* do not count.
SkipBlocked_none(o, st, j) == j
SkipBlocked(o, st, j) ==
    LET skip[i \in 1..Len(Ring(o))] ==
            IF st[Ring(o)[i]] \in Selectable THEN i ELSE skip[After(o, i)]
    IN skip[j]

\* rand_select: from the sentinel past round selectable coroutines, and on to
\* the next one.
RandSelect(o, st, round) ==
    LET walk[n \in 0..round] ==
            IF n = 0 THEN 1 ELSE After(o, SkipBlocked(o, st, walk[n - 1]))
    IN Ring(o)[SkipBlocked(o, st, walk[round])]

Ready(o, st) == {x \in Range(Ring(o)) : st[x] \in Selectable}

\* round_max, a random number.
Rounds == 1..MaxRound

\* co_yield with list o and statuses st: longjmp to a coroutine that was
\* running, or wrapper, which makes a new one running.
Switch(o, st) ==
    IF Ready(o, st) = {}
    THEN stuck' = TRUE /\ status' = st /\ UNCHANGED current
    ELSE \E round \in Rounds :
            LET next == RandSelect(o, st, round) IN
            /\ current' = next
            /\ status' = [st EXCEPT ![next] = "running"]
            /\ UNCHANGED stuck

\* A call of co_yield, or the endless loop of a rand_select that finds nobody.
CoYield(t) ==
    /\ current = t
    /\ pc[t] = "body" \/ stuck
    /\ Switch(order, status)
    /\ UNCHANGED <<listVars, waiter, pc, target, parent>>

-----------------------------------------------------------------------------
(* co_start and co_wait. *)

WaiterAtStart_kept(c) == waiter[c]
WaiterAtStart(c) == None

CoStart(t, c) ==
    /\ current = t /\ pc[t] = "body"
    /\ c \notin heap
    /\ heap' = heap \cup {c}
    /\ order' = Append(order, c)
    /\ status' = [status EXCEPT ![c] = "new"]
    /\ waiter' = [waiter EXCEPT ![c] = WaiterAtStart(c)]
    /\ pc' = [pc EXCEPT ![c] = "body"]
    /\ parent' = [parent EXCEPT ![c] = t]
    /\ UNCHANGED <<current, target, stuck>>

Finished(c) == status[c] = "dead"

\* co_wait of a coroutine that is dead: free(co).
CoWaitDead(t, c) ==
    /\ current = t /\ pc[t] = "body"
    /\ parent[c] = t /\ Finished(c)
    /\ heap' = heap \ {c}
    /\ parent' = [parent EXCEPT ![c] = None]
    /\ UNCHANGED <<order, status, waiter, current, pc, target, stuck>>

\* co_wait of another one: the caller yields as its waiter.
CoWait(t, c) ==
    /\ current = t /\ pc[t] = "body"
    /\ parent[c] = t /\ ~Finished(c)
    /\ waiter' = [waiter EXCEPT ![c] = t]
    /\ Switch(order, [status EXCEPT ![t] = "waiting"])
    /\ pc' = [pc EXCEPT ![t] = "free"]
    /\ target' = [target EXCEPT ![t] = c]
    /\ parent' = [parent EXCEPT ![c] = None]
    /\ UNCHANGED listVars

\* co_wait after its co_yield: free(co).
CoWaitFree(t) ==
    /\ current = t /\ pc[t] = "free"
    /\ heap' = heap \ {target[t]}
    /\ target' = [target EXCEPT ![t] = None]
    /\ pc' = [pc EXCEPT ![t] = "body"]
    /\ UNCHANGED <<order, status, waiter, current, parent, stuck>>

-----------------------------------------------------------------------------
(* wrapper. *)

Woken_self(t) == {t}
Woken(t) == {waiter[t]} \ {None}

Unlinked_none(t) == order
Unlinked(t) == RemoveAt(order, CHOOSE i \in 1..Len(order) : order[i] = t)

\* func returns: the coroutine is dead, wakes its waiter, leaves the list and
\* yields on its own stack for the last time.  The pointers it had are lost.
Finish(t) ==
    /\ current = t /\ pc[t] = "body" /\ t # Main
    /\ order' = Unlinked(t)
    /\ Switch(Unlinked(t),
              [x \in Everyone \cup Woken(t) |->
                  IF x \in Woken(t) THEN "running"
                  ELSE IF x = t THEN "dead" ELSE status[x]])
    /\ pc' = [pc EXCEPT ![t] = "end"]
    /\ parent' = [c \in Cos |-> IF parent[c] = t THEN None ELSE parent[c]]
    /\ UNCHANGED <<heap, waiter, target>>

Next ==
    \E t \in Everyone :
        \/ CoYield(t)
        \/ ~stuck /\ \E c \in Cos : CoStart(t, c) \/ CoWaitDead(t, c) \/ CoWait(t, c)
        \/ ~stuck /\ CoWaitFree(t)
        \/ ~stuck /\ Finish(t)

Spec == Init /\ [][Next]_vars

\* rand() picks every coroutine again and again that can be picked again and
\* again; co_wait goes on; a coroutine that executes again and again returns.
Picked(x) ==
    /\ ~stuck /\ current' = x
    /\ \E t \in Everyone : CoYield(t) \/ Finish(t) \/ \E c \in Cos : CoWait(t, c)

Fairness ==
    /\ \A x \in Everyone :
         /\ SF_vars(Picked(x))
         /\ WF_vars(~stuck /\ CoWaitFree(x))
    /\ \A t \in Cos : SF_vars(~stuck /\ Finish(t))

FairSpec == Spec /\ Fairness

-----------------------------------------------------------------------------
(* Properties. *)

\* The type invariant of the coroutine list (co.c).
TypeOK ==
    /\ order \in Seq(Cos)
    /\ heap \subseteq Cos
    /\ status \in [Everyone -> Statuses]
    /\ waiter \in [Everyone -> Everyone \cup {None}]
    /\ current \in Everyone
    /\ pc \in [Everyone -> {"body", "free", "end"}]
    /\ target \in [Everyone -> Cos \cup {None}]
    /\ parent \in [Cos -> Everyone \cup {None}]
    /\ stuck \in BOOLEAN

\* The list holds every coroutine that was started and has not returned, once,
\* and never points into freed memory.
ListExact ==
    /\ Range(order) = {c \in heap : status[c] # "dead"}
    /\ Len(order) = Cardinality(Range(order))

\* A waiting coroutine is the waiter of one that has not returned, so that
\* somebody will wake it, and a waiter that will be woken is waiting for it:
\* the pointer of a coroutine that waited in the same memory before is gone.
WaitersExact ==
    /\ \A t \in Everyone :
         status[t] = "waiting" => pc[t] = "free" /\ waiter[target[t]] = t
                                  /\ status[target[t]] # "dead"
    /\ \A c \in heap :
         status[c] # "dead" /\ waiter[c] # None
            => status[waiter[c]] = "waiting" /\ target[waiter[c]] = c

\* co_wait returns, and frees, only what has returned: no coroutine loses its
\* stack or its place in the list while it is in use.
FreesOnlyDead ==
    [][\A c \in heap \ heap' : status[c] = "dead" /\ c # current]_vars

\* The random walk can pick every coroutine that is ready, as long as they are
\* not more than round_max can count.
AllCanBePicked ==
    Cardinality(Ready(order, status)) \in 1..MaxRound =>
        {RandSelect(order, status, n) : n \in Rounds} = Ready(order, status)

\* co_wait returns.
WaitReturns == \A t \in Everyone : status[t] = "waiting" ~> status[t] # "waiting"
=============================================================================
