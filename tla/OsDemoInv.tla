----------------------------- MODULE OsDemoInv -----------------------------
(***************************************************************************)
(* The inductive invariant behind the safety properties of OsDemo.         *)
(***************************************************************************)
EXTENDS OsDemo, KmtInv

Places == {"P", "putc", "V"}

\* A task that waits does so in the P of its loop, on the semaphore it takes.
PlaceOfWaiters ==
    \A s \in Sems : \A t \in Range(waiters[s]) : at[t] = "putc" /\ s = Takes(t)

Avail(s) == IF value[s] > 0 THEN value[s] ELSE 0

\* The tasks that were granted a unit and have not given it on, and among them
\* those whose bracket is open: a producer that printed its bracket, and a
\* consumer that has not.
Holders == {t \in Tasks : Granted(t)}
OpenHolders ==
    {t \in Holders : at[t] = IF t \in Producers THEN "V" ELSE "putc"}

\* Every open bracket is a unit of fill, or held by one task.
OpenCount == open = Avail(fill) + Cardinality(OpenHolders)

DemoInv ==
    /\ SafeInv
    /\ at \in [Tasks -> Places]
    /\ PlaceOfWaiters
    /\ IsFiniteSet(Holders)
    /\ Depth = Avail(empty) + Avail(fill) + Cardinality(Holders)
    /\ OpenCount
=============================================================================
