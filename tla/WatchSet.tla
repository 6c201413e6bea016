------------------------------ MODULE WatchSet ------------------------------
(***************************************************************************)
(* What the watchpoints of the debugger promise to its user: a set of      *)
(* numbers in use.  The command `w' takes a number that is not in use, and *)
(* `d' gives back the number it names, and no other.                       *)
(***************************************************************************)
EXTENDS Naturals, FiniteSets

CONSTANTS Numbers, Limit

VARIABLE used

AbsInit == used = {}

\* The command `w' adds one number, if there is room.
Add(old, new) ==
    /\ Cardinality(old) < Limit
    /\ \E n \in Numbers \ old : new = old \cup {n}

\* The command `d' removes one.
Delete(old, new) == \E n \in old : new = old \ {n}

AbsNext ==
    LET old == used
        new == used'
    IN  new # old /\ (Add(old, new) \/ Delete(old, new))

AbsSpec == AbsInit /\ [][AbsNext]_used
=============================================================================
