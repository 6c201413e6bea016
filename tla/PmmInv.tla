------------------------------- MODULE PmmInv -------------------------------
(***************************************************************************)
(* The inductive invariant behind the safety properties of Pmm.  It needs  *)
(* OneWord: kfree writes bitmap[0] unseen only where there is no other.    *)
(***************************************************************************)
EXTENDS Pmm

OneWord == \A ty \in Word0 : Words[ty] = 1

\* The bits of a page stand for its blocks, and a block is handed out exactly
\* if its bit is clear; a page that is not initialised has no blocks.
BlockExact(p, w) ==
    /\ bitmap[p][w] \subseteq AllFree(type[p])[w]
    /\ \A i \in Bits :
         <<p, w, i>> \in live
         <=> <<w, i>> \in Slots(type[p]) /\ i + First[type[p]] \notin bitmap[p][w]

LiveExact ==
    \A p \in Pages, w \in Index :
        IF type[p] = None THEN \A i \in Bits : <<p, w, i>> \notin live
        ELSE BlockExact(p, w)

\* From next on the heap is untouched, and a page that a CPU took from it is
\* that CPU's alone.
HeapInv ==
    /\ next # 0
    /\ \A p \in Pages : p >= next => type[p] = None
    /\ \A c \in Cpus : pc[c] = "link" => type[page[c]] = None /\ page[c] < next
    /\ \A c, d \in Cpus : pc[c] = "link" /\ pc[d] = "link" /\ page[c] = page[d] => c = d

\* The lists hold initialised pages, each one at one place.
ListInv ==
    /\ \A c \in Cpus : \A i \in 1..Len(list[c]) : type[list[c][i]] # None
    /\ \A c, d \in Cpus : \A i \in 1..Len(list[c]), j \in 1..Len(list[d]) :
          list[c][i] = list[d][j] => c = d /\ i = j

PmmIInv == TypeOK /\ LiveExact /\ HeapInv /\ ListInv /\ FullHoldsBackOne
=============================================================================
