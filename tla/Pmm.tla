-------------------------------- MODULE Pmm ---------------------------------
(***************************************************************************)
(* The page allocator of the kernel, OSkernel/kernel/src/pmm.c: pages of   *)
(* equal blocks with a bitmap of the free ones, a list of pages per CPU,   *)
(* to which only that CPU adds, and frees that may come from any CPU.      *)
(*                                                                         *)
(* kalloc runs with interrupts off, so a CPU is in one call at a time; the *)
(* CPUs interleave between the critical sections of a page's lock and of   *)
(* global_lk.  A block is named by its page, the word of the bitmap and    *)
(* its place among the blocks of that word: what kalloc computes from      *)
(* them, kfree gets back from the address by a division and a remainder.   *)
(*                                                                         *)
(* The build modelled is that of pmm.c as it stands: the define of DEBUG   *)
(* in its first line is commented out, so that Assert (debug.h) is empty.  *)
(* Two of its assertions do not hold: n_p==0 for blocks of 512 bytes, of   *)
(* which there are two words (line 202; see Free), and map!=0 in loc, once *)
(* the last word is empty (line 366; see FullAfter).                       *)
(*                                                                         *)
(* A definition Name_suffix states the definition Name that follows it the *)
(* way a plausible mistake would; no action uses it.                       *)
(***************************************************************************)
EXTENDS Integers, Sequences

CONSTANTS
    NCpu,       \* _ncpu()
    NPages,     \* the pages that fit into the heap
    Types,      \* the block sizes, powers of two
    SentiType,  \* the size of a pointer: pmm_init makes a page of it per CPU
    W,          \* the bits of a bitmap word, 8 * __SIZEOF_POINTER__
    MaxWords,   \* the words of the largest bitmap
    Words,      \* NUM_BITMAP(type)
    First,      \* the lowest bit a type uses: 48 for 4096, 32 for 2048, else 0
    Word0,      \* the types for which kfree writes bitmap[0] without a look at n_p
    None        \* a page that is not initialised

Cpus == 1..NCpu
Pages == 1..NPages
Index == 0..MaxWords - 1
Bits == 0..W - 1

ASSUME PmmAssumption ==
    /\ NCpu \in Nat \ {0} /\ NPages \in Nat /\ NCpu <= NPages
    /\ W \in Nat \ {0} /\ MaxWords \in Nat \ {0}
    /\ SentiType \in Types /\ Word0 \subseteq Types /\ None \notin Types
    /\ Words \in [Types -> 1..MaxWords]
    /\ First \in [Types -> Bits]

VARIABLES
    list,       \* the pages of a CPU, from page_senti to tail_page
    type,       \* page->type
    bitmap,     \* page->bitmap: the bits that are set
    is_full,    \* page->is_full
    next,       \* the page at last_page_addr
    pc,         \* where a CPU is in kalloc
    req,        \* the type it wants
    cur,        \* the place in its list of the page it looks at, 1 outside
    page,       \* the page it took from the heap, its own first one otherwise
    live        \* blocks that were returned and not freed since

pageVars == <<list, type, bitmap, is_full, next>>
vars == <<pageVars, pc, req, cur, page, live>>

\* init_page: every bit that stands for a block is set.
AllFree(ty) == [w \in Index |-> IF w < Words[ty] THEN First[ty]..W - 1 ELSE {}]

Init ==
    /\ list = [c \in Cpus |-> <<c>>]
    /\ type = [p \in Pages |-> IF p \in Cpus THEN SentiType ELSE None]
    /\ bitmap = [p \in Pages |-> IF p \in Cpus THEN AllFree(SentiType)
                                 ELSE [w \in Index |-> {}]]
    /\ is_full = [p \in Pages |-> FALSE]
    /\ next = NCpu + 1
    /\ pc = [c \in Cpus |-> "out"]
    /\ req = [c \in Cpus |-> SentiType]
    /\ cur = [c \in Cpus |-> 1]
    /\ page = [c \in Cpus |-> c]
    /\ live = {}

\* kalloc_unsafe of a size that UP_POW2 rounds to ty.
Start(c, ty) ==
    /\ pc[c] = "out"
    /\ pc' = [pc EXCEPT ![c] = "scan"]
    /\ req' = [req EXCEPT ![c] = ty]
    /\ UNCHANGED <<pageVars, cur, page, live>>

\* kalloc returns: its local variables are gone.
Return(c) ==
    /\ pc' = [pc EXCEPT ![c] = "out"]
    /\ req' = [req EXCEPT ![c] = SentiType]
    /\ cur' = [cur EXCEPT ![c] = 1]
    /\ page' = [page EXCEPT ![c] = c]

\* The page at which the loop of kalloc_unsafe is, and whether it will do.
Looks(c, p) == pc[c] = "scan" /\ cur[c] <= Len(list[c]) /\ p = list[c][cur[c]]
HasFree(p) == \E w \in Index : bitmap[p][w] # {}
Suits(c, p) == type[p] = req[c] /\ ~is_full[p] /\ HasFree(p)

\* The lowest set bit of the first word that has one.
Lowest(p, w, b) ==
    /\ b \in bitmap[p][w] /\ \A x \in bitmap[p][w] : b <= x
    /\ \A v \in Index : v < w => bitmap[p][v] = {}

\* The page is full when one bit is left, the last one of the last word: that
\* block is held back until another one is freed.  With no bit left loc()
\* counts the trailing zeros of 0, which is undefined.
FullAfter_first(p, w, b) == {bitmap[p][w] \ {b} \subseteq {W - 1}}
FullAfter(p, w, b) ==
    IF w # Words[type[p]] - 1 THEN {FALSE}
    ELSE IF bitmap[p][w] = {b} THEN BOOLEAN
    ELSE {bitmap[p][w] \ {b} = {W - 1}}

\* Does the block leave the bitmap when it is handed out?
Cleared(b) == {b}

\* A block of this page: critical section of page->lock.
Take(c, p) ==
    /\ Looks(c, p)
    /\ Suits(c, p)
    /\ \E w \in Index, b \in Bits :
         /\ Lowest(p, w, b)
         /\ bitmap' = [bitmap EXCEPT ![p][w] = @ \ Cleared(b)]
         /\ \E f \in FullAfter(p, w, b) : is_full' = [is_full EXCEPT ![p] = f]
         /\ live' = live \cup {<<p, w, b - First[req[c]]>>}
    /\ Return(c)
    /\ UNCHANGED <<list, type, next>>

\* On to page->page_list.
Skip(c, p) ==
    /\ Looks(c, p)
    /\ ~Suits(c, p)
    /\ cur' = [cur EXCEPT ![c] = @ + 1]
    /\ UNCHANGED <<pageVars, pc, req, page, live>>

\* The critical section of global_lk: the next page of the heap, or NULL.
Advance_none(n) == n
Advance(n) == n + 1

NewPage(c) ==
    /\ pc[c] = "scan"
    /\ cur[c] > Len(list[c])
    /\ IF next > NPages
       THEN Return(c) /\ UNCHANGED next
       ELSE /\ page' = [page EXCEPT ![c] = next]
            /\ next' = Advance(next)
            /\ pc' = [pc EXCEPT ![c] = "link"]
            /\ UNCHANGED <<req, cur>>
    /\ UNCHANGED <<list, type, bitmap, is_full, live>>

\* init_page, the first block of the page, and the end of the CPU's list.
Link(c) ==
    /\ pc[c] = "link"
    /\ LET p == page[c] ty == req[c] IN
         /\ type' = [type EXCEPT ![p] = ty]
         /\ bitmap' = [bitmap EXCEPT ![p] =
                         [AllFree(ty) EXCEPT ![0] = @ \ {First[ty]}]]
         /\ is_full' = [is_full EXCEPT ![p] = FALSE]
         /\ list' = [list EXCEPT ![c] = Append(@, p)]
         /\ live' = live \cup {<<p, 0, 0>>}
    /\ Return(c)
    /\ UNCHANGED next

\* The word and the bit of the bitmap that kfree_unsafe sets, and is_full
\* after it.  Blocks of 512 bytes are asserted to be in the first word, but the
\* write is to the word n_p.
FreedWord_first(ty, w) == 0
FreedWord(ty, w) == IF ty \in Word0 THEN 0 ELSE w
FreedBit_unshifted(ty, i) == i
FreedBit(ty, i) == i + First[ty]

FullAtFree(p) == FALSE

\* kfree_unsafe of a live block, by any CPU that is not in kalloc: critical
\* section of page->lock.
Free(c, blk) ==
    /\ pc[c] = "out"
    /\ blk \in live
    /\ LET p == blk[1] IN
         /\ bitmap' = [bitmap EXCEPT ![p][FreedWord(type[p], blk[2])] =
                         @ \cup {FreedBit(type[p], blk[3])}]
         /\ is_full' = [is_full EXCEPT ![p] = FullAtFree(p)]
    /\ live' = live \ {blk}
    /\ UNCHANGED <<list, type, next, pc, req, cur, page>>

Next ==
    \E c \in Cpus :
        \/ \E ty \in Types : Start(c, ty)
        \/ \E p \in Pages : Take(c, p) \/ Skip(c, p)
        \/ NewPage(c)
        \/ Link(c)
        \/ \E blk \in live : Free(c, blk)

Spec == Init /\ [][Next]_vars

-----------------------------------------------------------------------------
(* Properties. *)

Slots(ty) == {s \in Index \X Bits : s[1] < Words[ty] /\ s[2] < W - First[ty]}

\* The type invariant of the allocator (pmm.h and pmm.c).
TypeOK ==
    /\ list \in [Cpus -> Seq(Pages)]
    /\ type \in [Pages -> Types \cup {None}]
    /\ bitmap \in [Pages -> [Index -> SUBSET Bits]]
    /\ is_full \in [Pages -> BOOLEAN]
    /\ next \in Nat
    /\ pc \in [Cpus -> {"out", "scan", "link"}]
    /\ req \in [Cpus -> Types]
    /\ cur \in [Cpus -> Nat \ {0}]
    /\ page \in [Cpus -> Pages]
    /\ live \subseteq Pages \X Index \X Bits

\* No double alloc: a block somebody has is not free in its bitmap, so that
\* kalloc can return it to nobody else, and it is a block of its page.
NoDoubleAlloc ==
    \A blk \in live :
        LET p == blk[1] IN
        /\ type[p] # None
        /\ <<blk[2], blk[3]>> \in Slots(type[p])
        /\ blk[3] + First[type[p]] \notin bitmap[p][blk[2]]

\* No memory leak: a block nobody has is free in its bitmap.
NoLeak ==
    \A p \in Pages : type[p] # None =>
        \A s \in Slots(type[p]) :
            <<p, s[1], s[2]>> \in live \/ s[2] + First[type[p]] \in bitmap[p][s[1]]

\* A page that the scan passes over as full holds back one block at most,
\* although kfree clears is_full and kalloc sets it from one word only.
FullHoldsBackOne ==
    \A p \in Pages : is_full[p] =>
        \A w \in Index :
            bitmap[p][w] \subseteq IF w = Words[type[p]] - 1 THEN {W - 1} ELSE {}

\* A page is in the list of one CPU, once, or is being added to it by that
\* CPU, or is still part of the heap.
PagesApart ==
    /\ \A c, d \in Cpus, i, j \in Pages :
          i <= Len(list[c]) /\ j <= Len(list[d]) /\ list[c][i] = list[d][j]
             => c = d /\ i = j
    /\ \A c \in Cpus : pc[c] = "link" => type[page[c]] = None /\ page[c] < next
    /\ \A c, d \in Cpus : pc[c] = "link" /\ pc[d] = "link" /\ page[c] = page[d] => c = d
=============================================================================
