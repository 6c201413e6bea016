----------------------------- MODULE PmmProofs -----------------------------
(***************************************************************************)
(* Proofs about the page allocator: no block is handed out twice, none is  *)
(* lost, a full page holds back one block, and the pages of the CPUs are   *)
(* apart, for any number of CPUs and pages and any sizes and word widths.  *)
(***************************************************************************)
EXTENDS PmmInv, SequenceTheorems, TLAPS

USE DEF Cpus, Pages, Index, Bits

-----------------------------------------------------------------------------
(* Constants and bitmaps. *)

\* The CPUs have a page each, and what is known of sizes and words.
LEMMA ConstantFacts ==
    /\ Cpus \subseteq Pages
    /\ 0 \in Index
    /\ W \in Nat \ {0}
    /\ SentiType \in Types /\ None \notin Types
    /\ \A ty \in Types : /\ Words[ty] \in 1..MaxWords
                         /\ First[ty] \in 0..W - 1
  BY PmmAssumption

\* The bits of a fresh bitmap are bits of a word.
LEMMA AllFreeType ==
    ASSUME NEW ty \in Types
    PROVE  AllFree(ty) \in [Index -> SUBSET Bits]
  BY ConstantFacts DEF AllFree

\* A block's place in its word is the place of a bit, and the other way round.
LEMMA SlotBit ==
    ASSUME NEW ty \in Types, NEW w \in Index, NEW i \in Bits
    PROVE  <<w, i>> \in Slots(ty) <=> i + First[ty] \in AllFree(ty)[w]
  <1>1. <<w, i>> \in Slots(ty) <=> w < Words[ty] /\ i < W - First[ty]
    BY DEF Slots
  <1>2. w < Words[ty] => AllFree(ty)[w] = First[ty]..W - 1
    BY DEF AllFree
  <1>3. ~(w < Words[ty]) => AllFree(ty)[w] = {}
    BY DEF AllFree
  <1> QED BY <1>1, <1>2, <1>3, ConstantFacts

\* Every bit of a fresh bitmap stands for a block.
LEMMA BitSlot ==
    ASSUME NEW ty \in Types, NEW w \in Index, NEW b \in AllFree(ty)[w]
    PROVE  /\ b \in Bits /\ b - First[ty] \in Bits
           /\ (b - First[ty]) + First[ty] = b
           /\ <<w, b - First[ty]>> \in Slots(ty)
  <1>1. w < Words[ty] /\ b \in First[ty]..W - 1
    BY DEF AllFree
  <1>2. b \in Bits /\ b - First[ty] \in Bits /\ (b - First[ty]) + First[ty] = b
    BY <1>1, ConstantFacts
  <1> QED BY <1>1, <1>2, SlotBit

-----------------------------------------------------------------------------
(* Types. *)

\* The initial state has the types.
LEMMA InitType == Init => TypeOK
  <1> SUFFICES ASSUME Init PROVE TypeOK
    OBVIOUS
  <1>1. list \in [Cpus -> Seq(Pages)]
    <2>1. \A c \in Cpus : <<c>> \in Seq(Pages)
      BY ConstantFacts
    <2> QED BY <2>1 DEF Init
  <1>2. bitmap \in [Pages -> [Index -> SUBSET Bits]]
    <2>1. AllFree(SentiType) \in [Index -> SUBSET Bits]
      BY ConstantFacts, AllFreeType
    <2>2. [w \in Index |-> {}] \in [Index -> SUBSET Bits]
      OBVIOUS
    <2> QED BY <2>1, <2>2 DEF Init
  <1>3. next \in Nat /\ page \in [Cpus -> Pages]
    BY ConstantFacts, PmmAssumption DEF Init
  <1> QED BY <1>1, <1>2, <1>3, ConstantFacts DEF Init, TypeOK

\* So does the return of kalloc.
LEMMA ReturnType ==
    ASSUME TypeOK, NEW c \in Cpus, Return(c)
    PROVE  /\ pc' \in [Cpus -> {"out", "scan", "link"}]
           /\ req' \in [Cpus -> Types]
           /\ cur' \in [Cpus -> Nat \ {0}]
           /\ page' \in [Cpus -> Pages]
  BY ConstantFacts DEF TypeOK, Return

\* Every action keeps the types.
LEMMA NextType ==
    ASSUME TypeOK, LiveExact, HeapInv, [Next]_vars
    PROVE  TypeOK'
  <1>1. CASE UNCHANGED vars
    BY <1>1 DEF TypeOK, vars, pageVars
  <1>2. ASSUME NEW c \in Cpus, NEW ty \in Types, Start(c, ty)
        PROVE  TypeOK'
    BY <1>2 DEF TypeOK, Start, pageVars
  <1>3. ASSUME NEW c \in Cpus, NEW p \in Pages, Take(c, p)
        PROVE  TypeOK'
    <2>1. PICK w \in Index, b \in Bits :
             /\ Lowest(p, w, b)
             /\ bitmap' = [bitmap EXCEPT ![p][w] = @ \ Cleared(b)]
             /\ \E f \in FullAfter(p, w, b) : is_full' = [is_full EXCEPT ![p] = f]
             /\ live' = live \cup {<<p, w, b - First[req[c]]>>}
      BY <1>3 DEF Take
    <2>2. is_full' \in [Pages -> BOOLEAN]
      BY <2>1 DEF TypeOK, FullAfter
    <2>3. type[p] \in Types /\ type[p] = req[c]
      BY <1>3 DEF Take, Suits, TypeOK
    <2>4. b \in AllFree(req[c])[w]
      BY <2>1, <2>3, ConstantFacts DEF Lowest, LiveExact, BlockExact
    <2>5. b - First[req[c]] \in Bits
      BY <2>3, <2>4, BitSlot
    <2>6. bitmap' \in [Pages -> [Index -> SUBSET Bits]]
      BY ZenonT(40), <2>1 DEF TypeOK
    <2>7. live' \subseteq Pages \X Index \X Bits
      BY <2>1, <2>5 DEF TypeOK
    <2>8. UNCHANGED <<list, type, next>> /\ Return(c)
      BY <1>3 DEF Take
    <2> QED BY <2>2, <2>6, <2>7, <2>8, ReturnType DEF TypeOK
  <1>4. ASSUME NEW c \in Cpus, NEW p \in Pages, Skip(c, p)
        PROVE  TypeOK'
    BY <1>4 DEF TypeOK, Skip, pageVars
  <1>5. ASSUME NEW c \in Cpus, NewPage(c)
        PROVE  TypeOK'
    <2>1. CASE next > NPages
      BY <1>5, <2>1, ReturnType DEF TypeOK, NewPage
    <2>2. CASE ~(next > NPages)
      <3>1. next \in Pages
        BY <2>2, PmmAssumption DEF TypeOK, HeapInv
      <3> QED BY <1>5, <2>2, <3>1 DEF TypeOK, NewPage, Advance
    <2> QED BY <2>1, <2>2
  <1>6. ASSUME NEW c \in Cpus, Link(c)
        PROVE  TypeOK'
    <2>1. req[c] \in Types /\ page[c] \in Pages
      BY DEF TypeOK
    <2>2. [AllFree(req[c]) EXCEPT ![0] = @ \ {First[req[c]]}] \in [Index -> SUBSET Bits]
      BY <2>1, AllFreeType
    <2>3. bitmap' \in [Pages -> [Index -> SUBSET Bits]]
      BY <1>6, <2>2 DEF Link, TypeOK
    <2>4. <<page[c], 0, 0>> \in Pages \X Index \X Bits
      BY <2>1, ConstantFacts
    <2>5. list' \in [Cpus -> Seq(Pages)]
      BY <1>6, <2>1 DEF Link, TypeOK
    <2> QED BY <1>6, <2>1, <2>3, <2>4, <2>5, ReturnType DEF Link, TypeOK
  <1>7. ASSUME NEW c \in Cpus, NEW blk \in live, Free(c, blk)
        PROVE  TypeOK'
    <2>1. blk \in Pages \X Index \X Bits
      BY DEF TypeOK
    <2> DEFINE p == blk[1]
               w == FreedWord(type[p], blk[2])
               b == FreedBit(type[p], blk[3])
    <2>2. p \in Pages /\ blk[2] \in Index /\ blk[3] \in Bits /\ blk = <<p, blk[2], blk[3]>>
      BY <2>1
    <2>3. type[p] \in Types /\ <<blk[2], blk[3]>> \in Slots(type[p])
      BY <2>2 DEF LiveExact, BlockExact, TypeOK
    <2>4. w \in Index
      BY <2>2, ConstantFacts DEF FreedWord
    <2>5. b \in Bits
      BY <2>2, <2>3, ConstantFacts DEF FreedBit, Slots
    <2>6. bitmap' = [bitmap EXCEPT ![p][w] = @ \cup {b}]
      BY <1>7 DEF Free
    <2> HIDE DEF w, b
    <2>7. bitmap' \in [Pages -> [Index -> SUBSET Bits]]
      BY <2>2, <2>4, <2>5, <2>6 DEF TypeOK
    <2> QED BY <1>7, <2>7 DEF Free, TypeOK, FullAtFree
  <1> QED BY <1>1, <1>2, <1>3, <1>4, <1>5, <1>6, <1>7 DEF Next

-----------------------------------------------------------------------------
(* Bits and blocks. *)

\* At first every block of the first pages is free.
LEMMA InitLive == Init => LiveExact
  <1> SUFFICES ASSUME Init, NEW p \in Pages, NEW w \in Index, type[p] # None
               PROVE  BlockExact(p, w)
    BY DEF Init, LiveExact
  <1>1. type[p] = SentiType /\ bitmap[p][w] = AllFree(type[p])[w]
    BY DEF Init
  <1>2. \A i \in Bits : <<w, i>> \in Slots(type[p]) <=> i + First[type[p]] \in bitmap[p][w]
    BY <1>1, ConstantFacts, SlotBit
  <1> QED BY <1>1, <1>2 DEF BlockExact, Init

\* The block kalloc takes from a page is the one of the bit it clears.
LEMMA TakeLive ==
    ASSUME TypeOK, LiveExact, NEW c \in Cpus, NEW q \in Pages, Take(c, q)
    PROVE  LiveExact'
  <1>1. PICK v \in Index, b \in Bits :
           /\ Lowest(q, v, b)
           /\ bitmap' = [bitmap EXCEPT ![q][v] = @ \ Cleared(b)]
           /\ live' = live \cup {<<q, v, b - First[req[c]]>>}
    BY DEF Take
  <1>2. type[q] \in Types /\ type[q] = req[c] /\ type[q] # None /\ type' = type
    BY ConstantFacts DEF Take, Suits, TypeOK
  <1>3. b \in bitmap[q][v] /\ b \in AllFree(type[q])[v]
    BY <1>1, <1>2 DEF Lowest, LiveExact, BlockExact
  <1> DEFINE k == b - First[type[q]]
  <1>4. k \in Bits /\ k + First[type[q]] = b /\ <<v, k>> \in Slots(type[q])
    BY <1>2, <1>3, BitSlot
  <1> SUFFICES ASSUME NEW p \in Pages, NEW w \in Index
               PROVE  IF type[p] = None THEN \A i \in Bits : <<p, w, i>> \notin live'
                      ELSE BlockExact(p, w)'
    BY <1>2 DEF LiveExact
  <1>5. CASE ~(p = q /\ w = v)
    <2>1. bitmap'[p][w] = bitmap[p][w]
      BY <1>1, <1>5 DEF TypeOK
    <2>2. \A i \in Bits : <<p, w, i>> \in live' <=> <<p, w, i>> \in live
      BY <1>1, <1>5
    <2> QED BY <1>2, <2>1, <2>2 DEF LiveExact, BlockExact
  <1>6. CASE p = q /\ w = v
    <2>1. bitmap'[p][w] = bitmap[p][w] \ {b}
      BY <1>1, <1>6 DEF TypeOK, Cleared
    <2>2. \A i \in Bits : i + First[type[p]] = b <=> i = k
      BY <1>2, <1>4, <1>6, ConstantFacts
    <2>3. \A i \in Bits : <<p, w, i>> \in live' <=> <<p, w, i>> \in live \/ i = k
      BY <1>1, <1>2, <1>6
    <2>4. BlockExact(p, w)
      BY <1>2, <1>6 DEF LiveExact
    <2> HIDE DEF k
    <2>5. BlockExact(p, w)'
      BY <1>2, <1>4, <1>6, <2>1, <2>2, <2>3, <2>4 DEF BlockExact
    <2> QED BY <1>2, <1>6, <2>5
  <1> QED BY <1>5, <1>6

\* The first block of a page from the heap.
LEMMA LinkLive ==
    ASSUME TypeOK, LiveExact, HeapInv, NEW c \in Cpus, Link(c)
    PROVE  LiveExact'
  <1> DEFINE q == page[c]
             ty == req[c]
  <1>1. q \in Pages /\ ty \in Types /\ ty # None /\ type[q] = None
    BY ConstantFacts DEF TypeOK, HeapInv, Link
  <1>2. /\ type' = [type EXCEPT ![q] = ty]
        /\ bitmap' = [bitmap EXCEPT ![q] = [AllFree(ty) EXCEPT ![0] = @ \ {First[ty]}]]
        /\ live' = live \cup {<<q, 0, 0>>}
    BY DEF Link
  <1> HIDE DEF q, ty
  <1> SUFFICES ASSUME NEW p \in Pages, NEW w \in Index
               PROVE  IF type'[p] = None THEN \A i \in Bits : <<p, w, i>> \notin live'
                      ELSE BlockExact(p, w)'
    BY DEF LiveExact
  <1>3. CASE p # q
    <2>1. type'[p] = type[p] /\ bitmap'[p][w] = bitmap[p][w]
      BY <1>2, <1>3 DEF TypeOK
    <2>2. \A i \in Bits : <<p, w, i>> \in live' <=> <<p, w, i>> \in live
      BY <1>2, <1>3
    <2> QED BY <2>1, <2>2 DEF LiveExact, BlockExact
  <1>4. CASE p = q
    <2>1. type'[p] = ty
      BY <1>1, <1>2, <1>4 DEF TypeOK
    <2>2. \A i \in Bits : <<p, w, i>> \in live' <=> w = 0 /\ i = 0
      BY <1>1, <1>2, <1>4 DEF LiveExact
    <2>3. bitmap'[p][w] = IF w = 0 THEN AllFree(ty)[w] \ {First[ty]} ELSE AllFree(ty)[w]
      BY <1>1, <1>2, <1>4, AllFreeType DEF TypeOK
    <2>4. \A i \in Bits : i + First[ty] = First[ty] <=> i = 0
      BY <1>1, ConstantFacts
    <2>5. \A i \in Bits : <<w, i>> \in Slots(ty) <=> i + First[ty] \in AllFree(ty)[w]
      BY <1>1, SlotBit
    <2>6. 0 \in Bits /\ <<0, 0>> \in Slots(ty)
      BY <1>1, ConstantFacts DEF Slots
    <2>7. BlockExact(p, w)'
      BY <2>1, <2>2, <2>3, <2>4, <2>5, <2>6 DEF BlockExact
    <2> QED BY <1>1, <2>1, <2>7
  <1> QED BY <1>3, <1>4

\* kfree sets the bit of the block it is given and no other.
LEMMA FreeLive ==
    ASSUME OneWord, TypeOK, LiveExact, NEW c \in Cpus, NEW blk \in live, Free(c, blk)
    PROVE  LiveExact'
  <1>1. PICK q \in Pages, v \in Index, k \in Bits : blk = <<q, v, k>>
    BY DEF TypeOK
  <1>2. /\ type[q] \in Types /\ type[q] # None /\ type' = type
        /\ <<v, k>> \in Slots(type[q])
    BY <1>1 DEF LiveExact, BlockExact, TypeOK, Free
  <1>3. FreedWord(type[q], v) = v
    BY <1>2, ConstantFacts DEF OneWord, FreedWord, Slots
  <1>4. bitmap' = [bitmap EXCEPT ![q][v] = @ \cup {k + First[type[q]]}]
    BY <1>1, <1>3 DEF Free, FreedBit
  <1>5. live' = live \ {<<q, v, k>>}
    BY <1>1 DEF Free
  <1> SUFFICES ASSUME NEW p \in Pages, NEW w \in Index
               PROVE  IF type[p] = None THEN \A i \in Bits : <<p, w, i>> \notin live'
                      ELSE BlockExact(p, w)'
    BY <1>2 DEF LiveExact
  <1>6. CASE ~(p = q /\ w = v)
    <2>1. bitmap'[p][w] = bitmap[p][w]
      BY <1>4, <1>6 DEF TypeOK
    <2>2. \A i \in Bits : <<p, w, i>> \in live' <=> <<p, w, i>> \in live
      BY <1>5, <1>6
    <2> QED BY <1>2, <2>1, <2>2 DEF LiveExact, BlockExact
  <1>7. CASE p = q /\ w = v
    <2>1. bitmap'[p][w] = bitmap[p][w] \cup {k + First[type[q]]}
      BY <1>4, <1>7 DEF TypeOK
    <2>2. \A i \in Bits : i + First[type[q]] = k + First[type[q]] <=> i = k
      BY <1>2, ConstantFacts
    <2>3. \A i \in Bits : <<p, w, i>> \in live' <=> <<p, w, i>> \in live /\ i # k
      BY <1>5, <1>7
    <2>4. k + First[type[q]] \in AllFree(type[q])[v]
      BY <1>2, SlotBit
    <2>5. BlockExact(p, w)
      BY <1>2, <1>7 DEF LiveExact
    <2>6. BlockExact(p, w)'
      BY <1>2, <1>7, <2>1, <2>2, <2>3, <2>4, <2>5 DEF BlockExact
    <2> QED BY <1>2, <1>7, <2>6
  <1> QED BY <1>6, <1>7

\* Every action keeps bits and blocks complementary.
LEMMA NextLive ==
    ASSUME OneWord, TypeOK, LiveExact, HeapInv, [Next]_vars
    PROVE  LiveExact'
  <1>1. ASSUME UNCHANGED <<type, bitmap, live>>
        PROVE  LiveExact'
    BY <1>1 DEF LiveExact, BlockExact
  <1>2. CASE UNCHANGED vars
    BY <1>1, <1>2 DEF vars, pageVars
  <1>3. ASSUME NEW c \in Cpus, NEW ty \in Types, Start(c, ty)
        PROVE  LiveExact'
    BY <1>1, <1>3 DEF Start, pageVars
  <1>4. ASSUME NEW c \in Cpus, NEW p \in Pages, Skip(c, p)
        PROVE  LiveExact'
    BY <1>1, <1>4 DEF Skip, pageVars
  <1>5. ASSUME NEW c \in Cpus, NewPage(c)
        PROVE  LiveExact'
    BY <1>1, <1>5 DEF NewPage
  <1> QED BY <1>2, <1>3, <1>4, <1>5, TakeLive, LinkLive, FreeLive DEF Next

-----------------------------------------------------------------------------
(* Pages of the heap and of the lists. *)

\* At first the CPUs have the first pages, one each.
LEMMA InitHeap == Init => HeapInv /\ ListInv
  <1> SUFFICES ASSUME Init PROVE HeapInv /\ ListInv
    OBVIOUS
  <1>1. HeapInv
    BY ConstantFacts, PmmAssumption DEF Init, HeapInv
  <1>2. \A c \in Cpus : list[c] = <<c>> /\ type[c] # None
    BY ConstantFacts DEF Init
  <1>3. \A c \in Cpus : Len(list[c]) = 1 /\ list[c][1] = c
    BY <1>2
  <1> QED BY <1>1, <1>2, <1>3 DEF ListInv

\* Every action keeps the heap and the pages that are taken from it apart.
LEMMA NextHeap ==
    ASSUME TypeOK, HeapInv, [Next]_vars
    PROVE  HeapInv'
  <1>1. CASE UNCHANGED vars
    BY <1>1 DEF HeapInv, vars, pageVars
  <1>2. ASSUME NEW c \in Cpus, NEW ty \in Types, Start(c, ty)
        PROVE  HeapInv'
    BY <1>2 DEF HeapInv, Start, pageVars, TypeOK
  <1>3. ASSUME NEW c \in Cpus, NEW p \in Pages, Take(c, p)
        PROVE  HeapInv'
    <2>1. UNCHANGED <<type, next>> /\ Return(c)
      BY <1>3 DEF Take
    <2> QED BY <2>1 DEF HeapInv, Return, TypeOK
  <1>4. ASSUME NEW c \in Cpus, NEW p \in Pages, Skip(c, p)
        PROVE  HeapInv'
    BY <1>4 DEF HeapInv, Skip, pageVars
  <1>5. ASSUME NEW c \in Cpus, NewPage(c)
        PROVE  HeapInv'
    <2>1. CASE next > NPages
      <3>1. UNCHANGED <<type, next>> /\ Return(c)
        BY <1>5, <2>1 DEF NewPage
      <3> QED BY <3>1 DEF HeapInv, Return, TypeOK
    <2>2. CASE ~(next > NPages)
      <3>0. next \in Pages
        BY <2>2, PmmAssumption DEF HeapInv, TypeOK
      <3>1. /\ next \in Pages /\ next' = next + 1 /\ UNCHANGED type
            /\ page' = [page EXCEPT ![c] = next]
            /\ pc' = [pc EXCEPT ![c] = "link"]
        BY <1>5, <2>2, <3>0 DEF NewPage, Advance
      <3>2. type[next] = None
        BY <3>1 DEF HeapInv
      <3>3. \A d \in Cpus \ {c} : pc'[d] = pc[d] /\ page'[d] = page[d]
        BY <3>1 DEF TypeOK
      <3>4. pc'[c] = "link" /\ page'[c] = next
        BY <3>1 DEF TypeOK
      <3>5. \A d \in Cpus : pc'[d] = "link" => type[page'[d]] = None /\ page'[d] < next + 1
        BY <3>1, <3>2, <3>3, <3>4 DEF HeapInv, TypeOK
      <3>6. \A d \in Cpus \ {c} : pc'[d] = "link" => page'[d] # page'[c]
        BY <3>1, <3>3, <3>4 DEF HeapInv, TypeOK
      <3>7. \A d, e \in Cpus : pc'[d] = "link" /\ pc'[e] = "link" /\ page'[d] = page'[e] => d = e
        BY <3>3, <3>6 DEF HeapInv
      <3>8. \A p \in Pages : p >= next + 1 => type[p] = None
        BY <3>1 DEF HeapInv
      <3> QED BY <3>1, <3>5, <3>7, <3>8 DEF HeapInv
    <2> QED BY <2>1, <2>2
  <1>6. ASSUME NEW c \in Cpus, Link(c)
        PROVE  HeapInv'
    <2>1. /\ pc[c] = "link" /\ page[c] \in Pages /\ page[c] < next /\ next' = next
          /\ type' = [type EXCEPT ![page[c]] = req[c]]
          /\ Return(c)
      BY <1>6 DEF Link, HeapInv, TypeOK
    <2>2. \A p \in Pages \ {page[c]} : type'[p] = type[p]
      BY <2>1 DEF TypeOK
    <2>3. pc'[c] = "out" /\ \A d \in Cpus \ {c} : pc'[d] = pc[d] /\ page'[d] = page[d]
      BY <2>1 DEF Return, TypeOK
    <2>4. \A d \in Cpus \ {c} : pc[d] = "link" => page[d] # page[c]
      BY <2>1 DEF HeapInv
    <2>5. \A p \in Pages : p >= next => type'[p] = None
      BY <2>1, <2>2 DEF HeapInv, TypeOK
    <2>6. \A d \in Cpus : pc'[d] = "link" => type'[page'[d]] = None /\ page'[d] < next
      BY <2>2, <2>3, <2>4 DEF HeapInv, TypeOK
    <2> QED BY <2>1, <2>3, <2>5, <2>6 DEF HeapInv
  <1>7. ASSUME NEW c \in Cpus, NEW blk \in live, Free(c, blk)
        PROVE  HeapInv'
    BY <1>7 DEF HeapInv, Free
  <1> QED BY <1>1, <1>2, <1>3, <1>4, <1>5, <1>6, <1>7 DEF Next

\* Every action keeps the lists apart; a page that is added was in none.
LEMMA NextList ==
    ASSUME TypeOK, HeapInv, ListInv, [Next]_vars
    PROVE  ListInv'
  <1>1. ASSUME UNCHANGED <<list, type>>
        PROVE  ListInv'
    BY <1>1 DEF ListInv
  <1>2. CASE UNCHANGED vars
    BY <1>1, <1>2 DEF vars, pageVars
  <1>3. ASSUME NEW c \in Cpus, NEW ty \in Types, Start(c, ty)
        PROVE  ListInv'
    BY <1>1, <1>3 DEF Start, pageVars
  <1>4. ASSUME NEW c \in Cpus, NEW p \in Pages, Take(c, p) \/ Skip(c, p)
        PROVE  ListInv'
    BY <1>1, <1>4 DEF Take, Skip, pageVars
  <1>5. ASSUME NEW c \in Cpus, NewPage(c)
        PROVE  ListInv'
    BY <1>1, <1>5 DEF NewPage
  <1>6. ASSUME NEW c \in Cpus, NEW blk \in live, Free(c, blk)
        PROVE  ListInv'
    BY <1>1, <1>6 DEF Free
  <1>7. ASSUME NEW c \in Cpus, Link(c)
        PROVE  ListInv'
    <2> DEFINE q == page[c]
    <2>1. /\ q \in Pages /\ type[q] = None
          /\ type' = [type EXCEPT ![q] = req[c]] /\ req[c] # None
          /\ list' = [list EXCEPT ![c] = Append(@, q)]
      BY <1>7, ConstantFacts DEF Link, HeapInv, TypeOK
    <2> HIDE DEF q
    <2>2. \A d \in Cpus : list[d] \in Seq(Pages) /\ \A i \in 1..Len(list[d]) : list[d][i] # q
      BY <2>1 DEF ListInv, TypeOK
    <2>3. /\ Len(list'[c]) = Len(list[c]) + 1 /\ list'[c][Len(list[c]) + 1] = q
          /\ \A i \in 1..Len(list[c]) : list'[c][i] = list[c][i]
      BY <2>1, <2>2 DEF TypeOK
    <2>4. \A d \in Cpus \ {c} : list'[d] = list[d]
      BY <2>1 DEF TypeOK
    <2>5. ASSUME NEW d \in Cpus, NEW i \in 1..Len(list'[d])
          PROVE  \/ i \in 1..Len(list[d]) /\ list'[d][i] = list[d][i]
                 \/ d = c /\ i = Len(list[c]) + 1 /\ list'[d][i] = q
      BY <2>2, <2>3, <2>4
    <2>6. ASSUME NEW d \in Cpus, NEW i \in 1..Len(list'[d])
          PROVE  type'[list'[d][i]] # None
      <3>1. CASE i \in 1..Len(list[d]) /\ list'[d][i] = list[d][i]
        <4>1. list[d] \in Seq(Pages)
          BY <2>2
        <4>2. list[d][i] \in Pages
          BY <3>1, <4>1, ElementOfSeq
        <4>3. list[d][i] # q
          BY <2>2, <3>1
        <4>4. type'[list[d][i]] = type[list[d][i]]
          BY <2>1, <4>2, <4>3 DEF TypeOK
        <4>5. type[list[d][i]] # None
          BY <3>1 DEF ListInv
        <4> QED BY <3>1, <4>4, <4>5
      <3>2. CASE list'[d][i] = q
        BY <2>1, <3>2 DEF TypeOK
      <3> QED BY <2>5, <3>1, <3>2
    <2>7. ASSUME NEW d \in Cpus, NEW e \in Cpus, NEW i \in 1..Len(list'[d]),
                 NEW j \in 1..Len(list'[e]), list'[d][i] = list'[e][j]
          PROVE  d = e /\ i = j
      <3>0. list'[d][i] = list'[e][j]
        BY <2>7
      <3>1. CASE /\ i \in 1..Len(list[d]) /\ list'[d][i] = list[d][i]
                 /\ j \in 1..Len(list[e]) /\ list'[e][j] = list[e][j]
        <4>1. list[d][i] = list[e][j]
          BY <3>0, <3>1
        <4> QED BY <3>1, <4>1 DEF ListInv
      <3>2. CASE /\ i \in 1..Len(list[d]) /\ list'[d][i] = list[d][i]
                 /\ list'[e][j] = q
        BY <2>2, <3>0, <3>2
      <3>3. CASE /\ j \in 1..Len(list[e]) /\ list'[e][j] = list[e][j]
                 /\ list'[d][i] = q
        BY <2>2, <3>0, <3>3
      <3>4. CASE d = c /\ i = Len(list[c]) + 1 /\ e = c /\ j = Len(list[c]) + 1
        BY <3>4
      <3>5. \/ i \in 1..Len(list[d]) /\ list'[d][i] = list[d][i]
            \/ d = c /\ i = Len(list[c]) + 1 /\ list'[d][i] = q
        BY <2>5
      <3>6. \/ j \in 1..Len(list[e]) /\ list'[e][j] = list[e][j]
            \/ e = c /\ j = Len(list[c]) + 1 /\ list'[e][j] = q
        BY <2>5
      <3> QED BY <3>1, <3>2, <3>3, <3>4, <3>5, <3>6
    <2> QED BY <2>6, <2>7 DEF ListInv
  <1> QED BY <1>2, <1>3, <1>4, <1>5, <1>6, <1>7 DEF Next

-----------------------------------------------------------------------------
(* Full pages. *)

\* A page becomes full only when all words but the last are empty and the last
\* has nothing left but its highest bit.
LEMMA NextFull ==
    ASSUME OneWord, TypeOK, LiveExact, HeapInv, FullHoldsBackOne, [Next]_vars
    PROVE  FullHoldsBackOne'
  <1>1. ASSUME UNCHANGED <<is_full, bitmap, type>>
        PROVE  FullHoldsBackOne'
    BY <1>1 DEF FullHoldsBackOne
  <1>2. CASE UNCHANGED vars
    BY <1>1, <1>2 DEF vars, pageVars
  <1>3. ASSUME NEW c \in Cpus, NEW ty \in Types, Start(c, ty)
        PROVE  FullHoldsBackOne'
    BY <1>1, <1>3 DEF Start, pageVars
  <1>4. ASSUME NEW c \in Cpus, NEW p \in Pages, Skip(c, p)
        PROVE  FullHoldsBackOne'
    BY <1>1, <1>4 DEF Skip, pageVars
  <1>5. ASSUME NEW c \in Cpus, NewPage(c)
        PROVE  FullHoldsBackOne'
    BY <1>1, <1>5 DEF NewPage
  <1>6. ASSUME NEW c \in Cpus, NEW q \in Pages, Take(c, q)
        PROVE  FullHoldsBackOne'
    <2>1. PICK v \in Index, b \in Bits :
             /\ Lowest(q, v, b)
             /\ bitmap' = [bitmap EXCEPT ![q][v] = @ \ Cleared(b)]
             /\ \E f \in FullAfter(q, v, b) : is_full' = [is_full EXCEPT ![q] = f]
      BY <1>6 DEF Take
    <2>2. type[q] \in Types /\ type[q] # None /\ type' = type
      BY <1>6, ConstantFacts DEF Take, Suits, TypeOK
    <2> SUFFICES ASSUME NEW p \in Pages, is_full'[p], NEW w \in Index
                 PROVE  bitmap'[p][w] \subseteq
                          IF w = Words[type[p]] - 1 THEN {W - 1} ELSE {}
      BY <2>2 DEF FullHoldsBackOne
    <2>3. CASE p # q
      <3>1. is_full[p] /\ bitmap'[p][w] = bitmap[p][w]
        BY <2>1, <2>3 DEF TypeOK
      <3> QED BY <3>1 DEF FullHoldsBackOne
    <2>4. CASE p = q
      <3>1. TRUE \in FullAfter(q, v, b)
        BY <2>1, <2>4 DEF TypeOK
      <3>2. v = Words[type[q]] - 1 /\ bitmap[q][v] \ {b} \subseteq {W - 1}
        BY <3>1 DEF FullAfter
      <3>3. CASE w = v
        <4>1. bitmap'[p][w] = bitmap[q][v] \ {b}
          BY ZenonT(40), <2>1, <2>4, <3>3 DEF TypeOK, Cleared
        <4> QED BY <2>4, <3>2, <3>3, <4>1
      <3>4. CASE w < v
        BY <2>1, <2>4, <3>4 DEF TypeOK, Lowest
      <3>5. CASE v < w
        <4>1. AllFree(type[q])[w] = {}
          BY <2>2, <3>2, <3>5, ConstantFacts DEF AllFree
        <4>2. bitmap[q][w] = {}
          BY <2>2, <4>1 DEF LiveExact, BlockExact
        <4> QED BY <2>1, <2>4, <3>5, <4>2 DEF TypeOK
      <3> QED BY <3>3, <3>4, <3>5
    <2> QED BY <2>3, <2>4
  <1>7. ASSUME NEW c \in Cpus, Link(c)
        PROVE  FullHoldsBackOne'
    <2>1. page[c] \in Pages
      BY DEF TypeOK
    <2>2. is_full'[page[c]] = FALSE
      BY <1>7, <2>1 DEF Link, TypeOK
    <2>3. \A p \in Pages \ {page[c]} :
             is_full'[p] = is_full[p] /\ bitmap'[p] = bitmap[p] /\ type'[p] = type[p]
      BY <1>7 DEF Link, TypeOK
    <2> QED BY <2>2, <2>3 DEF FullHoldsBackOne
  <1>8. ASSUME NEW c \in Cpus, NEW blk \in live, Free(c, blk)
        PROVE  FullHoldsBackOne'
    <2> DEFINE q == blk[1]
    <2>1. q \in Pages
      BY DEF TypeOK
    <2>2. is_full'[q] = FALSE
      BY <1>8, <2>1 DEF Free, FullAtFree, TypeOK
    <2>3. \A p \in Pages \ {q} :
             is_full'[p] = is_full[p] /\ bitmap'[p] = bitmap[p] /\ type'[p] = type[p]
      BY <1>8 DEF Free, TypeOK
    <2> HIDE DEF q
    <2> QED BY <2>2, <2>3 DEF FullHoldsBackOne
  <1> QED BY <1>2, <1>3, <1>4, <1>5, <1>6, <1>7, <1>8 DEF Next

-----------------------------------------------------------------------------
(* Theorems. *)

\* The invariant of kalloc and kfree: bits and blocks are complementary, pages
\* have one place, and a full page has one bit left at most.
THEOREM PmmInvariant == OneWord => (Spec => []PmmIInv)
  <1> SUFFICES ASSUME OneWord PROVE Spec => []PmmIInv
    OBVIOUS
  <1>1. Init => PmmIInv
    BY InitType, InitLive, InitHeap DEF PmmIInv, FullHoldsBackOne, Init
  <1>2. PmmIInv /\ [Next]_vars => PmmIInv'
    BY NextType, NextLive, NextHeap, NextList, NextFull DEF PmmIInv
  <1> QED BY <1>1, <1>2, PTL DEF Spec

\* kalloc returns a block to nobody while somebody has it, if kfree writes
\* bitmap[0] only for pages with one word.
THEOREM NeverAllocatedTwice == OneWord => (Spec => []NoDoubleAlloc)
  <1> SUFFICES ASSUME OneWord PROVE Spec => []NoDoubleAlloc
    OBVIOUS
  <1>1. PmmIInv => NoDoubleAlloc
    <2> SUFFICES ASSUME PmmIInv, NEW blk \in live
                 PROVE  /\ type[blk[1]] # None
                        /\ <<blk[2], blk[3]>> \in Slots(type[blk[1]])
                        /\ blk[3] + First[type[blk[1]]] \notin bitmap[blk[1]][blk[2]]
      BY DEF NoDoubleAlloc
    <2>1. PICK p \in Pages, w \in Index, i \in Bits : blk = <<p, w, i>>
      BY DEF PmmIInv, TypeOK
    <2> QED BY <2>1 DEF PmmIInv, LiveExact, BlockExact
  <1> QED BY PmmInvariant, <1>1, PTL

\* A block that nobody has can be allocated again: kfree clears nothing else.
THEOREM NothingLeaks == OneWord => (Spec => []NoLeak)
  <1> SUFFICES ASSUME OneWord PROVE Spec => []NoLeak
    OBVIOUS
  <1>1. PmmIInv => NoLeak
    <2> SUFFICES ASSUME PmmIInv, NEW p \in Pages, type[p] # None, NEW s \in Slots(type[p])
                 PROVE  \/ <<p, s[1], s[2]>> \in live
                        \/ s[2] + First[type[p]] \in bitmap[p][s[1]]
      BY DEF NoLeak
    <2>1. s = <<s[1], s[2]>> /\ s[1] \in Index /\ s[2] \in Bits
      BY DEF Slots
    <2> QED BY <2>1 DEF PmmIInv, LiveExact, BlockExact
  <1> QED BY PmmInvariant, <1>1, PTL

\* A page that the scan of kalloc passes over as full lacks one block at most.
THEOREM FullPages == OneWord => (Spec => []FullHoldsBackOne)
  <1> SUFFICES ASSUME OneWord PROVE Spec => []FullHoldsBackOne
    OBVIOUS
  <1>1. PmmIInv => FullHoldsBackOne
    BY DEF PmmIInv
  <1> QED BY PmmInvariant, <1>1, PTL

\* A page is in the list of one CPU, at one place, or taken by one CPU, or
\* still part of the heap.
THEOREM PagesStayApart == OneWord => (Spec => []PagesApart)
  <1> SUFFICES ASSUME OneWord PROVE Spec => []PagesApart
    OBVIOUS
  <1>1. PmmIInv => PagesApart
    <2> SUFFICES ASSUME PmmIInv PROVE PagesApart
      OBVIOUS
    <2>1. \A c \in Cpus, i \in Pages : i <= Len(list[c]) => i \in 1..Len(list[c])
      BY PmmAssumption DEF PmmIInv, TypeOK
    <2> QED BY <2>1 DEF PmmIInv, ListInv, HeapInv, PagesApart
  <1> QED BY PmmInvariant, <1>1, PTL
=============================================================================
