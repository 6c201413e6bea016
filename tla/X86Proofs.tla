----------------------------- MODULE X86Proofs -----------------------------
(***************************************************************************)
(* Theorems about the x86 core.                                            *)
(***************************************************************************)
EXTENDS X86Inv, SeqLemmas, TLAPS

-----------------------------------------------------------------------------
(* Division. *)

LEMMA Division ==
    ASSUME NEW P \in Nat \ {0}, NEW x \in Int
    PROVE  /\ x % P \in 0..(P - 1) /\ x \div P \in Int
           /\ x = P * (x \div P) + (x % P)
OBVIOUS

LEMMA Quotient ==
    ASSUME NEW P \in Nat \ {0}, NEW q \in Int, NEW r \in 0..(P - 1)
    PROVE  (P * q + r) \div P = q /\ (P * q + r) % P = r
OBVIOUS

\* A few places on, in the same block or in the next.
LEMMA Further ==
    ASSUME NEW P \in Nat \ {0}, NEW x \in Int, NEW k \in 0..(P - 1)
    PROVE  IF (x % P) + k < P
           THEN (x + k) \div P = x \div P /\ (x + k) % P = (x % P) + k
           ELSE (x + k) \div P = (x \div P) + 1 /\ (x + k) % P = (x % P) + k - P
<1> DEFINE q == x \div P
           r == x % P
<1>1. r \in 0..(P - 1) /\ q \in Int /\ x = P * q + r
  BY Division
<1>2. SUFFICES IF r + k < P
               THEN (x + k) \div P = q /\ (x + k) % P = r + k
               ELSE (x + k) \div P = q + 1 /\ (x + k) % P = r + k - P
  OBVIOUS
<1> HIDE DEF q, r
<1>3. CASE r + k < P
  <2>1. r + k \in 0..(P - 1) /\ x + k = P * q + (r + k)
    BY <1>1, <1>3
  <2>2. (P * q + (r + k)) \div P = q /\ (P * q + (r + k)) % P = r + k
    BY <1>1, <2>1, Quotient
  <2> QED BY <1>3, <2>1, <2>2
<1>4. CASE ~(r + k < P)
  <2>1. r + k - P \in 0..(P - 1) /\ q + 1 \in Int
    BY <1>1, <1>4
  <2>2. x + k = P * (q + 1) + (r + k - P)
    BY <1>1
  <2>3. /\ (P * (q + 1) + (r + k - P)) \div P = q + 1
        /\ (P * (q + 1) + (r + k - P)) % P = r + k - P
    BY <2>1, Quotient
  <2> QED BY <1>4, <2>2, <2>3
<1> QED BY <1>3, <1>4

-----------------------------------------------------------------------------
(* mmu.c *)

\* The virtual pages, and the frame each is in.
LEMMA Pages ==
    ASSUME X86Assumption, layout \in Layouts, NEW va \in Virtual
    PROVE  /\ PAGEDIFF(va) \in 0..NrPages
           /\ va % PageSize \in 0..(PageSize - 1)
           /\ layout.frame[PAGEDIFF(va)] \in 0..NrPages
           /\ page_translate(va) \in 0..((NrPages + 1) * PageSize - 1)
<1> DEFINE q == va \div PageSize
           r == va % PageSize
           f == layout.frame[q]
<1>1. PageSize \in Nat \ {0} /\ NrPages \in Nat
  BY DEF X86Assumption
<1>2. r \in 0..(PageSize - 1) /\ q \in Int /\ va = PageSize * q + r
  <2>1. va \in Int
    BY <1>1 DEF Virtual, DataAddr
  <2> QED BY <1>1, <2>1, Division
<1>3. va >= 0 /\ va < (NrPages + 1) * PageSize
  BY <1>1 DEF Virtual, DataAddr
<1> HIDE DEF q, r
<1>4. q >= 0
  <2>1. SUFFICES ASSUME q <= -1 PROVE FALSE
    BY <1>2
  <2>2. PageSize * q <= -PageSize
    BY <1>1, <1>2, <2>1
  <2> QED BY <1>1, <1>2, <1>3, <2>2
<1>5. q <= NrPages
  <2>1. SUFFICES ASSUME q >= NrPages + 1 PROVE FALSE
    BY <1>1, <1>2
  <2>2. PageSize * q >= PageSize * (NrPages + 1)
    BY <1>1, <1>2, <2>1
  <2> QED BY <1>1, <1>2, <1>3, <2>2
<1>6. f \in 0..NrPages
  <2>1. layout.frame \in [0..NrPages -> 0..NrPages]
    BY DEF X86Assumption, LayoutOK
  <2>2. q \in 0..NrPages
    BY <1>1, <1>2, <1>4, <1>5
  <2> QED BY <2>1, <2>2
<1> HIDE DEF f
<1>7. f * PageSize + r \in 0..((NrPages + 1) * PageSize - 1)
  <2>1. f * PageSize >= 0 /\ f * PageSize <= NrPages * PageSize
    BY <1>1, <1>6
  <2>2. f * PageSize \in Int /\ NrPages * PageSize \in Int
        /\ (NrPages + 1) * PageSize = NrPages * PageSize + PageSize
    BY <1>1, <1>6
  <2> QED BY <1>1, <1>2, <2>1, <2>2
<1>8. page_translate(va) = f * PageSize + r
  BY DEF page_translate, PAGEDIFF, f, q, r
<1> QED BY <1>1, <1>2, <1>4, <1>5, <1>6, <1>7, <1>8 DEF PAGEDIFF, q, r, f

LEMMA VirtualCells ==
    ASSUME X86Assumption, layout \in Layouts, NEW va \in Virtual
    PROVE  page_translate(va) \in Addrs
<1>1. PageSize \in Nat \ {0} /\ NrPages \in Nat
  BY DEF X86Assumption
<1>2. (NrPages + 1) * PageSize =< (NrPages + 2) * PageSize
      /\ (NrPages + 1) * PageSize \in Int /\ (NrPages + 2) * PageSize \in Int
  BY <1>1
<1>3. page_translate(va) \in 0..((NrPages + 1) * PageSize - 1)
  BY Pages
<1> QED BY <1>2, <1>3 DEF Addrs

\* Different virtual addresses are different cells.
LEMMA Apart ==
    ASSUME X86Assumption, layout \in Layouts, NEW x \in Virtual, NEW y \in Virtual,
           page_translate(x) = page_translate(y)
    PROVE  x = y
<1>1. PageSize \in Nat \ {0} /\ NrPages \in Nat /\ x \in Int /\ y \in Int
  BY DEF X86Assumption, Virtual, DataAddr
<1> DEFINE f == layout.frame[PAGEDIFF(x)]
           g == layout.frame[PAGEDIFF(y)]
           r == x % PageSize
           s == y % PageSize
<1>2. f \in 0..NrPages /\ g \in 0..NrPages
      /\ r \in 0..(PageSize - 1) /\ s \in 0..(PageSize - 1)
      /\ PAGEDIFF(x) \in 0..NrPages /\ PAGEDIFF(y) \in 0..NrPages
  BY Pages
<1>3. f * PageSize + r = g * PageSize + s
  BY DEF page_translate
<1>4. f = g /\ r = s
  <2> HIDE DEF f, g, r, s
  <2>1. PageSize * f + r = PageSize * g + s /\ f \in Int /\ g \in Int
    BY <1>1, <1>2, <1>3
  <2>2. (PageSize * f + r) \div PageSize = f /\ (PageSize * f + r) % PageSize = r
    BY <1>1, <1>2, <2>1, Quotient
  <2>3. (PageSize * g + s) \div PageSize = g /\ (PageSize * g + s) % PageSize = s
    BY <1>1, <1>2, <2>1, Quotient
  <2> QED BY <2>1, <2>2, <2>3
<1>5. PAGEDIFF(x) = PAGEDIFF(y)
  BY <1>2, <1>4 DEF X86Assumption, LayoutOK
<1>6. x = PageSize * PAGEDIFF(x) + r /\ y = PageSize * PAGEDIFF(y) + s
  BY <1>1, Division DEF PAGEDIFF
<1> QED BY <1>4, <1>5, <1>6

\* A few bytes further on: in the same frame, or in the one of the next page.
LEMMA BytesOn ==
    ASSUME X86Assumption, layout \in Layouts, NEW va \in Virtual, NEW k \in 0..3
    PROVE  page_translate(va + k) =
              IF (va % PageSize) + k < PageSize THEN page_translate(va) + k
              ELSE layout.frame[PAGEDIFF(va) + 1] * PageSize
                   + ((va % PageSize) + k - PageSize)
<1>1. PageSize \in Nat \ {0} /\ PageSize > 4 /\ NrPages \in Nat /\ va \in Int
  BY DEF X86Assumption, Virtual, DataAddr
<1>2. layout.frame[PAGEDIFF(va)] \in Int /\ va % PageSize \in Int
  BY Pages
<1>3. k \in 0..(PageSize - 1)
  BY <1>1
<1>4. CASE (va % PageSize) + k < PageSize
  <2>1. PAGEDIFF(va + k) = PAGEDIFF(va) /\ (va + k) % PageSize = (va % PageSize) + k
    BY <1>1, <1>3, <1>4, Further DEF PAGEDIFF
  <2> QED BY <1>1, <1>2, <1>4, <2>1 DEF page_translate
<1>5. CASE ~((va % PageSize) + k < PageSize)
  <2>1. /\ PAGEDIFF(va + k) = PAGEDIFF(va) + 1
        /\ (va + k) % PageSize = (va % PageSize) + k - PageSize
    BY <1>1, <1>3, <1>5, Further DEF PAGEDIFF
  <2> QED BY <1>5, <2>1 DEF page_translate
<1> QED BY <1>4, <1>5

\* A word crosses pages if it starts among the last three bytes of one.
LEMMA CrossesAt ==
    ASSUME X86Assumption, layout \in Layouts, NEW va \in Virtual
    PROVE  Crosses(va) <=> Split(va) \in 0..2
<1>1. PageSize \in Nat \ {0} /\ PageSize > 4 /\ va \in Int
  BY DEF X86Assumption, Virtual, DataAddr
<1>2. va % PageSize \in 0..(PageSize - 1) /\ PAGEDIFF(va) \in Int
  BY Pages
<1>3. IF (va % PageSize) + 3 < PageSize
      THEN PAGEDIFF(va + 3) = PAGEDIFF(va) ELSE PAGEDIFF(va + 3) = PAGEDIFF(va) + 1
  <2>1. 3 \in 0..(PageSize - 1)
    BY <1>1
  <2> QED BY <1>1, <2>1, Further DEF PAGEDIFF
<1> QED BY <1>1, <1>2, <1>3 DEF Crosses, Split

\* The sequence x is the n bytes at va.
ReadsAt(x, m, va, n) ==
    /\ x \in Seq({m[a] : a \in Int}) /\ Len(x) = n
    /\ \A i \in 1..n : x[i] = m[page_translate(va + (i - 1))]

LEMMA ReadPart ==
    ASSUME NEW m, NEW va \in Int, NEW n \in Nat, page_translate(va) \in Int,
           \A i \in 0..(n - 1) : page_translate(va + i) = page_translate(va) + i
    PROVE  ReadsAt(paddr_read(m, page_translate(va), n), m, va, n)
<1> DEFINE pa == page_translate(va)
           S == {m[a] : a \in Int}
           x == [i \in 1..n |-> m[pa + i - 1]]
<1>1. \A i \in 1..n : pa + i - 1 \in Int /\ pa + i - 1 = page_translate(va + (i - 1))
  OBVIOUS
<1>2. x \in Seq(S) /\ Len(x) = n /\ \A i \in 1..n : x[i] = m[pa + i - 1]
  OBVIOUS
<1> HIDE DEF pa, x
<1>3. ReadsAt(x, m, va, n)
  BY <1>1, <1>2 DEF ReadsAt
<1> QED BY <1>3 DEF paddr_read, pa, x

LEMMA JoinReads ==
    ASSUME NEW m, NEW va \in Int, NEW n \in Nat, NEW k \in Nat, NEW x, NEW y,
           ReadsAt(x, m, va, n), ReadsAt(y, m, va + n, k)
    PROVE  ReadsAt(x \o y, m, va, n + k)
<1> DEFINE S == {m[a] : a \in Int}
<1>1. x \in Seq(S) /\ y \in Seq(S) /\ Len(x) = n /\ Len(y) = k
  BY DEF ReadsAt
<1> HIDE DEF S
<1>2. /\ x \o y \in Seq(S) /\ Len(x \o y) = n + k
      /\ \A i \in 1..(n + k) : (x \o y)[i] = IF i <= n THEN x[i] ELSE y[i - n]
  BY <1>1, ConcatProperties
<1>3. ASSUME NEW i \in 1..(n + k) PROVE (x \o y)[i] = m[page_translate(va + (i - 1))]
  <2>1. CASE i <= n
    BY <1>2, <2>1 DEF ReadsAt
  <2>2. CASE ~(i <= n)
    <3>1. i - n \in 1..k /\ va + n + ((i - n) - 1) = va + (i - 1)
      BY <2>2
    <3> QED BY <1>2, <2>2, <3>1 DEF ReadsAt
  <2> QED BY <2>1, <2>2
<1> QED BY <1>2, <1>3 DEF ReadsAt, S

\* A read gives the four bytes at the address, whatever pages they are in.
LEMMA Read ==
    ASSUME X86Assumption, layout \in Layouts, NEW m, NEW va \in Virtual,
           va + 3 \in Virtual
    PROVE  isa_vaddr_read(m, va) = [k \in 1..4 |-> m[page_translate(va + k - 1)]]
<1> DEFINE r == va % PageSize
           f == layout.frame[PAGEDIFF(va) + 1] * PageSize
           t(k) == page_translate(va + k)
           Part(k, n) == paddr_read(m, t(k), n)
<1>1. PageSize \in Nat /\ PageSize > 4 /\ va \in Int /\ r \in 0..(PageSize - 1)
      /\ \A k \in 0..3 : t(k) \in Int
  <2>1. PageSize \in Nat /\ PageSize > 4 /\ NrPages \in Nat
    BY DEF X86Assumption
  <2>2. va \in Nat /\ \A k \in 0..3 : va + k \in Virtual
    BY <2>1 DEF Virtual, DataAddr
  <2>3. \A k \in 0..3 : t(k) \in Int
    BY <2>2, <2>1, Pages
  <2> QED BY <2>1, <2>2, <2>3, Pages
<1>2. \A k \in 0..3 : t(k) = IF r + k < PageSize THEN t(0) + k ELSE f + (r + k - PageSize)
  <2>1. va + 0 = va
    BY <1>1
  <2> QED BY <2>1, BytesOn
<1>3. Crosses(va) <=> Split(va) \in 0..2
  BY CrossesAt
<1>4. Split(va) = PageSize - 1 - r
  BY DEF Split
<1>5. r + 3 >= PageSize => f \in Int
  <2>1. SUFFICES ASSUME r + 3 >= PageSize PROVE f \in Int
    OBVIOUS
  <2>2. 3 \in 0..(PageSize - 1) /\ PageSize \in Nat \ {0}
    BY <1>1
  <2>3. PAGEDIFF(va + 3) = PAGEDIFF(va) + 1
    BY <1>1, <2>1, <2>2, Further DEF PAGEDIFF
  <2>4. layout.frame[PAGEDIFF(va + 3)] \in 0..NrPages
    BY Pages
  <2> QED BY <1>1, <2>3, <2>4 DEF X86Assumption
<1>6. ASSUME NEW k \in 0..3, NEW n \in 1..(4 - k), \A i \in 0..(n - 1) : t(k + i) = t(k) + i
      PROVE  ReadsAt(Part(k, n), m, va + k, n)
  <2>1. va + k \in Int /\ page_translate(va + k) \in Int
    BY <1>1
  <2>2. \A i \in 0..(n - 1) : page_translate((va + k) + i) = page_translate(va + k) + i
    <3>1. \A i \in 0..(n - 1) : (va + k) + i = va + (k + i)
      BY <1>1
    <3> QED BY <1>6, <3>1
  <2> HIDE DEF r, f
  <2> QED BY <2>1, <2>2, ReadPart
<1>7. ASSUME NEW k \in 0..3 PROVE ReadsAt(Part(k, 1), m, va + k, 1)
  <2>1. \A i \in 0..(1 - 1) : t(k + i) = t(k) + i
    BY <1>1
  <2> QED BY <1>6, <2>1
<1>8. SUFFICES ReadsAt(isa_vaddr_read(m, va), m, va + 0, 4)
  <2> DEFINE x == isa_vaddr_read(m, va)
  <2>1. va + 0 = va /\ \A k \in 1..4 : va + k - 1 = va + (k - 1)
    BY <1>1
  <2>2. x \in Seq({m[a] : a \in Int}) /\ Len(x) = 4
        /\ \A k \in 1..4 : x[k] = m[page_translate(va + k - 1)]
    BY <1>8, <2>1 DEF ReadsAt
  <2> HIDE DEF x
  <2>3. x = [k \in 1..4 |-> x[k]]
    BY <2>2
  <2> QED BY <2>2, <2>3 DEF x
<1>9. CASE ~Crosses(va)
  <2>1. isa_vaddr_read(m, va) = Part(0, 4)
    BY <1>9 DEF isa_vaddr_read
  <2>2. \A i \in 0..(4 - 1) : t(0 + i) = t(0) + i
    BY <1>1, <1>2, <1>3, <1>4, <1>9
  <2> QED BY <1>6, <2>1, <2>2
<1>10. CASE Crosses(va) /\ Split(va) = 1
  <2>1. isa_vaddr_read(m, va) = Part(0, 2) \o Part(2, 2)
    BY <1>10 DEF isa_vaddr_read
  <2>2. t(1) = t(0) + 1 /\ t(3) = t(2) + 1
    <3> HIDE DEF r, f, t
    <3>1. f \in Int /\ r = PageSize - 2
      BY <1>1, <1>4, <1>5, <1>10
    <3>2. t(1) = t(0) + 1 /\ t(2) = f /\ t(3) = f + 1
      BY <1>1, <1>2, <3>1
    <3> QED BY <3>2
  <2>3. \A i \in 0..(2 - 1) : t(0 + i) = t(0) + i /\ t(2 + i) = t(2) + i
    BY <1>1, <2>2
  <2>4. ReadsAt(Part(0, 2), m, va + 0, 2) /\ ReadsAt(Part(2, 2), m, va + 2, 2)
    BY <1>6, <2>3
  <2>5. va + 0 \in Int /\ va + 2 = (va + 0) + 2 /\ 2 + 2 = 4
    BY <1>1
  <2> HIDE DEF Part
  <2> QED BY <2>1, <2>4, <2>5, JoinReads
<1>11. CASE Crosses(va) /\ Split(va) = 2
  <2>1. isa_vaddr_read(m, va) = Part(0, 2) \o Part(2, 1) \o Part(3, 1)
    BY <1>11 DEF isa_vaddr_read
  <2>2. t(1) = t(0) + 1
    BY <1>1, <1>2, <1>4, <1>11
  <2>3. \A i \in 0..(2 - 1) : t(0 + i) = t(0) + i
    BY <1>1, <2>2
  <2>4. /\ ReadsAt(Part(0, 2), m, va + 0, 2) /\ ReadsAt(Part(2, 1), m, va + 2, 1)
        /\ ReadsAt(Part(3, 1), m, va + 3, 1)
    BY <1>6, <1>7, <2>3
  <2>5. va + 0 \in Int /\ va + 2 = (va + 0) + 2 /\ va + 3 = (va + 0) + 3
        /\ 2 + 1 = 3 /\ 3 + 1 = 4
    BY <1>1
  <2> HIDE DEF Part
  <2>6. ReadsAt(Part(0, 2) \o Part(2, 1), m, va + 0, 3)
    BY <2>4, <2>5, JoinReads
  <2> QED BY <2>1, <2>4, <2>5, <2>6, JoinReads
<1>12. CASE Crosses(va) /\ Split(va) = 0
  <2>1. isa_vaddr_read(m, va) = Part(0, 1) \o Part(1, 2) \o Part(3, 1)
    BY <1>12 DEF isa_vaddr_read
  <2>2. t(2) = t(1) + 1
    <3> HIDE DEF r, f, t
    <3>1. f \in Int /\ r = PageSize - 1
      BY <1>1, <1>4, <1>5, <1>12
    <3>2. t(1) = f /\ t(2) = f + 1
      BY <1>1, <1>2, <3>1
    <3> QED BY <3>2
  <2>3. \A i \in 0..(2 - 1) : t(1 + i) = t(1) + i
    BY <1>1, <2>2
  <2>4. /\ ReadsAt(Part(0, 1), m, va + 0, 1) /\ ReadsAt(Part(1, 2), m, va + 1, 2)
        /\ ReadsAt(Part(3, 1), m, va + 3, 1)
    BY <1>6, <1>7, <2>3
  <2>5. va + 0 \in Int /\ va + 1 = (va + 0) + 1 /\ va + 3 = (va + 0) + 3
        /\ 1 + 2 = 3 /\ 3 + 1 = 4
    BY <1>1
  <2> HIDE DEF Part
  <2>6. ReadsAt(Part(0, 1) \o Part(1, 2), m, va + 0, 3)
    BY <2>4, <2>5, JoinReads
  <2> QED BY <2>1, <2>4, <2>5, <2>6, JoinReads
<1> QED BY <1>3, <1>9, <1>10, <1>11, <1>12

\* isa_vaddr_write can write a word here, and its frames follow one another.
WordFits(va) ==
    Crosses(va) => Split(va) = 1 /\ page_translate(va + 2) = page_translate(va) + 2

\* The emulator goes on after writing a word that fits, and after no other.
LEMMA GoesOn ==
    ASSUME NEW end, NEW va
    PROVE  EndAfter(end, va) = "no" <=> end = "no" /\ WordFits(va)
BY DEF EndAfter, WordFits, CanWrite, Spills

\* The bytes of a word that fits are side by side.
LEMMA SideBySide ==
    ASSUME X86Assumption, layout \in Layouts, NEW va \in Virtual, va + 3 \in Virtual,
           WordFits(va)
    PROVE  /\ page_translate(va) \in Int
           /\ \A k \in 0..3 : page_translate(va + k) = page_translate(va) + k
<1> DEFINE r == va % PageSize
           f == layout.frame[PAGEDIFF(va) + 1] * PageSize
           t(k) == page_translate(va + k)
<1>1. PageSize \in Nat /\ PageSize > 4 /\ NrPages \in Nat /\ va \in Int
      /\ r \in 0..(PageSize - 1)
  <2>1. PageSize \in Nat /\ PageSize > 4 /\ NrPages \in Nat
    BY DEF X86Assumption
  <2>2. va \in Nat
    BY <2>1 DEF Virtual, DataAddr
  <2> QED BY <2>1, <2>2, Pages
<1>2. \A k \in 0..3 : t(k) = IF r + k < PageSize THEN page_translate(va) + k
                             ELSE f + (r + k - PageSize)
  BY BytesOn
<1>3. Crosses(va) <=> Split(va) \in 0..2
  BY CrossesAt
<1>4. Split(va) = PageSize - 1 - r
  BY DEF Split
<1>5. page_translate(va) \in Int
  <2>1. layout.frame[PAGEDIFF(va)] \in Int
    BY Pages
  <2> QED BY <1>1, <2>1 DEF page_translate
<1>6. CASE ~Crosses(va)
  BY <1>1, <1>2, <1>3, <1>4, <1>5, <1>6
<1>7. CASE Crosses(va)
  <2>1. r = PageSize - 2 /\ t(2) = page_translate(va) + 2
    BY <1>1, <1>4, <1>7 DEF WordFits
  <2>2. f \in Int
    <3>1. 3 \in 0..(PageSize - 1) /\ PageSize \in Nat \ {0} /\ r + 3 >= PageSize
      BY <1>1, <2>1
    <3>2. PAGEDIFF(va + 3) = PAGEDIFF(va) + 1
      BY <1>1, <3>1, Further DEF PAGEDIFF
    <3>3. layout.frame[PAGEDIFF(va + 3)] \in 0..NrPages
      BY Pages
    <3> QED BY <1>1, <3>2, <3>3
  <2> HIDE DEF r, f
  <2>3. t(0) = page_translate(va) /\ t(1) = page_translate(va) + 1
        /\ t(2) = f /\ t(3) = f + 1
    BY <1>1, <1>2, <2>1, <2>2
  <2> QED BY <1>5, <2>1, <2>3
<1> QED BY <1>5, <1>6, <1>7

\* With an even layout every word of the stack fits: it crosses no pages, or in
\* the middle.
LEMMA StackWordFits ==
    ASSUME X86Assumption, layout \in Layouts, Even, NEW va \in Virtual, va + 3 \in Virtual,
           va % 4 = layout.top % 4
    PROVE  WordFits(va)
<1> DEFINE r == va % PageSize
           q == PAGEDIFF(va)
           f == layout.frame
<1>1. PageSize \in Nat \ {0} /\ PageSize > 4 /\ NrPages \in Nat /\ va \in Int
      /\ r \in 0..(PageSize - 1) /\ q \in 0..NrPages
  <2>1. PageSize \in Nat \ {0} /\ PageSize > 4 /\ NrPages \in Nat
    BY DEF X86Assumption
  <2>2. va \in Nat
    BY <2>1 DEF Virtual, DataAddr
  <2> QED BY <2>1, <2>2, Pages
<1>2. SUFFICES ASSUME Crosses(va)
               PROVE  Split(va) = 1 /\ page_translate(va + 2) = page_translate(va) + 2
  BY DEF WordFits
<1>3. r \in (PageSize - 3)..(PageSize - 1)
  BY <1>1, <1>2, CrossesAt DEF Split
<1>4. PICK p \in Int : PageSize = 4 * p
  <2>1. PageSize = 4 * (PageSize \div 4) + (PageSize % 4) /\ PageSize \div 4 \in Int
    BY <1>1
  <2> QED BY <2>1 DEF X86Assumption
<1>5. va % 4 = r % 4
  <2>1. va = PageSize * q + r
    BY <1>1, Division DEF PAGEDIFF
  <2>2. PICK z \in Int : z = p * q
    BY <1>1, <1>4
  <2>3. PageSize * q = 4 * z
    BY <1>1, <1>4, <2>2
  <2>4. \A i, j \in Int : (4 * i + j) % 4 = j % 4
    OBVIOUS
  <2>5. r \in Int
    BY <1>1
  <2> HIDE DEF r, q
  <2>6. va = 4 * z + r
    BY <2>1, <2>3
  <2> QED BY ONLY z \in Int, <2>4, <2>5, <2>6
<1>6. layout.top % 4 = 2 /\ r = PageSize - 2
      /\ \A i \in 1..NrPages : f[i] = f[i - 1] + 1
  <2>1. \/ layout.top % 4 = 0
        \/ layout.top % 4 = 2 /\ \A i \in 1..NrPages : f[i] = f[i - 1] + 1
    BY DEF Even
  <2>2. r % 4 \in {0, 2}
    BY <1>5, <2>1
  <2> HIDE DEF r
  <2>3. r = PageSize - 2
    BY <1>1, <1>3, <1>4, <2>2
  <2>4. r % 4 = 2
    BY <1>1, <1>4, <2>3
  <2> QED BY <1>5, <2>1, <2>3, <2>4
<1>7. q + 1 \in 1..NrPages
  <2>1. 3 \in 0..(PageSize - 1) /\ r + 3 >= PageSize
    BY <1>1, <1>6
  <2>2. PAGEDIFF(va + 3) = q + 1
    BY <1>1, <2>1, Further DEF PAGEDIFF
  <2>3. PAGEDIFF(va + 3) \in 0..NrPages
    BY Pages
  <2> QED BY <1>1, <2>2, <2>3
<1>8. f[q + 1] = f[q] + 1 /\ f[q] \in Int
  <2>1. (q + 1) - 1 = q
    BY <1>1
  <2>2. f[q] \in Int
    BY Pages
  <2> QED BY <1>6, <1>7, <2>1, <2>2
<1>9. page_translate(va + 2) = f[q + 1] * PageSize + (r + 2 - PageSize)
  BY <1>1, <1>6, BytesOn
<1>10. page_translate(va) = f[q] * PageSize + r
  BY DEF page_translate
<1>11. (f[q] + 1) * PageSize = f[q] * PageSize + PageSize
  BY <1>1, <1>8
<1>12. f[q] * PageSize \in Int
  BY <1>1, <1>8
<1> QED BY <1>1, <1>6, <1>8, <1>9, <1>10, <1>11, <1>12 DEF Split

LEMMA DataWordFits ==
    ASSUME X86Assumption, layout \in Layouts
    PROVE  DataAddr \in Virtual /\ DataAddr + 3 \in Virtual /\ WordFits(DataAddr)
<1>1. PageSize \in Nat \ {0} /\ PageSize > 4 /\ NrPages \in Nat
  BY DEF X86Assumption
<1>2. DataAddr \in Nat /\ DataAddr \in Virtual /\ DataAddr + 3 \in Virtual
  BY <1>1 DEF Virtual, DataAddr
<1>3. DataAddr % PageSize = 0
  <2>1. DataAddr = PageSize * NrPages + 0 /\ 0 \in 0..(PageSize - 1)
    BY <1>1 DEF DataAddr
  <2> QED BY <1>1, <2>1, Quotient
<1>4. ~(Split(DataAddr) \in 0..2)
  BY <1>1, <1>3 DEF Split
<1> QED BY <1>2, <1>4, CrossesAt DEF WordFits

\* Of the memory m the memory w differs in no more than the word at va.
OnlyAt(m, w, va) ==
    \A x \in Virtual :
        x \notin va..(va + 3) => w[page_translate(x)] = m[page_translate(x)]

\* A write puts the four bytes of the word at the address and changes no other.
LEMMA Write ==
    ASSUME X86Assumption, layout \in Layouts, NEW m, IsMemory(m),
           NEW va \in Virtual, va + 3 \in Virtual, WordFits(va), NEW word
    PROVE  LET w == isa_vaddr_write(m, va, word) IN
           IsMemory(w) /\ Holds(w, va, word) /\ OnlyAt(m, w, va)
<1> DEFINE t == page_translate(va)
           cells == Bytes(word)
           w == isa_vaddr_write(m, va, word)
           low == paddr_write(m, t, SubSeq(cells, 1, 2))
           split == paddr_write(low, HighAddr(va), SubSeq(cells, 3, 4))
           base == IF Crosses(va) THEN split ELSE m
<1>1. t \in Int /\ \A k \in 0..3 : page_translate(va + k) = t + k
  BY SideBySide
<1>3. PageSize \in Nat \ {0} /\ PageSize > 4 /\ NrPages \in Nat /\ va \in Int
  <2>1. PageSize \in Nat \ {0} /\ PageSize > 4 /\ NrPages \in Nat
    BY DEF X86Assumption
  <2> QED BY <2>1 DEF Virtual, DataAddr
<1>4. \A x \in Virtual : page_translate(x) \in Addrs
  BY VirtualCells
<1>5. \A k \in 0..3 : va + k \in Virtual /\ t + k \in Addrs
  <2>1. \A k \in 0..3 : va + k \in Virtual
    BY <1>3 DEF Virtual, DataAddr
  <2> QED BY <1>1, <1>4, <2>1
<1>6. Len(cells) = 4 /\ \A i \in 1..4 : cells[i] = <<word, i - 1>>
  BY DEF Bytes
<1>7. /\ Len(SubSeq(cells, 1, 2)) = 2 /\ Len(SubSeq(cells, 3, 4)) = 2
  BY DEF Bytes
<1>8. w = paddr_write(base, t, cells)
  BY DEF isa_vaddr_write
<1> HIDE DEF t, cells, w
<1>9. /\ base = [a \in Addrs |-> base[a]]
      /\ \A a \in Addrs : a \notin t..(t + 3) => base[a] = m[a]
  <2>1. CASE ~Crosses(va)
    BY <2>1 DEF IsMemory
  <2>2. CASE Crosses(va)
    <3>1. HighAddr(va) = t + 2
      BY <1>1 DEF HighAddr
    <3>2. /\ low = [a \in Addrs |-> low[a]]
          /\ \A a \in Addrs : a \notin t..(t + 1) => low[a] = m[a]
      BY <1>1, <1>7 DEF paddr_write, IsMemory
    <3> HIDE DEF low
    <3>3. /\ split = [a \in Addrs |-> split[a]]
          /\ \A a \in Addrs : a \notin (t + 2)..(t + 3) => split[a] = low[a]
      BY <1>1, <1>7, <3>1, <3>2 DEF paddr_write
    <3> HIDE DEF split
    <3>4. \A a \in Addrs : a \in Int
      BY <1>3 DEF Addrs
    <3>5. \A a \in Addrs : a \notin t..(t + 3) =>
              a \notin t..(t + 1) /\ a \notin (t + 2)..(t + 3)
      BY <1>1, <3>4
    <3> QED BY <2>2, <3>2, <3>3, <3>5
  <2> QED BY <2>1, <2>2
<1> HIDE DEF base
<1>10. /\ w = [a \in Addrs |-> w[a]]
       /\ \A a \in Addrs : w[a] = IF a \in t..(t + 3) THEN cells[a - t + 1] ELSE base[a]
  BY <1>1, <1>6, <1>8, <1>9 DEF paddr_write
<1>11. Holds(w, va, word)
  <2>1. \A k \in 0..3 : w[t + k] = <<word, k>>
    <3>1. SUFFICES ASSUME NEW k \in 0..3 PROVE w[t + k] = <<word, k>>
      OBVIOUS
    <3>2. t + k \in t..(t + 3) /\ (t + k) - t + 1 = k + 1 /\ k + 1 \in 1..4
          /\ (k + 1) - 1 = k
      BY <1>1
    <3>3. w[t + k] = cells[k + 1]
      BY <1>5, <1>10, <3>2
    <3> QED BY <1>6, <3>2, <3>3
  <2> QED BY <1>1, <2>1 DEF Holds
<1>12. ASSUME NEW x \in Virtual, x \notin va..(va + 3)
       PROVE  w[page_translate(x)] = m[page_translate(x)]
  <2>1. page_translate(x) \notin t..(t + 3)
    <3>1. SUFFICES ASSUME page_translate(x) \in t..(t + 3) PROVE FALSE
      OBVIOUS
    <3>2. PICK k \in 0..3 : page_translate(x) = t + k
      <4>1. page_translate(x) - t \in 0..3 /\ page_translate(x) = t + (page_translate(x) - t)
        BY <1>1, <3>1
      <4> QED BY <4>1
    <3>3. x = va + k
      BY <1>1, <1>5, <3>2, Apart
    <3> QED BY <1>3, <1>12, <3>3
  <2> QED BY <1>4, <1>9, <1>10, <2>1
<1>13. IsMemory(w) /\ Holds(w, va, word) /\ OnlyAt(m, w, va)
  BY <1>10, <1>11, <1>12 DEF IsMemory, OnlyAt
<1> QED BY <1>13 DEF w

-----------------------------------------------------------------------------
(* The memory behind the stack. *)

\* Where the words of the stack are.
LEMMA StackPlaces ==
    ASSUME X86Assumption, layout \in Layouts, NEW n \in Nat, 4 * n <= layout.top
    PROVE  /\ layout.top \in Nat /\ layout.top <= DataAddr /\ DataAddr \in Nat
           /\ PageSize \in Nat /\ PageSize > 4
           /\ \A i \in 1..n : LET va == layout.top - 4 * i IN
                /\ va \in Virtual /\ va + 3 \in Virtual /\ va + 3 < layout.top
                /\ va % 4 = layout.top % 4
<1>1. PageSize \in Nat /\ PageSize > 4 /\ NrPages \in Nat /\ MaxWords \in Nat
      /\ MaxNesting \in Nat
  BY DEF X86Assumption
<1>2. DataAddr \in Nat
  BY <1>1 DEF DataAddr
<1>3. layout.top \in (4 * (MaxWords + 3 * MaxNesting))..DataAddr
  BY DEF X86Assumption, LayoutOK, DataAddr
<1>4. layout.top \in Nat /\ layout.top <= DataAddr
  <2>1. 4 * (MaxWords + 3 * MaxNesting) \in Nat
    BY <1>1
  <2> QED BY <1>2, <1>3, <2>1
<1>5. ASSUME NEW i \in 1..n
      PROVE  LET va == layout.top - 4 * i IN
             /\ va \in Virtual /\ va + 3 \in Virtual /\ va + 3 < layout.top
             /\ va % 4 = layout.top % 4
  <2> DEFINE va == layout.top - 4 * i
  <2>1. va \in Nat /\ va + 3 < layout.top
    BY <1>4
  <2>2. va \in Virtual /\ va + 3 \in Virtual
    BY <1>1, <1>2, <1>4, <2>1 DEF Virtual
  <2>3. va % 4 = layout.top % 4
    BY <1>4
  <2> QED BY <2>1, <2>2, <2>3
<1> QED BY <1>1, <1>2, <1>4, <1>5

\* A word whose bytes are all outside is kept.
LEMMA HoldsKept ==
    ASSUME NEW m, NEW w, NEW va \in Int, NEW y \in Int, NEW word,
           y \in Virtual, y + 3 \in Virtual, DataAddr + PageSize - 1 \in Int,
           OnlyAt(m, w, va), Holds(m, y, word), y + 3 < va \/ va + 3 < y
    PROVE  Holds(w, y, word)
<1>1. SUFFICES ASSUME NEW k \in 0..3 PROVE w[page_translate(y + k)] = <<word, k>>
  BY DEF Holds
<1>2. y + k \in Virtual
  BY DEF Virtual
<1>3. y + k \notin va..(va + 3)
  OBVIOUS
<1> QED BY <1>2, <1>3 DEF Holds, OnlyAt

\* A word written below the stack leaves the memory good behind the new stack.
LEMMA PushMem ==
    ASSUME X86Assumption, layout \in Layouts, NEW m, NEW st \in Seq(Words), NEW dat,
           MemGood(m, st, dat), 4 * (Len(st) + 1) <= layout.top, NEW word \in Words,
           WordFits(layout.top - 4 * Len(st) - 4)
    PROVE  LET e == layout.top - 4 * Len(st) - 4 IN
           MemGood(isa_vaddr_write(m, e, word), Append(st, word), dat)
<1> DEFINE n == Len(st)
           e == layout.top - 4 * n - 4
           w == isa_vaddr_write(m, e, word)
           top == layout.top
<1>1. n \in Nat
  OBVIOUS
<1>2. /\ top \in Nat /\ top <= DataAddr /\ DataAddr \in Nat
      /\ PageSize \in Nat /\ PageSize > 4
      /\ \A i \in 1..(n + 1) : /\ top - 4 * i \in Virtual /\ top - 4 * i + 3 \in Virtual
                               /\ top - 4 * i + 3 < top
  <2>1. n + 1 \in Nat /\ 4 * (n + 1) <= top
    BY <1>1
  <2> HIDE DEF n
  <2> QED BY <2>1, StackPlaces
<1>3. e = top - 4 * (n + 1) /\ n + 1 \in 1..(n + 1) /\ e \in Int
  BY <1>1, <1>2
<1>4. e \in Virtual /\ e + 3 \in Virtual /\ WordFits(e) /\ e + 3 < top
  BY <1>2, <1>3
<1>5. IsMemory(w) /\ Holds(w, e, word) /\ OnlyAt(m, w, e)
  <2>1. IsMemory(m)
    BY DEF MemGood
  <2> HIDE DEF e
  <2> QED BY <1>4, <2>1, Write
<1>6. /\ DataAddr + PageSize - 1 \in Int
      /\ DataAddr \in Virtual /\ DataAddr + 3 \in Virtual
  BY <1>2 DEF Virtual
<1> HIDE DEF w, e, n, top
<1>7. /\ Len(Append(st, word)) = n + 1
      /\ \A i \in 1..n : Append(st, word)[i] = st[i]
      /\ Append(st, word)[n + 1] = word
  BY AppendProperties DEF n
<1>8. ASSUME NEW i \in 1..(n + 1) PROVE Holds(w, top - 4 * i, Append(st, word)[i])
  <2>1. CASE i = n + 1
    BY <1>3, <1>5, <1>7, <2>1
  <2>2. CASE i \in 1..n
    <3>1. Holds(m, top - 4 * i, st[i])
      BY <2>2 DEF MemGood, n, top
    <3>2. top - 4 * i \in Virtual /\ top - 4 * i + 3 \in Virtual /\ top - 4 * i \in Int
      BY <1>1, <1>2, <2>2
    <3>3. e + 3 < top - 4 * i
      BY <1>1, <1>2, <1>3, <2>2
    <3>4. Holds(w, top - 4 * i, st[i])
      BY <1>3, <1>5, <1>6, <3>1, <3>2, <3>3, HoldsKept
    <3> QED BY <1>7, <2>2, <3>4
  <2>3. i = n + 1 \/ i \in 1..n
    BY <1>1
  <2> QED BY <2>1, <2>2, <2>3
<1>9. Holds(w, DataAddr, dat)
  <2>1. Holds(m, DataAddr, dat)
    BY DEF MemGood
  <2>2. e + 3 < DataAddr
    BY <1>2, <1>3, <1>4
  <2> QED BY <1>2, <1>3, <1>5, <1>6, <2>1, <2>2, HoldsKept
<1>10. Untouched(w)
  <2>1. SUFFICES ASSUME NEW va \in top..(DataAddr + PageSize - 1),
                        va \notin DataAddr..(DataAddr + 3)
                 PROVE  w[page_translate(va)] = InitialCell(page_translate(va))
    BY DEF Untouched, top
  <2>2. va \in Virtual /\ va \notin e..(e + 3)
    BY <1>2, <1>3, <1>4 DEF Virtual
  <2>3. m[page_translate(va)] = InitialCell(page_translate(va))
    BY <2>1 DEF MemGood, Untouched, top
  <2> QED BY <1>5, <2>2, <2>3 DEF OnlyAt
<1>11. MemGood(w, Append(st, word), dat)
  BY <1>5, <1>7, <1>8, <1>9, <1>10 DEF MemGood, top
<1> QED BY <1>11 DEF w, e, n, top

\* A word stored among the data does not touch the stack.
LEMMA StoreMem ==
    ASSUME X86Assumption, layout \in Layouts, NEW m, NEW st \in Seq(Words), NEW dat,
           MemGood(m, st, dat), 4 * Len(st) <= layout.top, NEW word
    PROVE  MemGood(isa_vaddr_write(m, DataAddr, word), st, word)
<1> DEFINE n == Len(st)
           w == isa_vaddr_write(m, DataAddr, word)
           top == layout.top
<1>1. n \in Nat
  OBVIOUS
<1>2. /\ top \in Nat /\ top <= DataAddr /\ DataAddr \in Nat
      /\ PageSize \in Nat /\ PageSize > 4
      /\ \A i \in 1..n : /\ top - 4 * i \in Virtual /\ top - 4 * i + 3 \in Virtual
                         /\ top - 4 * i + 3 < top
  BY <1>1, StackPlaces
<1>3. IsMemory(w) /\ Holds(w, DataAddr, word) /\ OnlyAt(m, w, DataAddr)
  <2>1. IsMemory(m)
    BY DEF MemGood
  <2> QED BY <2>1, DataWordFits, Write
<1>4. DataAddr + PageSize - 1 \in Int
  BY <1>2
<1> HIDE DEF w, n, top
<1>5. ASSUME NEW i \in 1..n PROVE Holds(w, top - 4 * i, st[i])
  <2>1. Holds(m, top - 4 * i, st[i])
    BY DEF MemGood, n, top
  <2>2. top - 4 * i \in Virtual /\ top - 4 * i + 3 \in Virtual /\ top - 4 * i \in Int
        /\ top - 4 * i + 3 < DataAddr
    BY <1>1, <1>2
  <2> QED BY <1>2, <1>3, <1>4, <2>1, <2>2, HoldsKept
<1>6. Untouched(w)
  <2>1. SUFFICES ASSUME NEW va \in top..(DataAddr + PageSize - 1),
                        va \notin DataAddr..(DataAddr + 3)
                 PROVE  w[page_translate(va)] = InitialCell(page_translate(va))
    BY DEF Untouched, top
  <2>2. va \in Virtual
    BY <1>2 DEF Virtual
  <2>3. m[page_translate(va)] = InitialCell(page_translate(va))
    BY <2>1 DEF MemGood, Untouched, top
  <2> QED BY <1>3, <2>1, <2>2, <2>3 DEF OnlyAt
<1>7. MemGood(w, st, word)
  BY <1>3, <1>5, <1>6 DEF MemGood, n, top
<1> QED BY <1>7 DEF w

\* What a pop reads is the word on top of the stack.
LEMMA HeldWord ==
    ASSUME X86Assumption, layout \in Layouts, NEW m, NEW va \in Virtual,
           va + 3 \in Virtual, NEW word, Holds(m, va, word)
    PROVE  Word(isa_vaddr_read(m, va)) = word
<1> DEFINE cells == isa_vaddr_read(m, va)
<1>1. va \in Int
  BY DEF Virtual, X86Assumption
<1>2. cells = [k \in 1..4 |-> m[page_translate(va + k - 1)]]
  BY Read
<1>3. \A k \in 1..4 : m[page_translate(va + k - 1)] = <<word, k - 1>>
  <2>1. SUFFICES ASSUME NEW k \in 1..4 PROVE m[page_translate(va + k - 1)] = <<word, k - 1>>
    OBVIOUS
  <2>2. va + k - 1 = va + (k - 1) /\ k - 1 \in 0..3
    BY <1>1
  <2> QED BY <2>2 DEF Holds
<1>4. cells = [k \in 1..4 |-> <<word, k - 1>>]
  BY <1>2, <1>3
<1>5. cells[1][1] = word
  BY <1>4
<1> HIDE DEF cells
<1>6. Word(cells) = word
  BY <1>4, <1>5 DEF Word, Bytes
<1> QED BY <1>6 DEF cells

LEMMA PopWord ==
    ASSUME X86Assumption, layout \in Layouts, NEW m, NEW st \in Seq(Words), NEW dat,
           MemGood(m, st, dat), 4 * Len(st) <= layout.top, NEW i \in 1..Len(st)
    PROVE  Word(isa_vaddr_read(m, layout.top - 4 * i)) = st[i]
<1> DEFINE va == layout.top - 4 * i
<1>1. va \in Virtual /\ va + 3 \in Virtual
  BY StackPlaces
<1>2. Holds(m, va, st[i])
  BY DEF MemGood
<1> HIDE DEF va
<1>3. Word(isa_vaddr_read(m, va)) = st[i]
  BY <1>1, <1>2, HeldWord
<1> QED BY <1>3 DEF va

\* A word that was popped is forgotten.
LEMMA ShrinkMem ==
    ASSUME X86Assumption, layout \in Layouts, NEW m, NEW st \in Seq(Words), NEW dat,
           MemGood(m, st, dat), 4 * Len(st) <= layout.top, st # <<>>, NEW fr,
           fr \in Seq(Words), Len(fr) = Len(st) - 1, \A i \in 1..Len(fr) : fr[i] = st[i]
    PROVE  LET e == layout.top - 4 * Len(st)
               gone == {page_translate(e + k) : k \in 0..3}
           IN  MemGood([a \in DOMAIN m |-> IF a \in gone THEN Dead ELSE m[a]], fr, dat)
<1> DEFINE n == Len(st)
           top == layout.top
           e == top - 4 * n
           gone == {page_translate(e + k) : k \in 0..3}
           w == [a \in DOMAIN m |-> IF a \in gone THEN Dead ELSE m[a]]
<1>1. n \in Nat /\ n > 0 /\ n \in 1..n
  <2>1. n # 0
    BY EmptySeq
  <2> QED BY <2>1
<1>2. /\ top \in Nat /\ top <= DataAddr /\ DataAddr \in Nat
      /\ PageSize \in Nat /\ PageSize > 4
      /\ \A i \in 1..n : /\ top - 4 * i \in Virtual /\ top - 4 * i + 3 \in Virtual
                         /\ top - 4 * i + 3 < top
  BY <1>1, StackPlaces
<1>3. e \in Virtual /\ e + 3 \in Virtual /\ e \in Int /\ e + 3 < top
  BY <1>1, <1>2
<1>4. DataAddr + PageSize - 1 \in Int /\ DataAddr \in Virtual /\ DataAddr + 3 \in Virtual
  BY <1>2 DEF Virtual
<1>5. m = [a \in Addrs |-> m[a]] /\ DOMAIN m = Addrs
  BY DEF MemGood, IsMemory
<1>6. IsMemory(w)
  BY <1>5 DEF IsMemory
<1>7. \A a \in Addrs : a \notin gone => w[a] = m[a]
  BY <1>5
<1> HIDE DEF w
<1>8. OnlyAt(m, w, e)
  <2>1. SUFFICES ASSUME NEW x \in Virtual, x \notin e..(e + 3)
                 PROVE  w[page_translate(x)] = m[page_translate(x)]
    BY DEF OnlyAt
  <2>2. page_translate(x) \in Addrs
    BY VirtualCells
  <2>3. page_translate(x) \notin gone
    <3>1. SUFFICES ASSUME NEW k \in 0..3, page_translate(x) = page_translate(e + k)
                   PROVE  FALSE
      OBVIOUS
    <3> HIDE DEF e
    <3>2. e + k \in Virtual
      BY <1>3, <1>4 DEF Virtual
    <3>3. x = e + k
      BY <3>1, <3>2, Apart
    <3> QED BY <1>3, <2>1, <3>3
  <2> QED BY <1>7, <2>2, <2>3
<1> HIDE DEF gone, e, n, top
<1>9. ASSUME NEW i \in 1..Len(fr) PROVE Holds(w, top - 4 * i, fr[i])
  <2>1. i \in 1..n /\ i < n
    BY <1>1 DEF n
  <2>2. Holds(m, top - 4 * i, fr[i])
    BY <2>1 DEF MemGood, n, top
  <2>3. top - 4 * i \in Virtual /\ top - 4 * i + 3 \in Virtual /\ top - 4 * i \in Int
    BY <1>2, <2>1
  <2>4. e + 3 < top - 4 * i
    BY <1>1, <1>2, <2>1 DEF e
  <2> QED BY <1>3, <1>4, <1>8, <2>2, <2>3, <2>4, HoldsKept
<1>10. Holds(w, DataAddr, dat)
  <2>1. Holds(m, DataAddr, dat)
    BY DEF MemGood
  <2>2. e + 3 < DataAddr
    BY <1>2, <1>3
  <2> QED BY <1>2, <1>3, <1>4, <1>8, <2>1, <2>2, HoldsKept
<1>11. Untouched(w)
  <2>1. SUFFICES ASSUME NEW va \in top..(DataAddr + PageSize - 1),
                        va \notin DataAddr..(DataAddr + 3)
                 PROVE  w[page_translate(va)] = InitialCell(page_translate(va))
    BY DEF Untouched, top
  <2>2. va \in Virtual /\ va \notin e..(e + 3)
    BY <1>2, <1>3 DEF Virtual
  <2>3. m[page_translate(va)] = InitialCell(page_translate(va))
    BY <2>1 DEF MemGood, Untouched, top
  <2> QED BY <1>8, <2>2, <2>3 DEF OnlyAt
<1>12. MemGood(w, fr, dat)
  BY <1>6, <1>9, <1>10, <1>11 DEF MemGood, top
<1> QED BY <1>12 DEF w, gone, e, n, top

-----------------------------------------------------------------------------
(* The machine: a push, a pop, and what an interrupt pushes.               *)

\* What of a processor is not the stack pointer.
SameCpu(c, d) == c.eflags = d.eflags /\ c.pc = d.pc /\ c.CS = d.CS /\ c.INTR = d.INTR

LEMMA PushBehind ==
    ASSUME X86Assumption, layout \in Layouts, NEW m, NEW st \in Seq(Words), NEW dat,
           Behind(m, st, dat), 4 * (Len(st) + 1) <= layout.top, NEW word \in Words
    PROVE  /\ Behind(rtl_push(m, word), Append(st, word), dat)
           /\ SameCpu(rtl_push(m, word).cpu, m.cpu)
           /\ Append(st, word) \in Seq(Words) /\ Len(Append(st, word)) = Len(st) + 1
<1> DEFINE e == m.cpu.esp - 4
           w == isa_vaddr_write(m.mem, e, word)
           p == rtl_push(m, word)
<1>1. layout.top \in Nat /\ Len(st) \in Nat
  <2>1. Len(st) + 1 \in Nat /\ Len(st) \in Nat
    OBVIOUS
  <2> QED BY <2>1, StackPlaces
<1>2. /\ m.cpu \in CpuSet /\ m.cpu.esp = layout.top - 4 * Len(st)
      /\ Even => m.end = "no"
      /\ m.end = "no" => MemGood(m.mem, st, dat)
  BY DEF Behind
<1>3. Append(st, word) \in Seq(Words) /\ Len(Append(st, word)) = Len(st) + 1
  BY AppendProperties
<1>4. p = [cpu |-> [m.cpu EXCEPT !.esp = e], mem |-> w, end |-> EndAfter(m.end, e)]
  <2> DEFINE x == [m EXCEPT !.cpu.esp = e]
  <2>1. x.cpu = [m.cpu EXCEPT !.esp = e] /\ x.mem = m.mem /\ x.end = m.end
    <3>1. m = [cpu |-> m.cpu, mem |-> m.mem, end |-> m.end]
      BY DEF Behind
    <3> HIDE DEF e
    <3> QED BY <3>1
  <2>2. p = vaddr_write(x, e, word)
    BY DEF rtl_push
  <2> HIDE DEF x, e, p
  <2> QED BY <2>1, <2>2 DEF vaddr_write
<1> HIDE DEF p
<1>5. e \in Int /\ e = layout.top - 4 * (Len(st) + 1) /\ e = layout.top - 4 * Len(st) - 4
  BY <1>1, <1>2
<1>6. Even => WordFits(e)
  <2>1. Len(st) + 1 \in Nat /\ Len(st) + 1 \in 1..(Len(st) + 1)
    BY <1>1
  <2> HIDE DEF e
  <2>2. e \in Virtual /\ e + 3 \in Virtual /\ e % 4 = layout.top % 4
    BY <1>5, <2>1, StackPlaces
  <2> QED BY <2>2, StackWordFits
<1>7. EndAfter(m.end, e) = "no" => MemGood(w, Append(st, word), dat)
  <2>1. SUFFICES ASSUME EndAfter(m.end, e) = "no"
                 PROVE  MemGood(w, Append(st, word), dat)
    OBVIOUS
  <2>2. m.end = "no" /\ WordFits(layout.top - 4 * Len(st) - 4)
    BY <1>5, <2>1, GoesOn
  <2>3. MemGood(isa_vaddr_write(m.mem, layout.top - 4 * Len(st) - 4, word),
                Append(st, word), dat)
    BY <1>2, <2>2, PushMem
  <2> QED BY <1>5, <2>3
<1>8. Even => EndAfter(m.end, e) = "no"
  BY <1>2, <1>6, GoesOn
<1> HIDE DEF e, w
<1>9. [m.cpu EXCEPT !.esp = e] \in CpuSet /\ [m.cpu EXCEPT !.esp = e].esp = e
      /\ SameCpu([m.cpu EXCEPT !.esp = e], m.cpu)
  BY <1>2, <1>5 DEF CpuSet, SameCpu
<1>10. p.cpu = [m.cpu EXCEPT !.esp = e] /\ p.mem = w /\ p.end = EndAfter(m.end, e)
       /\ p = [cpu |-> p.cpu, mem |-> p.mem, end |-> p.end]
  BY <1>4
<1>11. Behind(p, Append(st, word), dat)
  BY <1>3, <1>5, <1>7, <1>8, <1>9, <1>10 DEF Behind
<1> QED BY <1>3, <1>9, <1>10, <1>11 DEF p

LEMMA PopBehind ==
    ASSUME X86Assumption, layout \in Layouts, NEW m, NEW st \in Seq(Words), NEW dat,
           Behind(m, st, dat), 4 * Len(st) <= layout.top, st # <<>>, NEW fr,
           fr \in Seq(Words), Len(fr) = Len(st) - 1, \A i \in 1..Len(fr) : fr[i] = st[i]
    PROVE  /\ m.end = "no" => Popped(m) = st[Len(st)]
           /\ Behind(Shrunk(m), fr, dat)
           /\ SameCpu(Shrunk(m).cpu, m.cpu) /\ Shrunk(m).end = m.end
<1> DEFINE e == layout.top - 4 * Len(st)
           gone == {page_translate(e + k) : k \in 0..3}
           w == [a \in DOMAIN m.mem |-> IF a \in gone THEN Dead ELSE m.mem[a]]
           p == Shrunk(m)
           c == [m.cpu EXCEPT !.esp = m.cpu.esp + 4]
<1>1. layout.top \in Nat /\ Len(st) \in Nat /\ Len(st) \in 1..Len(st)
  <2>1. Len(st) # 0 /\ Len(st) \in Nat
    BY EmptySeq
  <2> QED BY <2>1, StackPlaces
<1>2. /\ m = [cpu |-> m.cpu, mem |-> m.mem, end |-> m.end]
      /\ m.cpu \in CpuSet /\ m.cpu.esp = e
      /\ Even => m.end = "no"
      /\ m.end = "no" => MemGood(m.mem, st, dat)
  BY DEF Behind
<1>3. m.end = "no" => Popped(m) = st[Len(st)]
  BY <1>1, <1>2, PopWord DEF Popped
<1>4. m.end = "no" => MemGood(w, fr, dat)
  BY <1>2, ShrinkMem
<1>5. p = [cpu |-> c, mem |-> w, end |-> m.end]
  <2> DEFINE G == {page_translate(m.cpu.esp + k) : k \in 0..3}
             W(g) == [a \in DOMAIN m.mem |-> IF a \in g THEN Dead ELSE m.mem[a]]
  <2>1. G = gone
    BY <1>2
  <2>2. p = [m EXCEPT !.cpu = c, !.mem = W(G)]
    <3>1. p = [m EXCEPT !.cpu.esp = @ + 4,
                        !.mem = [a \in DOMAIN @ |-> IF a \in G THEN Dead ELSE @[a]]]
      BY DEF Shrunk
    <3> HIDE DEF G, p
    <3> QED BY <1>2, <3>1
  <2> HIDE DEF G, gone, c
  <2> QED BY <1>2, <2>1, <2>2
<1> HIDE DEF w, p
<1>6. e + 4 \in Int /\ e + 4 = layout.top - 4 * Len(fr)
  BY <1>1
<1> HIDE DEF e
<1>7. c \in CpuSet /\ c.esp = e + 4 /\ SameCpu(c, m.cpu)
  BY <1>2, <1>6 DEF CpuSet, SameCpu
<1>8. p.cpu = c /\ p.mem = w /\ p.end = m.end
      /\ p = [cpu |-> p.cpu, mem |-> p.mem, end |-> p.end]
  BY <1>5
<1> HIDE DEF c
<1>9. Behind(p, fr, dat)
  BY <1>2, <1>4, <1>6, <1>7, <1>8 DEF Behind
<1> QED BY <1>3, <1>7, <1>8, <1>9 DEF p

\* The three words of a frame on the stack.
LEMMA ThreeMore ==
    ASSUME NEW S, NEW st \in Seq(S), NEW x \in S, NEW y \in S, NEW z \in S
    PROVE  /\ st \o <<x, y, z>> = Append(Append(Append(st, x), y), z)
           /\ st \o <<x, y, z>> \in Seq(S)
           /\ Len(st \o <<x, y, z>>) = Len(st) + 3
           /\ \A i \in 1..Len(st) : (st \o <<x, y, z>>)[i] = st[i]
           /\ (st \o <<x, y, z>>)[Len(st) + 1] = x
           /\ (st \o <<x, y, z>>)[Len(st) + 2] = y
           /\ (st \o <<x, y, z>>)[Len(st) + 3] = z
<1> DEFINE t == <<x, y, z>>
           a == Append(st, x)
           b == Append(a, y)
           c == Append(b, z)
           n == Len(st)
<1>1. n \in Nat
  OBVIOUS
<1>2. t \in Seq(S) /\ Len(t) = 3 /\ t[1] = x /\ t[2] = y /\ t[3] = z
  OBVIOUS
<1>3. a \in Seq(S) /\ Len(a) = n + 1 /\ a[n + 1] = x /\ \A i \in 1..n : a[i] = st[i]
  BY AppendProperties
<1> HIDE DEF a
<1>4. b \in Seq(S) /\ Len(b) = n + 2 /\ b[n + 2] = y /\ \A i \in 1..(n + 1) : b[i] = a[i]
  <2>1. (n + 1) + 1 = n + 2
    BY <1>1
  <2> QED BY <1>3, <2>1, AppendProperties
<1> HIDE DEF b
<1>5. c \in Seq(S) /\ Len(c) = n + 3 /\ c[n + 3] = z /\ \A i \in 1..(n + 2) : c[i] = b[i]
  <2>1. (n + 2) + 1 = n + 3
    BY <1>1
  <2> QED BY <1>4, <2>1, AppendProperties
<1> HIDE DEF c, t, n
<1>6. /\ st \o t \in Seq(S) /\ Len(st \o t) = n + 3
      /\ \A i \in 1..(n + 3) : (st \o t)[i] = IF i <= n THEN st[i] ELSE t[i - n]
  <2>1. /\ st \o t \in Seq(S) /\ Len(st \o t) = Len(st) + Len(t)
        /\ \A i \in 1..(Len(st) + Len(t)) :
              (st \o t)[i] = IF i <= Len(st) THEN st[i] ELSE t[i - Len(st)]
    BY <1>2, ConcatProperties
  <2> QED BY <1>2, <2>1 DEF n
<1>7. /\ \A i \in 1..n : (st \o t)[i] = st[i]
      /\ (st \o t)[n + 1] = x /\ (st \o t)[n + 2] = y /\ (st \o t)[n + 3] = z
  BY <1>1, <1>2, <1>6
<1>8. \A i \in 1..(n + 3) : (st \o t)[i] = c[i]
  <2>1. \A i \in 1..n : c[i] = st[i]
    BY <1>1, <1>3, <1>4, <1>5
  <2>2. c[n + 1] = x /\ c[n + 2] = y /\ c[n + 3] = z
    BY <1>1, <1>3, <1>4, <1>5
  <2>3. \A i \in 1..(n + 3) : i \in 1..n \/ i = n + 1 \/ i = n + 2 \/ i = n + 3
    BY <1>1
  <2> QED BY <1>7, <2>1, <2>2, <2>3
<1>9. st \o t = c
  BY <1>5, <1>6, <1>8, SeqEqual
<1> QED BY <1>6, <1>7, <1>9 DEF a, b, c, t, n

\* A change of the processor that leaves the stack pointer alone.
LEMMA CpuChange ==
    ASSUME NEW m, NEW st, NEW dat, Behind(m, st, dat), NEW c \in CpuSet,
           c.esp = m.cpu.esp
    PROVE  LET w == [m EXCEPT !.cpu = c] IN
           Behind(w, st, dat) /\ w.cpu = c /\ w.mem = m.mem /\ w.end = m.end
<1> DEFINE w == [m EXCEPT !.cpu = c]
<1>1. /\ m = [cpu |-> m.cpu, mem |-> m.mem, end |-> m.end]
      /\ m.cpu.esp = layout.top - 4 * Len(st)
      /\ Even => m.end = "no"
      /\ m.end = "no" => MemGood(m.mem, st, dat)
  BY DEF Behind
<1>2. w = [cpu |-> c, mem |-> m.mem, end |-> m.end]
  <2> DEFINE x == m.cpu
             y == m.mem
             z == m.end
  <2>1. m = [cpu |-> x, mem |-> y, end |-> z]
    BY <1>1
  <2> HIDE DEF x, y, z
  <2>2. w = [cpu |-> c, mem |-> y, end |-> z]
    BY <2>1
  <2> QED BY <2>2 DEF y, z
<1> HIDE DEF w
<1>3. w = [cpu |-> w.cpu, mem |-> w.mem, end |-> w.end]
      /\ w.cpu = c /\ w.mem = m.mem /\ w.end = m.end
  BY <1>2
<1>4. Behind(w, st, dat)
  BY <1>1, <1>3 DEF Behind
<1> QED BY <1>3, <1>4 DEF w

LEMMA SetFlags ==
    ASSUME NEW m, NEW st, NEW dat, Behind(m, st, dat), NEW f \in FlagSet
    PROVE  LET w == [m EXCEPT !.cpu.eflags = f] IN
           /\ Behind(w, st, dat) /\ w.mem = m.mem
           /\ w.cpu.eflags = f /\ w.cpu.pc = m.cpu.pc /\ w.cpu.CS = m.cpu.CS
           /\ w.cpu.INTR = m.cpu.INTR /\ w.end = m.end
<1> DEFINE c == [m.cpu EXCEPT !.eflags = f]
<1>1. m.cpu \in CpuSet /\ m = [cpu |-> m.cpu, mem |-> m.mem, end |-> m.end]
  BY DEF Behind
<1>2. c \in CpuSet /\ c.esp = m.cpu.esp /\ c.eflags = f /\ c.pc = m.cpu.pc
      /\ c.CS = m.cpu.CS /\ c.INTR = m.cpu.INTR
  BY <1>1 DEF CpuSet
<1>3. [m EXCEPT !.cpu.eflags = f] = [m EXCEPT !.cpu = c]
  BY <1>1
<1> HIDE DEF c
<1> DEFINE w == [m EXCEPT !.cpu = c]
<1>4. Behind(w, st, dat) /\ w.cpu = c /\ w.mem = m.mem /\ w.end = m.end
  BY <1>2, CpuChange
<1> HIDE DEF w
<1> QED BY <1>2, <1>3, <1>4 DEF w

LEMMA SetPc ==
    ASSUME NEW m, NEW st, NEW dat, Behind(m, st, dat), NEW pc \in Places
    PROVE  LET w == [m EXCEPT !.cpu.pc = pc] IN
           /\ Behind(w, st, dat) /\ w.mem = m.mem
           /\ w.cpu.eflags = m.cpu.eflags /\ w.cpu.pc = pc /\ w.cpu.CS = m.cpu.CS
           /\ w.cpu.INTR = m.cpu.INTR /\ w.end = m.end
<1> DEFINE c == [m.cpu EXCEPT !.pc = pc]
<1>1. m.cpu \in CpuSet /\ m = [cpu |-> m.cpu, mem |-> m.mem, end |-> m.end]
  BY DEF Behind
<1>2. c \in CpuSet /\ c.esp = m.cpu.esp /\ c.eflags = m.cpu.eflags /\ c.pc = pc
      /\ c.CS = m.cpu.CS /\ c.INTR = m.cpu.INTR
  BY <1>1 DEF CpuSet
<1>3. [m EXCEPT !.cpu.pc = pc] = [m EXCEPT !.cpu = c]
  BY <1>1
<1> HIDE DEF c
<1> DEFINE w == [m EXCEPT !.cpu = c]
<1>4. Behind(w, st, dat) /\ w.cpu = c /\ w.mem = m.mem /\ w.end = m.end
  BY <1>2, CpuChange
<1> HIDE DEF w
<1> QED BY <1>2, <1>3, <1>4 DEF w

\* There is room for one more handler.
LEMMA Room ==
    ASSUME X86Assumption, layout \in Layouts, NEW st, NEW mk, NEW mt,
           StackGood(st, mk, mt)
    PROVE  /\ 4 * Len(st) <= layout.top /\ layout.top \in Nat
           /\ Len(st) \in Nat /\ Len(mk) \in Nat /\ Len(mt) \in Nat
           /\ Len(mk) < MaxNesting => 4 * (Len(st) + 3) <= layout.top
<1>1. MaxWords \in Nat /\ MaxNesting \in Nat /\ NrPages * PageSize \in Int
  BY DEF X86Assumption
<1>2. layout.top \in (4 * (MaxWords + 3 * MaxNesting))..(NrPages * PageSize)
  BY DEF X86Assumption, LayoutOK
<1>3. Len(st) \in Nat /\ Len(mk) \in Nat /\ Len(mt) \in Nat
      /\ Len(mk) <= MaxNesting /\ Len(st) <= MaxWords + 3 * Len(mk)
  BY DEF StackGood
<1> QED BY <1>1, <1>2, <1>3

\* The machine w behind the stack t is what raise_intr makes of m behind st.
Raised(w, t, m, st, dat, ret) ==
    /\ Behind(w, t, dat)
    /\ w.cpu.eflags = [m.cpu.eflags EXCEPT !.IF_ = FALSE]
    /\ t \in Seq(Words) /\ Len(t) = Len(st) + 3
    /\ \A i \in 1..Len(st) : t[i] = st[i]
    /\ t[Len(st) + 1] = <<"flags", m.cpu.eflags>>
    /\ t[Len(st) + 2] = CodeSegment /\ t[Len(st) + 3] = ret

LEMMA RaiseBehind ==
    ASSUME X86Assumption, layout \in Layouts, NEW m, NEW st \in Seq(Words), NEW dat,
           Behind(m, st, dat), 4 * (Len(st) + 3) <= layout.top, NEW ret \in Places
    PROVE  Raised(raise_intr(m, ret), st \o FrameOf(m.cpu, ret), m, st, dat, ret)
<1> DEFINE x == <<"flags", m.cpu.eflags>>
           f == [m.cpu.eflags EXCEPT !.IF_ = FALSE]
           a == Append(st, x)
           b == Append(a, CodeSegment)
           c == Append(b, ret)
           ma == rtl_push(m, x)
           mo == [ma EXCEPT !.cpu.eflags = f]
           mb == rtl_push(mo, CodeSegment)
           mc == rtl_push(mb, ret)
           w == [mc EXCEPT !.cpu.pc = Vector]
<1>1. m.cpu \in CpuSet /\ Len(st) \in Nat
  BY DEF Behind
<1>2. m.cpu.eflags \in FlagSet /\ m.cpu.CS = CodeSegment /\ f \in FlagSet
  BY <1>1 DEF CpuSet, FlagSet
<1>3. x \in Words /\ CodeSegment \in Words /\ ret \in Words
  BY <1>2 DEF Words, FlagWords
<1>4. layout.top \in Nat
  <2>1. Len(st) + 3 \in Nat
    BY <1>1
  <2> QED BY <2>1, StackPlaces
<1>5. w = raise_intr(m, ret)
  <2>1. raise_intr(m, ret) =
          [rtl_push(rtl_push([ma EXCEPT !.cpu.eflags.IF_ = FALSE], m.cpu.CS), ret)
              EXCEPT !.cpu.pc = Vector]
    BY DEF raise_intr, PushedFlags
  <2>2. ma.cpu \in CpuSet /\ ma.cpu.eflags = m.cpu.eflags
        /\ ma = [cpu |-> ma.cpu, mem |-> ma.mem, end |-> ma.end]
    <3>1. 4 * (Len(st) + 1) <= layout.top
      BY <1>1, <1>4
    <3>2. Behind(ma, a, dat) /\ SameCpu(ma.cpu, m.cpu)
      BY <1>3, <3>1, PushBehind
    <3> QED BY <3>2 DEF Behind, SameCpu
  <2> HIDE DEF ma
  <2>3. [ma EXCEPT !.cpu.eflags.IF_ = FALSE] = mo
    BY <2>2 DEF CpuSet, FlagSet
  <2> QED BY <1>2, <2>1, <2>3
<1> HIDE DEF x, f
<1>6. Behind(ma, a, dat) /\ a \in Seq(Words) /\ Len(a) = Len(st) + 1
  <2>1. 4 * (Len(st) + 1) <= layout.top
    BY <1>1, <1>4
  <2> QED BY <1>3, <2>1, PushBehind
<1> HIDE DEF a, ma
<1>7. Behind(mo, a, dat) /\ mo.cpu.eflags = f
  BY <1>2, <1>6, SetFlags
<1> HIDE DEF mo
<1>8. Behind(mb, b, dat) /\ b \in Seq(Words) /\ Len(b) = Len(st) + 2 /\ mb.cpu.eflags = f
  <2>1. 4 * (Len(a) + 1) <= layout.top
    BY <1>1, <1>4, <1>6
  <2>2. Behind(mb, b, dat) /\ b \in Seq(Words) /\ Len(b) = Len(a) + 1
        /\ SameCpu(mb.cpu, mo.cpu)
    BY <1>3, <1>6, <1>7, <2>1, PushBehind
  <2> QED BY <1>1, <1>6, <1>7, <2>2 DEF SameCpu
<1> HIDE DEF b, mb
<1>9. Behind(mc, c, dat) /\ mc.cpu.eflags = f
  <2>1. 4 * (Len(b) + 1) <= layout.top
    BY <1>1, <1>4, <1>8
  <2>2. Behind(mc, c, dat) /\ SameCpu(mc.cpu, mb.cpu)
    BY <1>3, <1>8, <2>1, PushBehind
  <2> QED BY <1>8, <2>2 DEF SameCpu
<1> HIDE DEF c, mc
<1>10. Behind(w, c, dat) /\ w.cpu.eflags = f
  <2>1. Vector \in Places
    BY DEF Places
  <2> QED BY <1>9, <2>1, SetPc
<1> HIDE DEF w
<1>11. FrameOf(m.cpu, ret) = <<x, CodeSegment, ret>>
  BY <1>2 DEF FrameOf, x
<1>12. st \o <<x, CodeSegment, ret>> = c
  BY <1>3, ThreeMore DEF a, b, c
<1> DEFINE t == st \o <<x, CodeSegment, ret>>
<1>13. /\ t \in Seq(Words) /\ Len(t) = Len(st) + 3
       /\ \A i \in 1..Len(st) : t[i] = st[i]
       /\ t[Len(st) + 1] = x /\ t[Len(st) + 2] = CodeSegment /\ t[Len(st) + 3] = ret
  BY <1>3, ThreeMore
<1> HIDE DEF t
<1>14. Behind(w, t, dat)
  BY <1>10, <1>12 DEF t
<1>15. st \o FrameOf(m.cpu, ret) = t
  BY <1>11 DEF t
<1>16. w.cpu.eflags = [m.cpu.eflags EXCEPT !.IF_ = FALSE]
  BY <1>10, Zenon DEF f
<1>17. t[Len(st) + 1] = <<"flags", m.cpu.eflags>>
  BY <1>13 DEF x
<1>18. Raised(w, t, m, st, dat, ret)
  BY <1>13, <1>14, <1>16, <1>17, Zenon DEF Raised
<1> QED BY <1>5, <1>15, <1>18

-----------------------------------------------------------------------------
(* The frames of the handlers.                                             *)

\* A frame is there as long as what is below its top is.
LEMMA FrameKept ==
    ASSUME NEW st, NEW mk, NEW mt, NEW k \in Nat \ {0}, FrameAt(st, mk, mt, k),
           NEW tt, NEW kk, NEW nn, \A j \in 1..k : kk[j] = mk[j], nn[k] = mt[k],
           mk[k] <= Len(tt), Len(tt) \in Nat, Len(st) \in Nat,
           \A i \in 1..Len(st) : i <= mk[k] => tt[i] = st[i]
    PROVE  FrameAt(tt, kk, nn, k)
<1> DEFINE x == mk[k]
<1>1. x \in 3..Len(st) /\ kk[k] = x /\ x <= Len(tt)
  BY DEF FrameAt
<1>2. \A j \in 1..(k - 1) : kk[j] + 3 <= kk[k]
  BY <1>1 DEF FrameAt
<1>3. /\ st[x] \in Places /\ st[x - 1] = CodeSegment
      /\ \E f \in FlagSet :
           /\ st[x - 2] = <<"flags", f>>
           /\ f.IF_ = (k = 1) /\ FlagsFit(f, nn[k])
  BY DEF FrameAt
<1>4. \A i \in 1..Len(st) : i <= x => tt[i] = st[i]
  OBVIOUS
<1> HIDE DEF x
<1>5. x \in 3..Len(tt) /\ x - 1 \in 1..Len(st) /\ x - 2 \in 1..Len(st) /\ x \in 1..Len(st)
      /\ x - 1 <= x /\ x - 2 <= x /\ x <= x
  BY <1>1
<1>6. tt[x] = st[x] /\ tt[x - 1] = st[x - 1] /\ tt[x - 2] = st[x - 2]
  BY <1>4, <1>5
<1> QED BY <1>1, <1>2, <1>3, <1>5, <1>6 DEF FrameAt

\* The frame of a new handler on top.
LEMMA FrameOnTop ==
    ASSUME X86Assumption, NEW st, NEW mk, NEW mt, StackGood(st, mk, mt),
           Len(mk) < MaxNesting,
           NEW t \in Seq(Words), Len(t) = Len(st) + 3,
           \A i \in 1..Len(st) : t[i] = st[i],
           NEW f \in FlagSet, FlagsGood(f, mk, mt), NEW ret \in Places,
           t[Len(st) + 1] = <<"flags", f>>, t[Len(st) + 2] = CodeSegment,
           t[Len(st) + 3] = ret
    PROVE  StackGood(t, Append(mk, Len(st) + 3), Append(mt, Unknown))
<1> DEFINE h == Append(mk, Len(st) + 3)
           n == Append(mt, Unknown)
           a == Len(st)
           c == Len(mk)
           b == Len(t)
<1>1. /\ mk \in Seq(Nat) /\ mt \in Seq(Meanings) /\ Len(mt) = c + 1
      /\ a <= MaxWords + 3 * c /\ a \in Nat /\ c \in Nat
  BY DEF StackGood
<1>2. \A k \in 1..c : FrameAt(st, mk, mt, k)
  BY DEF StackGood
<1>3. MaxWords \in Nat /\ MaxNesting \in Nat /\ c < MaxNesting
  BY DEF X86Assumption
<1>4. /\ b = a + 3 /\ b \in Nat
      /\ t[a + 1] = <<"flags", f>> /\ t[a + 2] = CodeSegment /\ t[a + 3] = ret
      /\ \A i \in 1..a : t[i] = st[i]
  BY <1>1
<1>5. FlagsFit(f, mt[c + 1]) /\ f.IF_ = (mk = <<>>)
  BY <1>1 DEF FlagsGood
<1>6. h \in Seq(Nat) /\ Len(h) = c + 1 /\ h[c + 1] = a + 3 /\ \A k \in 1..c : h[k] = mk[k]
  <2>1. Len(st) + 3 \in Nat
    BY <1>1
  <2> QED BY <1>1, <2>1, AppendProperties
<1>7. /\ n \in Seq(Meanings) /\ Len(n) = c + 2
      /\ \A k \in 1..(c + 1) : n[k] = mt[k]
  <2>1. Unknown \in Meanings
    <3>1. Unknown \in [{} -> BOOLEAN] /\ {} \in SUBSET Conditions
      BY DEF Unknown
    <3> QED BY <3>1 DEF Meanings
  <2>2. Len(n) = Len(mt) + 1 /\ n \in Seq(Meanings) /\ \A k \in 1..Len(mt) : n[k] = mt[k]
    BY <1>1, <2>1, AppendProperties
  <2> QED BY <1>1, <2>2
<1>8. mk = <<>> <=> c = 0
  BY <1>1, EmptySeq
<1>9. \A k \in 1..c : mk[k] \in 3..a
  BY <1>2 DEF FrameAt
<1>10. Len(st) = a /\ Len(t) = b /\ a \in Nat /\ c \in Nat
  BY <1>1
<1> HIDE DEF h, n, a, b, c
<1>11. ASSUME NEW k \in 1..c PROVE FrameAt(t, h, n, k)
  <2>1. FrameAt(st, mk, mt, k) /\ mk[k] \in 3..a /\ k \in Nat \ {0}
    BY <1>1, <1>2, <1>9
  <2>2. \A j \in 1..k : h[j] = mk[j]
    BY <1>1, <1>6
  <2>3. n[k] = mt[k]
    BY <1>1, <1>7
  <2>4. mk[k] <= b
    <3> DEFINE x == mk[k]
    <3>1. x \in 3..a
      BY <2>1
    <3> HIDE DEF x
    <3>2. x <= b
      BY <1>4, <1>10, <3>1
    <3> QED BY <3>2 DEF x
  <2>5. \A i \in 1..Len(st) : i <= mk[k] => t[i] = st[i]
    BY <1>4, <1>10
  <2>6. mk[k] <= Len(t) /\ Len(t) \in Nat /\ Len(st) \in Nat
    BY <1>1, <1>4, <1>10, <2>4
  <2> QED BY <2>1, <2>2, <2>3, <2>5, <2>6, FrameKept
<1>12. FrameAt(t, h, n, c + 1)
  <2> DEFINE k == c + 1
  <2>1. h[k] = a + 3 /\ h[k] \in 3..b /\ h[k] - 1 = a + 2 /\ h[k] - 2 = a + 1
    BY <1>1, <1>4, <1>6
  <2>2. \A j \in 1..(k - 1) : h[j] + 3 <= h[k]
    <3>1. SUFFICES ASSUME NEW j \in 1..c PROVE h[j] + 3 <= h[k]
      BY <1>10
    <3> DEFINE x == h[j]
               y == h[k]
    <3>2. x \in 3..a /\ y = a + 3
      BY <1>6, <1>9
    <3> HIDE DEF x, y, k
    <3>3. x + 3 <= y
      BY <1>10, <3>2
    <3> QED BY <3>3 DEF x, y
  <2>3. f.IF_ = (k = 1)
    BY <1>1, <1>5, <1>8
  <2>4. FlagsFit(f, n[k])
    <3>1. n[k] = mt[c + 1]
      BY <1>1, <1>7
    <3> QED BY <1>5, <3>1
  <2>5. Len(t) = b
    BY <1>10
  <2> HIDE DEF k
  <2>6. t[h[k]] \in Places /\ t[h[k] - 1] = CodeSegment /\ t[h[k] - 2] = <<"flags", f>>
    BY <1>4, <2>1
  <2>7. FrameAt(t, h, n, k)
    BY <2>1, <2>2, <2>3, <2>4, <2>5, <2>6 DEF FrameAt
  <2> QED BY <2>7 DEF k
<1>13. \A k \in 1..Len(h) : FrameAt(t, h, n, k)
  BY <1>1, <1>6, <1>11, <1>12
<1>14. Len(n) = Len(h) + 1 /\ Len(h) <= MaxNesting /\ Len(t) <= MaxWords + 3 * Len(h)
  BY <1>1, <1>3, <1>4, <1>6, <1>7, <1>10
<1>15. StackGood(t, h, n)
  BY <1>6, <1>7, <1>13, <1>14 DEF StackGood
<1> QED BY <1>15 DEF h, n, a

\* So raise_intr keeps the machine good.
LEMMA RaiseGood ==
    ASSUME X86Assumption, layout \in Layouts, NEW m, NEW st, NEW mk, NEW mt, NEW dat,
           Good(m, st, mk, mt, dat), Len(mk) < MaxNesting, NEW ret \in Places
    PROVE  Good(raise_intr(m, ret), st \o FrameOf(m.cpu, ret),
                Append(mk, Len(st) + 3), Append(mt, Unknown), dat)
<1> DEFINE w == raise_intr(m, ret)
           t == st \o FrameOf(m.cpu, ret)
           h == Append(mk, Len(st) + 3)
           n == Append(mt, Unknown)
           f == m.cpu.eflags
           g == [f EXCEPT !.IF_ = FALSE]
<1>1. /\ Behind(m, st, dat) /\ StackGood(st, mk, mt) /\ FlagsGood(f, mk, mt)
      /\ st \in Seq(Words) /\ mt \in Seq(Meanings) /\ mk \in Seq(Nat) /\ Len(st) \in Nat
  BY DEF Good, StackGood
<1>2. 4 * (Len(st) + 3) <= layout.top
  BY <1>1, Room
<1>3. f \in FlagSet
  BY <1>1 DEF Behind, CpuSet
<1>4. g \in FlagSet /\ g.IF_ = FALSE
  <2> HIDE DEF f
  <2> QED BY <1>3 DEF FlagSet
<1> HIDE DEF g
<1>5. /\ Behind(w, t, dat) /\ w.cpu.eflags = g
      /\ t \in Seq(Words) /\ Len(t) = Len(st) + 3
      /\ \A i \in 1..Len(st) : t[i] = st[i]
      /\ t[Len(st) + 1] = <<"flags", f>>
      /\ t[Len(st) + 2] = CodeSegment /\ t[Len(st) + 3] = ret
  <2>1. Raised(w, t, m, st, dat, ret)
    BY <1>1, <1>2, RaiseBehind
  <2> QED BY <2>1, Zenon DEF Raised, g
<1> HIDE DEF w, t, f
<1>6. StackGood(t, h, n)
  BY <1>1, <1>3, <1>5, FrameOnTop
<1>7. FlagsGood(w.cpu.eflags, h, n)
  <2>1. n[Len(n)] = Unknown /\ h # <<>>
    <3>1. n[Len(n)] = Unknown
      BY <1>1, AppendProperties
    <3>2. Len(h) = Len(mk) + 1 /\ Len(mk) \in Nat
      BY <1>1, <1>1, AppendProperties
    <3>3. Len(h) # 0
      BY <3>2
    <3> HIDE DEF h
    <3> QED BY <3>1, <3>3
  <2>2. FlagsFit(w.cpu.eflags, n[Len(n)])
    <3>1. DOMAIN Unknown = {}
      BY DEF Unknown
    <3> QED BY <2>1, <3>1 DEF FlagsFit
  <2> HIDE DEF h
  <2> QED BY <1>4, <1>5, <2>1, <2>2 DEF FlagsGood
<1>8. Good(w, t, h, n, dat)
  BY <1>5, <1>6, <1>7 DEF Good
<1> QED BY <1>8 DEF w, t, h, n

\* A machine that is good with the layout is good in the next state.
LEMMA InvNext ==
    ASSUME layout \in Layouts, layout' = layout,
           NEW m, NEW st, NEW mk, NEW mt, NEW dat, Good(m, st, mk, mt, dat),
           cpu' = m.cpu, mem' = m.mem, ended' = m.end,
           stack' = st, marks' = mk, meant' = mt, data' = dat
    PROVE  X86Inv'
<1>1. Behind(m, st, dat) /\ StackGood(st, mk, mt) /\ FlagsGood(m.cpu.eflags, mk, mt)
  BY DEF Good
<1>2. m = Machine'
  BY <1>1 DEF Behind, Machine
<1>3. StackGood(stack, marks, meant)'
  BY <1>1 DEF StackGood, FrameAt, FlagsFit
<1>4. FlagsGood(cpu.eflags, marks, meant)'
  BY <1>1 DEF FlagsGood, FlagsFit
<1>5. \A va : page_translate(va)' = page_translate(va)
  BY DEF page_translate, PAGEDIFF
<1>6. m.end = "no" => MemGood(mem, stack, data)'
  <2>1. m.end = "no" => MemGood(m.mem, st, dat)
    BY <1>1 DEF Behind
  <2> QED BY <2>1, <1>5 DEF MemGood, IsMemory, Holds, Untouched
<1>7. Even' <=> Even
  BY DEF Even
<1>8. Behind(Machine, stack, data)'
  BY <1>1, <1>6, <1>7 DEF Behind, Machine
<1> QED BY <1>1, <1>3, <1>4, <1>8 DEF X86Inv, Good, Behind, Machine

LEMMA SetIntr ==
    ASSUME NEW m, NEW st, NEW dat, Behind(m, st, dat), NEW b \in BOOLEAN
    PROVE  LET w == [m EXCEPT !.cpu.INTR = b] IN
           /\ Behind(w, st, dat) /\ w.mem = m.mem
           /\ w.cpu.eflags = m.cpu.eflags /\ w.cpu.pc = m.cpu.pc /\ w.cpu.CS = m.cpu.CS
           /\ w.end = m.end
<1> DEFINE c == [m.cpu EXCEPT !.INTR = b]
<1>1. m.cpu \in CpuSet /\ m = [cpu |-> m.cpu, mem |-> m.mem, end |-> m.end]
  BY DEF Behind
<1>2. c \in CpuSet /\ c.esp = m.cpu.esp /\ c.eflags = m.cpu.eflags /\ c.pc = m.cpu.pc
      /\ c.CS = m.cpu.CS
  BY <1>1 DEF CpuSet
<1>3. [m EXCEPT !.cpu.INTR = b] = [m EXCEPT !.cpu = c]
  BY <1>1
<1> HIDE DEF c
<1> DEFINE w == [m EXCEPT !.cpu = c]
<1>4. Behind(w, st, dat) /\ w.cpu = c /\ w.mem = m.mem /\ w.end = m.end
  BY <1>2, CpuChange
<1> HIDE DEF w
<1> QED BY <1>2, <1>3, <1>4 DEF w

\* The interrupt that may follow an instruction keeps the machine good.
LEMMA ExecOnce ==
    ASSUME X86Assumption, layout \in Layouts, NEW m, NEW st, NEW mk, NEW mt, NEW dat,
           Good(m, st, mk, mt, dat), exec_once(m, st, mk, mt), data' = dat
    PROVE  X86Inv'
<1> DEFINE n == [m EXCEPT !.cpu.INTR = FALSE]
           pc == m.cpu.pc
           frame == FrameOf(m.cpu, pc)
           w == raise_intr(n, pc)
<1>1. layout' = layout
  BY DEF exec_once
<1>2. Behind(m, st, dat) /\ StackGood(st, mk, mt) /\ FlagsGood(m.cpu.eflags, mk, mt)
  BY DEF Good
<1>3. CASE ~Asked(m)
  <2>1. /\ cpu' = m.cpu /\ mem' = m.mem /\ ended' = m.end
        /\ stack' = st /\ marks' = mk /\ meant' = mt
    BY <1>3 DEF exec_once, isa_query_intr
  <2> QED BY <1>1, <2>1, InvNext
<1>4. CASE Asked(m)
  <2>1. /\ cpu' = w.cpu /\ mem' = w.mem /\ ended' = w.end
        /\ stack' = st \o frame /\ marks' = Append(mk, Len(st) + 3)
        /\ meant' = Append(mt, Unknown)
    BY <1>4, Zenon DEF exec_once, isa_query_intr
  <2>2. pc \in Places
    BY <1>2 DEF Behind, CpuSet
  <2>3. Behind(n, st, dat) /\ n.cpu.eflags = m.cpu.eflags /\ n.cpu.CS = m.cpu.CS
    BY <1>2, SetIntr
  <2> HIDE DEF n
  <2>4. Good(n, st, mk, mt, dat)
    BY <1>2, <2>3 DEF Good
  <2>5. Len(mk) < MaxNesting
    <3>1. mk = <<>>
      BY <1>2, <1>4 DEF Asked, FlagsGood
    <3>2. Len(mk) = 0 /\ MaxNesting \in Nat \ {0}
      BY <3>1 DEF X86Assumption
    <3> QED BY <3>2
  <2>6. FrameOf(n.cpu, pc) = frame
    BY <2>3 DEF FrameOf
  <2> HIDE DEF pc, frame
  <2>7. Good(w, st \o frame, Append(mk, Len(st) + 3), Append(mt, Unknown), dat)
    <3>1. Good(w, st \o FrameOf(n.cpu, pc), Append(mk, Len(st) + 3),
               Append(mt, Unknown), dat)
      BY <2>2, <2>4, <2>5, RaiseGood
    <3> QED BY <2>6, <3>1, Zenon
  <2> HIDE DEF w
  <2> QED BY <1>1, <2>1, <2>7, InvNext
<1> QED BY <1>3, <1>4

-----------------------------------------------------------------------------
(* What the instructions do to the stack, the handlers and the meanings.   *)

\* What is left of a stack, with the frames of its handlers.
LEMMA StackKept ==
    ASSUME NEW st, NEW mk, NEW mt, StackGood(st, mk, mt),
           NEW tt \in Seq(Words), NEW kk \in Seq(Nat), NEW nn \in Seq(Meanings),
           Len(nn) = Len(kk) + 1, Len(kk) <= Len(mk),
           Len(tt) <= MaxWords + 3 * Len(kk), MaxNesting \in Nat,
           \A k \in 1..Len(kk) : kk[k] = mk[k] /\ nn[k] = mt[k] /\ mk[k] <= Len(tt),
           \A i \in 1..Len(tt) : i <= Len(st) => tt[i] = st[i]
    PROVE  StackGood(tt, kk, nn)
<1> DEFINE a == Len(st)
           b == Len(tt)
           c == Len(mk)
           d == Len(kk)
<1>1. a \in Nat /\ b \in Nat /\ c \in Nat /\ d \in Nat /\ d <= c /\ c <= MaxNesting
      /\ \A k \in 1..c : FrameAt(st, mk, mt, k)
  BY DEF StackGood
<1>2. \A k \in 1..c : mk[k] \in 3..a
  BY <1>1 DEF FrameAt
<1> HIDE DEF a, b, c, d
<1>3. ASSUME NEW k \in 1..d PROVE FrameAt(tt, kk, nn, k)
  <2> DEFINE x == mk[k]
  <2>1. k \in 1..c /\ k \in Nat \ {0}
    BY <1>1
  <2>2. FrameAt(st, mk, mt, k) /\ x \in 3..a
    BY <1>1, <1>2, <2>1
  <2>3. \A j \in 1..k : j \in 1..d
    BY <1>1
  <2>4. \A j \in 1..k : kk[j] = mk[j]
    BY <2>3 DEF d
  <2>5. nn[k] = mt[k] /\ x <= b
    BY DEF d, b
  <2> HIDE DEF x
  <2>6. \A i \in 1..a : i <= x => i \in 1..b
    BY <1>1, <2>2, <2>5
  <2>7. \A i \in 1..Len(st) : i <= x => tt[i] = st[i]
    BY <1>1, <2>6 DEF a, b
  <2>8. Len(tt) \in Nat /\ Len(st) \in Nat /\ x <= Len(tt)
    BY <1>1, <2>5 DEF a, b
  <2> QED BY <2>1, <2>2, <2>4, <2>5, <2>7, <2>8, FrameKept DEF x
<1>4. Len(kk) <= MaxNesting
  BY <1>1 DEF d, c
<1> QED BY <1>3, <1>4 DEF StackGood, d

\* A push by a program or a handler.
LEMMA StackPush ==
    ASSUME X86Assumption, NEW st, NEW mk, NEW mt, StackGood(st, mk, mt),
           Len(st) < MaxWords, NEW word \in Words
    PROVE  StackGood(Append(st, word), mk, mt)
<1> DEFINE tt == Append(st, word)
           a == Len(st)
           c == Len(mk)
<1>1. /\ st \in Seq(Words) /\ mk \in Seq(Nat) /\ mt \in Seq(Meanings)
      /\ Len(mt) = Len(mk) + 1 /\ a \in Nat /\ c \in Nat
      /\ \A k \in 1..c : FrameAt(st, mk, mt, k)
  BY DEF StackGood
<1>2. MaxWords \in Nat /\ MaxNesting \in Nat
  BY DEF X86Assumption
<1>3. tt \in Seq(Words) /\ Len(tt) = a + 1 /\ \A i \in 1..a : tt[i] = st[i]
  BY <1>1, AppendProperties
<1>4. \A k \in 1..c : mk[k] \in 3..a
  BY <1>1 DEF FrameAt
<1> HIDE DEF tt
<1>5. ASSUME NEW k \in 1..c PROVE mk[k] <= Len(tt)
  <2> DEFINE x == mk[k]
  <2>1. x \in 3..a
    BY <1>4
  <2> HIDE DEF x, a
  <2>2. x <= Len(tt)
    BY <1>1, <1>3, <2>1
  <2> QED BY <2>2 DEF x
<1>6. Len(tt) <= MaxWords + 3 * c
  BY <1>1, <1>2, <1>3
<1>7. \A i \in 1..Len(tt) : i <= Len(st) => tt[i] = st[i]
  BY <1>1, <1>3
<1>8. Len(mk) <= Len(mk)
  BY <1>1
<1> QED BY <1>1, <1>2, <1>3, <1>5, <1>6, <1>7, <1>8, StackKept DEF tt

\* The handler that runs keeps its frame: what it pops is above it.
FloorOf(mk) == IF mk = <<>> THEN 0 ELSE Last(mk)

LEMMA BelowFloor ==
    ASSUME NEW st, NEW mk, NEW mt, StackGood(st, mk, mt)
    PROVE  /\ FloorOf(mk) \in 0..Len(st)
           /\ \A k \in 1..Len(mk) : mk[k] <= FloorOf(mk)
           /\ \A k \in 1..(Len(mk) - 1) : mk[k] + 3 <= FloorOf(mk)
<1> DEFINE a == Len(st)
           c == Len(mk)
           x == mk[c]
<1>1. /\ mk \in Seq(Nat) /\ a \in Nat /\ c \in Nat
      /\ \A k \in 1..c : FrameAt(st, mk, mt, k)
  BY DEF StackGood
<1>2. CASE mk = <<>>
  <2>1. c = 0
    BY <1>2
  <2> HIDE DEF a, c
  <2>2. 1..c = {} /\ 1..(c - 1) = {} /\ FloorOf(mk) = 0
    BY <1>2, <2>1 DEF FloorOf
  <2> QED BY <1>1, <2>2 DEF c, a
<1>3. CASE mk # <<>>
  <2>1. c # 0 /\ FloorOf(mk) = x
    BY <1>1, <1>3, EmptySeq DEF FloorOf, Last
  <2>2. \A k \in 1..c : mk[k] \in 3..a /\ \A j \in 1..(k - 1) : mk[j] + 3 <= mk[k]
    BY <1>1 DEF FrameAt
  <2> HIDE DEF a, c
  <2>3. c \in 1..c
    BY <1>1, <2>1
  <2>4. x \in 3..a /\ \A j \in 1..(c - 1) : mk[j] + 3 <= x
    BY <2>2, <2>3
  <2>5. \A k \in 1..c : mk[k] <= x
    <3>1. SUFFICES ASSUME NEW k \in 1..c PROVE mk[k] <= x
      OBVIOUS
    <3> DEFINE y == mk[k]
    <3>2. y \in 3..a
      BY <2>2
    <3>3. k = c \/ k \in 1..(c - 1)
      BY <1>1
    <3>4. k # c => y + 3 <= x
      BY <2>4, <3>3
    <3>5. k = c => y = x
      OBVIOUS
    <3> HIDE DEF x, y
    <3>6. y <= x
      BY <1>1, <2>4, <3>2, <3>4, <3>5
    <3> QED BY <3>6 DEF y
  <2> HIDE DEF x
  <2>6. x \in 0..a
    BY <1>1, <2>4
  <2> QED BY <2>1, <2>4, <2>5, <2>6 DEF a, c
<1> QED BY <1>2, <1>3

LEMMA Prefix ==
    ASSUME NEW S, NEW q \in Seq(S), NEW n \in 0..Len(q)
    PROVE  /\ SubSeq(q, 1, n) \in Seq(S) /\ Len(SubSeq(q, 1, n)) = n
           /\ \A i \in 1..n : SubSeq(q, 1, n)[i] = q[i]
<1>1. n \in Nat /\ 1 + n - 1 = n /\ n <= Len(q)
  OBVIOUS
<1>2. SubSeq(q, 1, n) = [i \in 1..n |-> q[i]]
  <2>1. SubSeq(q, 1, n) = [i \in 1..(1 + n - 1) |-> q[i + 1 - 1]]
    BY <1>1
  <2> QED BY <1>1, <2>1
<1>3. [i \in 1..n |-> q[i]] \in Seq(S)
  BY <1>1
<1> QED BY <1>1, <1>2, <1>3

\* A pop by a program or a handler.
LEMMA StackPop ==
    ASSUME X86Assumption, NEW st, NEW mk, NEW mt, StackGood(st, mk, mt),
           Len(st) - FloorOf(mk) > 0
    PROVE  /\ st # <<>> /\ Front(st) \in Seq(Words) /\ Len(Front(st)) = Len(st) - 1
           /\ \A i \in 1..Len(Front(st)) : Front(st)[i] = st[i]
           /\ StackGood(Front(st), mk, mt)
<1> DEFINE tt == Front(st)
           a == Len(st)
           c == Len(mk)
           x == FloorOf(mk)
<1>1. /\ st \in Seq(Words) /\ mk \in Seq(Nat) /\ mt \in Seq(Meanings)
      /\ Len(mt) = Len(mk) + 1 /\ a \in Nat /\ c \in Nat
      /\ a <= MaxWords + 3 * c
  BY DEF StackGood
<1>2. MaxWords \in Nat /\ MaxNesting \in Nat
  BY DEF X86Assumption
<1>3. x \in 0..a /\ \A k \in 1..c : mk[k] <= x
  BY BelowFloor
<1> HIDE DEF x
<1>4. x <= a - 1 /\ a # 0 /\ x \in Nat
  BY <1>1, <1>3 DEF x
<1>5. st # <<>>
  BY <1>4
<1>6. tt \in Seq(Words) /\ Len(tt) = a - 1 /\ \A i \in 1..Len(tt) : tt[i] = st[i]
  <2>1. a - 1 \in 0..Len(st)
    BY <1>1, <1>4
  <2> QED BY <1>1, <2>1, Prefix DEF Front
<1> HIDE DEF tt
<1>7. ASSUME NEW k \in 1..c PROVE mk[k] <= Len(tt)
  <2> DEFINE y == mk[k]
  <2>1. y \in Nat /\ y <= x
    BY <1>1, <1>3
  <2> HIDE DEF y, a
  <2>2. y <= Len(tt)
    BY <1>1, <1>4, <1>6, <2>1
  <2> QED BY <2>2 DEF y
<1>8. Len(tt) <= MaxWords + 3 * c
  BY <1>1, <1>2, <1>6
<1>9. Len(mk) <= Len(mk)
  BY <1>1
<1>10. StackGood(tt, mk, mt)
  BY <1>1, <1>2, <1>6, <1>7, <1>8, <1>9, StackKept
<1> QED BY <1>5, <1>6, <1>10 DEF tt

\* What iret pops is the frame of the handler that runs.
LEMMA StackIret ==
    ASSUME X86Assumption, NEW st, NEW mk, NEW mt, StackGood(st, mk, mt),
           mk # <<>>, Len(st) = FloorOf(mk)
    PROVE  LET tt == SubSeq(st, 1, Len(st) - 3) IN
           /\ StackGood(tt, Front(mk), Front(mt))
           /\ tt \in Seq(Words) /\ Len(tt) = Len(st) - 3
           /\ \A i \in 1..Len(tt) : tt[i] = st[i]
           /\ Len(st) - 3 \in Nat
           /\ st[Len(st)] \in Places /\ st[Len(st) - 1] = CodeSegment
           /\ \E f \in FlagSet : /\ st[Len(st) - 2] = <<"flags", f>>
                                 /\ FlagsGood(f, Front(mk), Front(mt))
<1> DEFINE tt == SubSeq(st, 1, Len(st) - 3)
           kk == Front(mk)
           nn == Front(mt)
           a == Len(st)
           c == Len(mk)
<1>1. /\ st \in Seq(Words) /\ mk \in Seq(Nat) /\ mt \in Seq(Meanings)
      /\ Len(mt) = Len(mk) + 1 /\ a \in Nat /\ c \in Nat
      /\ a <= MaxWords + 3 * c
      /\ \A k \in 1..c : FrameAt(st, mk, mt, k)
  BY DEF StackGood
<1>2. MaxWords \in Nat /\ MaxNesting \in Nat
  BY DEF X86Assumption
<1>3. c # 0 /\ mk[c] = a
  BY <1>1, EmptySeq DEF FloorOf, Last
<1>4. a = FloorOf(mk) /\ \A k \in 1..(c - 1) : mk[k] + 3 <= a
  <2>1. \A k \in 1..(c - 1) : mk[k] + 3 <= FloorOf(mk)
    BY BelowFloor
  <2> QED BY <2>1
<1>5. a >= 3
  <2>1. c \in 1..c
    BY <1>1, <1>3
  <2>2. mk[c] \in 3..a
    BY <1>1, <2>1 DEF FrameAt
  <2> HIDE DEF a, c
  <2>3. a \in 3..a
    BY <1>3, <2>2
  <2> QED BY <1>1, <2>3
<1>6. tt \in Seq(Words) /\ Len(tt) = a - 3 /\ \A i \in 1..Len(tt) : tt[i] = st[i]
  <2>1. a - 3 \in 0..Len(st)
    BY <1>1, <1>5
  <2> QED BY <1>1, <2>1, Prefix
<1>7. kk \in Seq(Nat) /\ Len(kk) = c - 1 /\ \A k \in 1..(c - 1) : kk[k] = mk[k]
  <2>1. c - 1 \in 0..Len(mk)
    BY <1>1, <1>3
  <2> QED BY <1>1, <2>1, Prefix DEF Front
<1>8. nn \in Seq(Meanings) /\ Len(nn) = c /\ \A k \in 1..c : nn[k] = mt[k]
  <2>1. c \in 0..Len(mt) /\ Len(mt) - 1 = c
    BY <1>1
  <2> QED BY <1>1, <2>1, Prefix DEF Front
<1> HIDE DEF tt, kk, nn
<1>9. \A k \in 1..Len(kk) : kk[k] = mk[k] /\ nn[k] = mt[k] /\ mk[k] <= Len(tt)
  <2>1. SUFFICES ASSUME NEW k \in 1..(c - 1)
                 PROVE  kk[k] = mk[k] /\ nn[k] = mt[k] /\ mk[k] <= Len(tt)
    BY <1>7
  <2> DEFINE y == mk[k]
  <2>2. k \in 1..c
    BY <1>1
  <2>3. y \in Nat /\ y + 3 <= a
    <3>1. mk[k] \in Nat
      BY <1>1, <2>2
    <3>2. mk[k] + 3 <= a
      <4> HIDE DEF a
      <4> QED BY <1>4
    <3> QED BY <3>1, <3>2
  <2> HIDE DEF y, a
  <2>4. y <= Len(tt)
    BY <1>1, <1>5, <1>6, <2>3
  <2> QED BY <1>7, <1>8, <2>2, <2>4 DEF y
<1>10. StackGood(tt, kk, nn)
  <2>1. Len(nn) = Len(kk) + 1 /\ Len(kk) <= Len(mk) /\ Len(tt) <= MaxWords + 3 * Len(kk)
    BY <1>1, <1>2, <1>3, <1>5, <1>6, <1>7, <1>8
  <2>2. \A i \in 1..Len(tt) : i <= Len(st) => tt[i] = st[i]
    BY <1>6
  <2>3. tt \in Seq(Words) /\ kk \in Seq(Nat) /\ nn \in Seq(Meanings) /\ MaxNesting \in Nat
    BY <1>2, <1>6, <1>7, <1>8
  <2> HIDE DEF a, c
  <2> QED BY <1>9, <2>1, <2>2, <2>3, StackKept
<1>11. /\ st[a] \in Places /\ st[a - 1] = CodeSegment
       /\ \E f \in FlagSet : /\ st[a - 2] = <<"flags", f>>
                             /\ f.IF_ = (c = 1) /\ FlagsFit(f, mt[c])
  <2>1. c \in 1..c
    BY <1>1, <1>3
  <2>2. FrameAt(st, mk, mt, c)
    BY <1>1, <2>1
  <2> HIDE DEF a, c
  <2> QED BY <1>3, <2>2 DEF FrameAt
<1>12. kk = <<>> <=> c = 1
  <2>1. kk = <<>> <=> Len(kk) = 0
    BY <1>7, EmptySeq
  <2>2. c = 1 <=> c - 1 = 0
    BY <1>1
  <2> QED BY <1>7, <2>1, <2>2
<1>13. nn[Len(nn)] = mt[c]
  BY <1>1, <1>3, <1>8
<1>14. \E f \in FlagSet : st[a - 2] = <<"flags", f>> /\ FlagsGood(f, kk, nn)
  BY <1>11, <1>12, <1>13 DEF FlagsGood
<1>15. a - 3 \in Nat
  BY <1>1, <1>5
<1> QED BY <1>6, <1>10, <1>11, <1>14, <1>15 DEF tt, kk, nn

\* An operation gives the program or the handler that runs a new meaning.
LEMMA StackMean ==
    ASSUME X86Assumption, NEW st, NEW mk, NEW mt, StackGood(st, mk, mt),
           NEW x \in Meanings
    PROVE  LET nn == Append(Front(mt), x) IN
           /\ StackGood(st, mk, nn) /\ Len(nn) \in Nat /\ nn[Len(nn)] = x
<1> DEFINE c == Len(mk)
           fr == Front(mt)
           nn == Append(fr, x)
<1>1. /\ st \in Seq(Words) /\ mk \in Seq(Nat) /\ mt \in Seq(Meanings)
      /\ Len(mt) = c + 1 /\ Len(st) \in Nat /\ c \in Nat
      /\ Len(st) <= MaxWords + 3 * c
      /\ \A k \in 1..c : FrameAt(st, mk, mt, k)
  BY DEF StackGood
<1>2. MaxNesting \in Nat
  BY DEF X86Assumption
<1>3. fr \in Seq(Meanings) /\ Len(fr) = c /\ \A k \in 1..c : fr[k] = mt[k]
  <2>1. c \in 0..Len(mt) /\ Len(mt) - 1 = c
    BY <1>1
  <2> QED BY <1>1, <2>1, Prefix DEF Front
<1> HIDE DEF fr
<1>4. nn \in Seq(Meanings) /\ Len(nn) = c + 1 /\ nn[c + 1] = x /\ \A k \in 1..c : nn[k] = fr[k]
  BY <1>3, AppendProperties
<1> HIDE DEF nn
<1>5. \A k \in 1..c : mk[k] <= Len(st)
  <2>1. \A k \in 1..c : mk[k] \in 3..Len(st)
    BY <1>1 DEF FrameAt
  <2> QED BY <1>1, <2>1
<1>6. StackGood(st, mk, nn)
  <2>1. \A k \in 1..Len(mk) : mk[k] = mk[k] /\ nn[k] = mt[k] /\ mk[k] <= Len(st)
    BY <1>3, <1>4, <1>5
  <2>2. \A i \in 1..Len(st) : i <= Len(st) => st[i] = st[i]
    OBVIOUS
  <2>3. Len(mk) <= Len(mk) /\ Len(nn) = Len(mk) + 1
    BY <1>1, <1>4
  <2> QED BY <1>1, <1>2, <1>4, <2>1, <2>2, <2>3, StackKept
<1> QED BY <1>1, <1>4, <1>6 DEF nn, fr

-----------------------------------------------------------------------------
(* The instructions.                                                       *)

\* The machine as an instruction finds it, and at any other place.
LEMMA Started ==
    ASSUME X86Inv, NEW pc \in Places
    PROVE  /\ layout \in Layouts
           /\ Good(Machine, stack, marks, meant, data)
           /\ Behind(Machine, stack, data) /\ StackGood(stack, marks, meant)
           /\ FlagsGood(cpu.eflags, marks, meant)
           /\ cpu \in CpuSet /\ Machine.cpu = cpu /\ Machine.mem = mem
           /\ Machine.end = ended
           /\ stack \in Seq(Words) /\ Len(stack) \in Nat
           /\ Behind(At(Machine, pc), stack, data)
           /\ At(Machine, pc).cpu.eflags = cpu.eflags
           /\ At(Machine, pc).mem = mem /\ At(Machine, pc).end = ended
           /\ After(cpu.pc) \in Pcs /\ After(cpu.pc) \in Places
<1>1. layout \in Layouts /\ Good(Machine, stack, marks, meant, data)
  BY DEF X86Inv
<1>2. Machine.cpu = cpu /\ Machine.mem = mem /\ Machine.end = ended
  BY DEF Machine
<1>3. Behind(Machine, stack, data) /\ StackGood(stack, marks, meant)
      /\ FlagsGood(cpu.eflags, marks, meant)
  BY <1>1, <1>2 DEF Good
<1>4. cpu \in CpuSet
  BY <1>2, <1>3 DEF Behind
<1>5. stack \in Seq(Words) /\ Len(stack) \in Nat
  BY <1>3 DEF StackGood
<1>6. Behind(At(Machine, pc), stack, data)
      /\ At(Machine, pc).cpu.eflags = cpu.eflags /\ At(Machine, pc).mem = mem
      /\ At(Machine, pc).end = ended
  BY <1>2, <1>3, SetPc DEF At
<1>7. After(cpu.pc) \in Pcs /\ After(cpu.pc) \in Places
  BY DEF After, Pcs, Places
<1> QED BY <1>1, <1>2, <1>3, <1>4, <1>5, <1>6, <1>7

LEMMA StoreStep ==
    ASSUME X86Assumption, X86Inv, Store(Data) PROVE X86Inv'
<1> DEFINE m == Stepped
           w == isa_vaddr_write(mem, DataAddr, Data)
           n == vaddr_write(m, DataAddr, Data)
<1>1. /\ layout \in Layouts /\ StackGood(stack, marks, meant)
      /\ FlagsGood(cpu.eflags, marks, meant) /\ stack \in Seq(Words)
      /\ Behind(m, stack, data) /\ m.cpu.eflags = cpu.eflags /\ m.mem = mem
      /\ m.end = ended
  <2>1. After(cpu.pc) \in Places
    BY DEF After, Pcs, Places
  <2> QED BY <2>1, Started DEF Stepped
<1>2. exec_once(n, stack, marks, meant) /\ data' = Data
  BY DEF Store
<1> HIDE DEF m
<1>3. /\ m = [cpu |-> m.cpu, mem |-> mem, end |-> ended] /\ m.cpu \in CpuSet
      /\ m.cpu.esp = layout.top - 4 * Len(stack)
      /\ Even => ended = "no"
      /\ ended = "no" => MemGood(mem, stack, data)
  BY <1>1 DEF Behind
<1>4. 4 * Len(stack) <= layout.top
  BY <1>1, Room
<1>5. ended = "no" => MemGood(w, stack, Data)
  BY <1>1, <1>3, <1>4, StoreMem
<1>7. n = [cpu |-> m.cpu, mem |-> w, end |-> EndAfter(ended, DataAddr)]
  BY <1>1 DEF vaddr_write
<1> HIDE DEF w
<1>8. EndAfter(ended, DataAddr) = "no" <=> ended = "no"
  BY <1>1, DataWordFits, GoesOn
<1> HIDE DEF n
<1>9. n.cpu = m.cpu /\ n.mem = w /\ n.end = EndAfter(ended, DataAddr)
  BY <1>7
<1>10. Behind(n, stack, Data)
  BY <1>3, <1>5, <1>7, <1>8, <1>9 DEF Behind
<1>11. Good(n, stack, marks, meant, Data)
  BY <1>1, <1>9, <1>10 DEF Good
<1> QED BY <1>1, <1>2, <1>11, ExecOnce

LEMMA PushStep ==
    ASSUME X86Assumption, X86Inv, NEW pc \in Places, NEW word \in Words,
           Push(word, At(Machine, pc))
    PROVE  X86Inv'
<1> DEFINE m == At(Machine, pc)
           n == rtl_push(m, word)
           tt == Append(stack, word)
<1>1. /\ layout \in Layouts /\ StackGood(stack, marks, meant)
      /\ FlagsGood(cpu.eflags, marks, meant) /\ stack \in Seq(Words) /\ Len(stack) \in Nat
      /\ Behind(m, stack, data) /\ m.cpu.eflags = cpu.eflags
  BY Started
<1> HIDE DEF m
<1>2. Len(stack) < MaxWords /\ exec_once(n, tt, marks, meant) /\ data' = data
  BY DEF Push, m
<1>3. 4 * (Len(stack) + 1) <= layout.top
  <2>1. MaxWords \in Nat /\ MaxNesting \in Nat
    BY DEF X86Assumption
  <2>2. layout.top \in (4 * (MaxWords + 3 * MaxNesting))..(NrPages * PageSize)
    BY <1>1 DEF X86Assumption, LayoutOK
  <2>3. NrPages * PageSize \in Int
    BY DEF X86Assumption
  <2> QED BY <1>1, <1>2, <2>1, <2>2, <2>3
<1>4. Behind(n, tt, data) /\ SameCpu(n.cpu, m.cpu)
  BY <1>1, <1>3, PushBehind
<1>5. StackGood(tt, marks, meant)
  BY <1>1, <1>2, StackPush
<1> HIDE DEF n, tt
<1>6. Good(n, tt, marks, meant, data)
  BY <1>1, <1>4, <1>5 DEF Good, SameCpu
<1> QED BY <1>1, <1>2, <1>6, ExecOnce

LEMMA PopStep ==
    ASSUME X86Assumption, X86Inv, NEW pc \in Places, Pushed > 0,
           exec_once(Shrunk(At(Machine, pc)), Front(stack), marks, meant),
           data' = data
    PROVE  X86Inv'
<1> DEFINE m == At(Machine, pc)
           n == Shrunk(m)
           tt == Front(stack)
<1>1. /\ layout \in Layouts /\ StackGood(stack, marks, meant)
      /\ FlagsGood(cpu.eflags, marks, meant) /\ stack \in Seq(Words) /\ Len(stack) \in Nat
      /\ Behind(m, stack, data) /\ m.cpu.eflags = cpu.eflags
  BY Started
<1>2. Len(stack) - FloorOf(marks) > 0
  BY DEF Pushed, Floor, FloorOf
<1>3. /\ stack # <<>> /\ tt \in Seq(Words) /\ Len(tt) = Len(stack) - 1
      /\ \A i \in 1..Len(tt) : tt[i] = stack[i]
      /\ StackGood(tt, marks, meant)
  BY <1>1, <1>2, StackPop
<1>4. 4 * Len(stack) <= layout.top
  BY <1>1, Room
<1> HIDE DEF m, tt
<1>5. Behind(n, tt, data) /\ SameCpu(n.cpu, m.cpu)
  BY <1>1, <1>3, <1>4, PopBehind
<1>6. exec_once(n, tt, marks, meant)
  BY DEF m, tt
<1> HIDE DEF n
<1>7. Good(n, tt, marks, meant, data)
  BY <1>1, <1>3, <1>5 DEF Good, SameCpu
<1> QED BY <1>1, <1>6, <1>7, ExecOnce

\* ret goes to the word that was pushed last.
LEMMA RetStep ==
    ASSUME X86Assumption, X86Inv, ended = "no", Ret PROVE X86Inv'
<1>1. Pushed > 0 /\ Last(stack) \in Pcs /\ data' = data
      /\ exec_once(Shrunk(At(Machine, Popped(Machine))), Front(stack), marks, meant)
  BY DEF Ret
<1>2. Vector \in Places
  BY DEF Places
<1>3. /\ layout \in Layouts /\ StackGood(stack, marks, meant)
      /\ stack \in Seq(Words) /\ Len(stack) \in Nat /\ Behind(Machine, stack, data)
      /\ Machine.end = "no"
  BY <1>2, Started
<1>4. Len(stack) - FloorOf(marks) > 0
  BY <1>1 DEF Pushed, Floor, FloorOf
<1>5. /\ stack # <<>> /\ Front(stack) \in Seq(Words) /\ Len(Front(stack)) = Len(stack) - 1
      /\ \A i \in 1..Len(Front(stack)) : Front(stack)[i] = stack[i]
  BY <1>3, <1>4, StackPop
<1>6. 4 * Len(stack) <= layout.top
  BY <1>3, Room
<1>7. Popped(Machine) = stack[Len(stack)]
  BY <1>3, <1>5, <1>6, PopBehind
<1>8. Popped(Machine) \in Places
  BY <1>1, <1>7 DEF Last, Places
<1> QED BY <1>1, <1>8, PopStep

LEMMA TrapStep ==
    ASSUME X86Assumption, X86Inv, Trap PROVE X86Inv'
<1> DEFINE ret == After(cpu.pc)
           n == raise_intr(Machine, ret)
           tt == stack \o FrameOf(Machine.cpu, ret)
           kk == Append(marks, Len(stack) + 3)
           nn == Append(meant, Unknown)
<1>1. Vector \in Places
  BY DEF Places
<1>2. /\ layout \in Layouts /\ Good(Machine, stack, marks, meant, data)
      /\ Machine.cpu = cpu /\ ret \in Places
  BY <1>1, Started
<1>3. Len(marks) < MaxNesting /\ exec_once(n, tt, kk, nn) /\ data' = data
  BY <1>2, Zenon DEF Trap
<1>4. Good(n, tt, kk, nn, data)
  BY <1>2, <1>3, RaiseGood
<1> HIDE DEF n, tt, kk, nn
<1> QED BY <1>2, <1>3, <1>4, ExecOnce

LEMMA TimerStep ==
    ASSUME X86Inv, Timer PROVE X86Inv'
<1> DEFINE n == [Machine EXCEPT !.cpu.INTR = TRUE]
<1>1. Vector \in Places
  BY DEF Places
<1>2. /\ layout \in Layouts /\ Behind(Machine, stack, data) /\ Machine.cpu = cpu
      /\ StackGood(stack, marks, meant) /\ FlagsGood(cpu.eflags, marks, meant)
  BY <1>1, Started
<1>3. /\ cpu' = [cpu EXCEPT !.INTR = TRUE] /\ ended' = ended
      /\ layout' = layout /\ mem' = mem /\ stack' = stack /\ marks' = marks
      /\ data' = data /\ meant' = meant
  BY DEF Timer
<1>5. n.cpu = [cpu EXCEPT !.INTR = TRUE] /\ n.mem = mem /\ n.end = ended
  BY DEF Machine
<1>6. Behind(n, stack, data) /\ n.cpu.eflags = cpu.eflags
  BY <1>2, SetIntr
<1> HIDE DEF n
<1>7. Good(n, stack, marks, meant, data)
  BY <1>2, <1>6 DEF Good
<1> QED BY <1>2, <1>3, <1>5, <1>7, InvNext

LEMMA SetCs ==
    ASSUME NEW m, NEW st, NEW dat, Behind(m, st, dat)
    PROVE  LET w == [m EXCEPT !.cpu.CS = CodeSegment] IN
           Behind(w, st, dat) /\ w.cpu.eflags = m.cpu.eflags /\ w.end = m.end
<1> DEFINE c == [m.cpu EXCEPT !.CS = CodeSegment]
<1>1. m.cpu \in CpuSet /\ m = [cpu |-> m.cpu, mem |-> m.mem, end |-> m.end]
  BY DEF Behind
<1>2. c \in CpuSet /\ c.esp = m.cpu.esp /\ c.eflags = m.cpu.eflags
  BY <1>1 DEF CpuSet
<1>3. [m EXCEPT !.cpu.CS = CodeSegment] = [m EXCEPT !.cpu = c]
  BY <1>1
<1> HIDE DEF c
<1> DEFINE w == [m EXCEPT !.cpu = c]
<1>4. Behind(w, st, dat) /\ w.cpu = c /\ w.mem = m.mem /\ w.end = m.end
  BY <1>2, CpuChange
<1> HIDE DEF w
<1> QED BY <1>2, <1>3, <1>4 DEF w

\* PopBehind for the words of the stack st: n of them are left.
LEMMA PopAt ==
    ASSUME X86Assumption, layout \in Layouts, NEW st \in Seq(Words), NEW n \in Nat,
           n + 1 <= Len(st), 4 * Len(st) <= layout.top, NEW m, NEW dat,
           Behind(m, SubSeq(st, 1, n + 1), dat)
    PROVE  /\ m.end = "no" => Popped(m) = st[n + 1]
           /\ Behind(Shrunk(m), SubSeq(st, 1, n), dat)
           /\ SameCpu(Shrunk(m).cpu, m.cpu) /\ Shrunk(m).end = m.end
<1> DEFINE a == Len(st)
           s == SubSeq(st, 1, n + 1)
           t == SubSeq(st, 1, n)
<1>1. s \in Seq(Words) /\ Len(s) = n + 1 /\ \A i \in 1..(n + 1) : s[i] = st[i]
  <2>1. n + 1 \in 0..Len(st)
    OBVIOUS
  <2> QED BY <2>1, Prefix
<1>2. t \in Seq(Words) /\ Len(t) = n /\ \A i \in 1..n : t[i] = st[i]
  <2>1. n \in 0..Len(st)
    OBVIOUS
  <2> QED BY <2>1, Prefix
<1>3. Behind(m, s, dat)
  OBVIOUS
<1>4. a \in Nat /\ layout.top \in Int
  <2>1. layout.top \in Nat
    BY StackPlaces
  <2> QED BY <2>1
<1> HIDE DEF s, t
<1>5. 4 * Len(s) <= layout.top /\ s # <<>> /\ Len(t) = Len(s) - 1
  BY <1>1, <1>2, <1>4
<1>6. \A i \in 1..Len(t) : t[i] = s[i]
  BY <1>1, <1>2
<1>7. s[Len(s)] = st[n + 1]
  BY <1>1
<1>8. /\ m.end = "no" => Popped(m) = s[Len(s)]
      /\ Behind(Shrunk(m), t, dat)
      /\ SameCpu(Shrunk(m).cpu, m.cpu) /\ Shrunk(m).end = m.end
  BY <1>1, <1>2, <1>3, <1>5, <1>6, PopBehind
<1> QED BY <1>7, <1>8 DEF t

\* iret takes back what raise_intr pushed, in the opposite order.
LEMMA IretStep ==
    ASSUME X86Assumption, X86Inv, ended = "no", Iret PROVE X86Inv'
<1> DEFINE n == Len(stack) - 3
           p0 == Popped(Machine)
           m0 == At(Machine, p0)
           m1 == Shrunk(m0)
           p1 == Popped(m1)
           n1 == [m1 EXCEPT !.cpu.CS = p1]
           m2 == Shrunk(n1)
           p2 == Popped(m2)
           n2 == [m2 EXCEPT !.cpu.eflags = p2[2]]
           m3 == Shrunk(n2)
           t == SubSeq(stack, 1, n)
           t1 == SubSeq(stack, 1, n + 1)
           t2 == SubSeq(stack, 1, n + 2)
           kk == Front(marks)
           nn == Front(meant)
<1>1. marks # <<>> /\ Pushed = 0 /\ data' = data /\ exec_once(m3, t, kk, nn)
  BY Zenon DEF Iret
<1>2. Vector \in Places
  BY DEF Places
<1>3. /\ layout \in Layouts /\ StackGood(stack, marks, meant)
      /\ stack \in Seq(Words) /\ Len(stack) \in Nat /\ Behind(Machine, stack, data)
      /\ Machine.end = "no"
  BY <1>2, Started
<1>4. Len(stack) = FloorOf(marks)
  <2>1. FloorOf(marks) \in 0..Len(stack) /\ Floor = FloorOf(marks)
    BY <1>3, BelowFloor DEF Floor, FloorOf
  <2> QED BY <1>1, <1>3, <2>1 DEF Pushed
<1>5. /\ StackGood(t, kk, nn) /\ n \in Nat
      /\ stack[Len(stack)] \in Places /\ stack[Len(stack) - 1] = CodeSegment
      /\ \E f \in FlagSet : stack[Len(stack) - 2] = <<"flags", f>> /\ FlagsGood(f, kk, nn)
  BY <1>1, <1>3, <1>4, StackIret
<1>6. PICK f \in FlagSet : stack[n + 1] = <<"flags", f>> /\ FlagsGood(f, kk, nn)
  <2>1. Len(stack) - 2 = n + 1
    BY <1>3
  <2> QED BY <1>5, <2>1
<1>7. stack[n + 3] \in Places /\ stack[n + 2] = CodeSegment
  <2>1. Len(stack) = n + 3 /\ Len(stack) - 1 = n + 2
    BY <1>3
  <2> QED BY <1>5, <2>1
<1>8. 4 * Len(stack) <= layout.top
  BY <1>3, Room
<1>9. /\ (n + 2) + 1 = n + 3 /\ (n + 1) + 1 = n + 2 /\ n + 1 \in Nat /\ n + 2 \in Nat
      /\ n + 1 <= Len(stack) /\ (n + 1) + 1 <= Len(stack) /\ (n + 2) + 1 <= Len(stack)
      /\ Len(stack) = n + 3
  BY <1>3, <1>5
<1>10. SubSeq(stack, 1, n + 3) = stack
  BY <1>3, <1>9
<1> HIDE DEF n, t, t1, t2, kk, nn
<1>11. p0 = stack[n + 3]
  <2> DEFINE q == n + 2
  <2>1. q \in Nat /\ q + 1 <= Len(stack) /\ q + 1 = n + 3
    BY <1>9
  <2> HIDE DEF q
  <2>2. Behind(Machine, SubSeq(stack, 1, q + 1), data)
    BY <1>3, <1>10, <2>1
  <2>3. Popped(Machine) = stack[q + 1]
    BY <1>3, <1>8, <2>1, <2>2, PopAt
  <2> QED BY <2>1, <2>3 DEF p0
<1> HIDE DEF p0
<1>12. Behind(m0, stack, data) /\ m0.end = "no"
  <2>1. Machine.end = ended
    BY DEF Machine
  <2> QED BY <1>7, <1>11, <2>1, Started
<1> HIDE DEF m0
<1>13. Behind(m1, t2, data) /\ m1.end = "no"
  <2>1. Behind(m0, SubSeq(stack, 1, (n + 2) + 1), data)
    BY <1>9, <1>10, <1>12
  <2> QED BY <1>3, <1>8, <1>9, <1>12, <2>1, PopAt DEF t2
<1> HIDE DEF m1
<1>14. p1 = CodeSegment
  <2>1. Behind(m1, SubSeq(stack, 1, (n + 1) + 1), data)
    BY <1>9, <1>13 DEF t2
  <2>2. Popped(m1) = stack[(n + 1) + 1]
    BY <1>3, <1>8, <1>9, <1>13, <2>1, PopAt
  <2> QED BY <1>7, <1>9, <2>2
<1> HIDE DEF p1
<1>15. Behind(n1, t2, data) /\ n1.end = "no"
  BY <1>13, <1>14, SetCs
<1> HIDE DEF n1
<1>16. Behind(m2, t1, data) /\ m2.end = "no"
  <2>1. Behind(n1, SubSeq(stack, 1, (n + 1) + 1), data)
    BY <1>9, <1>15 DEF t2
  <2> QED BY <1>3, <1>8, <1>9, <1>15, <2>1, PopAt DEF t1
<1> HIDE DEF m2
<1>17. p2 = <<"flags", f>>
  <2>1. Behind(m2, SubSeq(stack, 1, n + 1), data)
    BY <1>16 DEF t1
  <2> QED BY <1>3, <1>5, <1>6, <1>8, <1>9, <1>16, <2>1, PopAt
<1> HIDE DEF p2
<1>18. p2[2] = f
  BY <1>17
<1>19. Behind(n2, t1, data) /\ n2.cpu.eflags = f
  BY <1>16, <1>18, SetFlags
<1> HIDE DEF n2
<1>20. Behind(m3, t, data) /\ m3.cpu.eflags = f
  <2>1. Behind(n2, SubSeq(stack, 1, n + 1), data)
    BY <1>19 DEF t1
  <2>2. Behind(m3, t, data) /\ SameCpu(m3.cpu, n2.cpu)
    BY <1>3, <1>5, <1>8, <1>9, <2>1, PopAt DEF t
  <2> QED BY <1>19, <2>2 DEF SameCpu
<1> HIDE DEF m3
<1>21. Good(m3, t, kk, nn, data)
  BY <1>5, <1>6, <1>20 DEF Good
<1> QED BY <1>1, <1>3, <1>21, ExecOnce

-----------------------------------------------------------------------------
(* The first state.                                                        *)

\* The initial word of the data is one word.
LEMMA FirstWord ==
    ASSUME X86Assumption, layout \in Layouts, NEW k \in 0..3
    PROVE  LET b == layout.frame[NrPages] * PageSize IN
           /\ page_translate(DataAddr + k) = b + k
           /\ page_translate(DataAddr + k) \in Addrs
           /\ InitialCell(b + k) = <<InitialCell(b)[1], k>>
<1> DEFINE g == layout.frame[NrPages]
           b == g * PageSize
<1>1. PageSize \in Nat /\ PageSize > 4 /\ PageSize % 4 = 0 /\ NrPages \in Nat
  BY DEF X86Assumption
<1>2. g \in Nat
  <2>1. layout.frame \in [0..NrPages -> 0..NrPages]
    BY DEF X86Assumption, LayoutOK
  <2>2. NrPages \in 0..NrPages
    BY <1>1
  <2>3. g \in 0..NrPages
    BY <2>1, <2>2
  <2> HIDE DEF g
  <2> QED BY <1>1, <2>3
<1>3. (DataAddr + k) \div PageSize = NrPages /\ (DataAddr + k) % PageSize = k
  <2>1. k \in 0..(PageSize - 1) /\ PageSize \in Nat \ {0} /\ DataAddr = PageSize * NrPages
    BY <1>1 DEF DataAddr
  <2> QED BY <1>1, <2>1, Quotient
<1>4. page_translate(DataAddr + k) = b + k
  BY <1>3 DEF page_translate, PAGEDIFF
<1>5. DataAddr + k \in Virtual
  <2>1. DataAddr \in Nat
    BY <1>1 DEF DataAddr
  <2> QED BY <1>1, <2>1 DEF Virtual
<1>6. page_translate(DataAddr + k) \in Addrs
  BY <1>5, VirtualCells
<1>7. InitialCell(b + k) = <<InitialCell(b)[1], k>>
  <2> DEFINE h == PageSize \div 4
             q == g * h
  <2>1. h \in Int /\ PageSize = 4 * h
    BY <1>1
  <2> HIDE DEF h
  <2>2. q \in Int /\ b = 4 * q
    BY <1>2, <2>1
  <2> HIDE DEF q, b
  <2>3. b \div 4 = q /\ (b + k) \div 4 = q /\ (b + k) % 4 = k
    BY <2>2
  <2> QED BY <2>3 DEF InitialCell
<1> QED BY <1>4, <1>6, <1>7

LEMMA InitInv ==
    ASSUME X86Assumption, Init PROVE X86Inv
<1> DEFINE b == layout.frame[NrPages] * PageSize
<1>1. /\ layout \in Layouts /\ ended = "no" /\ stack = <<>> /\ marks = <<>>
      /\ cpu = [eflags |-> NoFlags, esp |-> layout.top, pc |-> <<"pc", 1>>,
                CS |-> <<"cs", 8>>, INTR |-> FALSE]
      /\ mem = [a \in Addrs |-> InitialCell(a)]
      /\ data = InitialCell(b)[1] /\ meant = <<Unknown>>
  BY DEF Init, Addrs
<1>2. layout.top \in Nat
  <2>1. MaxWords \in Nat /\ MaxNesting \in Nat /\ NrPages * PageSize \in Int
    BY DEF X86Assumption
  <2>2. layout.top \in (4 * (MaxWords + 3 * MaxNesting))..(NrPages * PageSize)
    BY <1>1 DEF X86Assumption, LayoutOK
  <2> QED BY <2>1, <2>2
<1>3. IsMemory(mem)
  BY <1>1 DEF IsMemory
<1>4. Holds(mem, DataAddr, data)
  <2>1. SUFFICES ASSUME NEW k \in 0..3 PROVE mem[page_translate(DataAddr + k)] = <<data, k>>
    BY DEF Holds
  <2>2. page_translate(DataAddr + k) = b + k /\ page_translate(DataAddr + k) \in Addrs
        /\ InitialCell(b + k) = <<InitialCell(b)[1], k>>
    BY <1>1, FirstWord
  <2> HIDE DEF b
  <2>3. mem[b + k] = InitialCell(b + k)
    BY <1>1, <2>2
  <2> QED BY <1>1, <2>2, <2>3
<1>5. Untouched(mem)
  <2>1. SUFFICES ASSUME NEW va \in layout.top..(DataAddr + PageSize - 1)
                 PROVE  mem[page_translate(va)] = InitialCell(page_translate(va))
    BY DEF Untouched
  <2>2. va \in Virtual
    <3>1. DataAddr + PageSize - 1 \in Int
      BY DEF X86Assumption, DataAddr
    <3> QED BY <1>2, <3>1 DEF Virtual
  <2>3. page_translate(va) \in Addrs
    BY <1>1, <2>2, VirtualCells
  <2> DEFINE a == page_translate(va)
  <2> HIDE DEF a
  <2>4. a \in Addrs => mem[a] = InitialCell(a)
    BY <1>1
  <2> QED BY <2>3, <2>4 DEF a
<1>6. Len(stack) = 0 /\ Len(marks) = 0 /\ stack \in Seq(Words) /\ marks \in Seq(Nat)
  BY <1>1
<1>7. meant \in Seq(Meanings) /\ Len(meant) = 1 /\ meant[1] = Unknown
  <2>1. Unknown \in Meanings
    <3>1. Unknown \in [{} -> BOOLEAN] /\ {} \in SUBSET Conditions
      BY DEF Unknown
    <3> QED BY <3>1 DEF Meanings
  <2> HIDE DEF Unknown
  <2> QED BY <1>1, <2>1
<1>8. MemGood(mem, stack, data)
  <2>1. 1..Len(stack) = {}
    BY <1>6
  <2> QED BY <1>3, <1>4, <1>5, <2>1 DEF MemGood
<1>9. cpu \in CpuSet /\ cpu.esp = layout.top - 4 * Len(stack) /\ cpu.eflags = NoFlags
  <2>1. NoFlags \in FlagSet
    BY DEF NoFlags, FlagSet
  <2>2. <<"pc", 1>> \in Places /\ <<"cs", 8>> = CodeSegment
    BY DEF Places, Pcs, CodeSegment
  <2> HIDE DEF NoFlags
  <2>3. layout.top - 4 * Len(stack) = layout.top
    BY <1>2, <1>6
  <2> QED BY <1>1, <1>2, <2>1, <2>2, <2>3 DEF CpuSet
<1>10. Behind(Machine, stack, data)
  <2>1. Machine = [cpu |-> Machine.cpu, mem |-> Machine.mem, end |-> Machine.end]
        /\ Machine.cpu = cpu /\ Machine.mem = mem /\ Machine.end = "no"
    BY <1>1 DEF Machine
  <2> QED BY <1>8, <1>9, <2>1 DEF Behind
<1>11. StackGood(stack, marks, meant)
  <2>1. MaxWords \in Nat /\ MaxNesting \in Nat
    BY DEF X86Assumption
  <2>2. 1..Len(marks) = {}
    BY <1>6
  <2> QED BY <1>6, <1>7, <2>1, <2>2 DEF StackGood
<1>12. FlagsGood(cpu.eflags, marks, meant)
  <2>1. DOMAIN Unknown = {}
    BY DEF Unknown
  <2>2. NoFlags.IF_ = TRUE
    BY DEF NoFlags
  <2> QED BY <1>1, <1>7, <1>9, <2>1, <2>2 DEF FlagsGood, FlagsFit
<1>13. Machine.cpu = cpu
  BY DEF Machine
<1> QED BY <1>1, <1>10, <1>11, <1>12, <1>13 DEF X86Inv, Good

-----------------------------------------------------------------------------
(* What the invariant says of the machine.                                 *)

LEMMA InvMemory ==
    ASSUME X86Assumption, X86Inv PROVE MemoryExact
<1>1. Vector \in Places
  BY DEF Places
<1>2. /\ layout \in Layouts /\ Behind(Machine, stack, data)
      /\ StackGood(stack, marks, meant) /\ stack \in Seq(Words) /\ Len(stack) \in Nat
      /\ Machine.cpu = cpu /\ Machine.mem = mem /\ Machine.end = ended
  BY <1>1, Started
<1>3. /\ ended = "no" => MemGood(mem, stack, data)
      /\ Even => ended = "no"
      /\ cpu.esp = layout.top - 4 * Len(stack)
  BY <1>2 DEF Behind
<1>4. 4 * Len(stack) <= layout.top
  BY <1>2, Room
<1>5. ASSUME ended = "no" PROVE Kept
  <2>1. \A i \in 1..Len(stack) : Word(isa_vaddr_read(mem, layout.top - 4 * i)) = stack[i]
    BY <1>2, <1>3, <1>4, <1>5, PopWord
  <2>2. Holds(mem, DataAddr, data)
    BY <1>3, <1>5 DEF MemGood
  <2>3. DataAddr \in Virtual /\ DataAddr + 3 \in Virtual
    BY <1>2, DataWordFits
  <2>4. Word(isa_vaddr_read(mem, DataAddr)) = data
    BY <1>2, <2>2, <2>3, HeldWord
  <2> QED BY <2>1, <2>4 DEF Kept
<1>6. ended = "no" =>
         \A va \in layout.top..(DataAddr + PageSize - 1) :
            va \notin DataAddr..(DataAddr + 3) =>
               LET a == page_translate(va) IN mem[a] = InitialCell(a)
  BY <1>3 DEF MemGood, Untouched
<1>9. \A va \in 0..(DataAddr + PageSize - 4) :
         isa_vaddr_read(mem, va) = [k \in 1..4 |-> mem[page_translate(va + k - 1)]]
  <2>1. SUFFICES ASSUME NEW va \in 0..(DataAddr + PageSize - 4)
                 PROVE  va \in Virtual /\ va + 3 \in Virtual
    BY <1>2, Read
  <2>2. PageSize \in Nat /\ DataAddr \in Nat
    BY DEF X86Assumption, DataAddr
  <2> QED BY <2>2 DEF Virtual
<1> QED BY <1>3, <1>5, <1>6, <1>9 DEF MemoryExact

LEMMA InvFlags ==
    ASSUME X86Inv PROVE FlagsMean
<1>1. Vector \in Places
  BY DEF Places
<1>2. FlagsGood(cpu.eflags, marks, meant)
  BY <1>1, Started
<1> QED BY <1>2 DEF FlagsMean, FlagsGood, FlagsFit, Last

-----------------------------------------------------------------------------
(* Powers of 2.                                                            *)

\* Pow2 is the function its recursive definition names.
LEMMA PowersExist ==
    ASSUME AluAssumption
    PROVE  Pow2 = [n \in 0..Bits |-> IF n = 0 THEN 1 ELSE 2 * Pow2[n - 1]]
<1> DEFINE IsPow(f, n) == /\ f = [k \in 0..n |-> f[k]]
                          /\ \A k \in 0..n : f[k] = IF k = 0 THEN 1 ELSE 2 * f[k - 1]
           N == {n \in Nat : \E f : IsPow(f, n)}
<1>1. 0 \in N
  <2>1. 0..0 = {0}
    OBVIOUS
  <2> DEFINE f == [k \in 0..0 |-> 1]
  <2>2. IsPow(f, 0)
    BY <2>1
  <2> HIDE DEF f
  <2> QED BY <2>2
<1>2. ASSUME NEW n \in Nat, n \in N PROVE n + 1 \in N
  <2>1. PICK f : IsPow(f, n)
    BY <1>2
  <2> DEFINE g == [k \in 0..(n + 1) |-> IF k = n + 1 THEN 2 * f[n] ELSE f[k]]
  <2>2. g = [k \in 0..(n + 1) |-> g[k]]
    OBVIOUS
  <2>3. ASSUME NEW k \in 0..(n + 1) PROVE g[k] = IF k = 0 THEN 1 ELSE 2 * g[k - 1]
    <3>1. CASE k = n + 1
      <4>1. k # 0 /\ k - 1 = n /\ n \in 0..(n + 1) /\ n # n + 1
        BY <3>1
      <4>2. g[k] = 2 * f[n] /\ g[n] = f[n]
        BY <3>1, <4>1
      <4> HIDE DEF g
      <4> QED BY <4>1, <4>2
    <3>2. CASE k # n + 1
      <4>1. k \in 0..n
        BY <3>2
      <4>2. g[k] = f[k]
        BY <3>2
      <4>3. f[k] = IF k = 0 THEN 1 ELSE 2 * f[k - 1]
        BY <2>1, <4>1
      <4>4. k # 0 => k - 1 \in 0..(n + 1) /\ k - 1 # n + 1
        BY <4>1
      <4>5. k # 0 => g[k - 1] = f[k - 1]
        BY <4>4
      <4> HIDE DEF g
      <4> QED BY <4>2, <4>3, <4>5
    <3> QED BY <3>1, <3>2
  <2> HIDE DEF g
  <2>4. IsPow(g, n + 1)
    BY <2>2, <2>3
  <2> HIDE DEF IsPow
  <2> QED BY <2>4
<1>3. Nat \subseteq N
  <2> HIDE DEF N
  <2> QED BY <1>1, <1>2, NatSet
<1>4. Bits \in Nat
  BY DEF AluAssumption
<1>5. PICK f : IsPow(f, Bits)
  BY <1>3, <1>4
<1>6. \E h : h = [n \in 0..Bits |-> IF n = 0 THEN 1 ELSE 2 * h[n - 1]]
  <2>1. f = [n \in 0..Bits |-> IF n = 0 THEN 1 ELSE 2 * f[n - 1]]
    <3>1. f = [n \in 0..Bits |-> f[n]]
      BY <1>5
    <3>2. \A n \in 0..Bits : f[n] = IF n = 0 THEN 1 ELSE 2 * f[n - 1]
      BY <1>5
    <3> QED BY <3>1, <3>2
  <2> QED BY <2>1, Zenon
<1> QED BY <1>6, Zenon DEF Pow2

LEMMA PowersDouble ==
    ASSUME AluAssumption
    PROVE  /\ Pow2[0] = 1
           /\ \A n \in Nat : n < Bits => Pow2[n + 1] = 2 * Pow2[n]
           /\ \A n \in 0..Bits : Pow2[n] \in Nat \ {0}
<1>1. Bits \in Nat
  BY DEF AluAssumption
<1>2. Pow2 = [n \in 0..Bits |-> IF n = 0 THEN 1 ELSE 2 * Pow2[n - 1]]
  BY PowersExist
<1>3. \A n \in 0..Bits : Pow2[n] = IF n = 0 THEN 1 ELSE 2 * Pow2[n - 1]
  BY <1>2
<1>4. Pow2[0] = 1
  BY <1>1, <1>3
<1>5. ASSUME NEW n \in Nat, n < Bits PROVE Pow2[n + 1] = 2 * Pow2[n]
  <2>1. n + 1 \in 0..Bits /\ n + 1 # 0 /\ n + 1 - 1 = n
    BY <1>1, <1>5
  <2> QED BY <1>3, <2>1
<1> DEFINE N == {n \in Nat : n <= Bits => Pow2[n] \in Nat \ {0}}
<1>6. 0 \in N
  BY <1>4
<1>7. ASSUME NEW n \in Nat, n \in N PROVE n + 1 \in N
  <2>1. SUFFICES ASSUME n + 1 <= Bits PROVE Pow2[n + 1] \in Nat \ {0}
    OBVIOUS
  <2>2. n < Bits /\ n <= Bits
    BY <1>1, <2>1
  <2>3. Pow2[n + 1] = 2 * Pow2[n] /\ Pow2[n] \in Nat \ {0}
    BY <1>5, <1>7, <2>2
  <2> QED BY <2>3
<1>8. Nat \subseteq N
  <2> HIDE DEF N
  <2> QED BY <1>6, <1>7, NatSet
<1>9. \A n \in 0..Bits : Pow2[n] \in Nat \ {0}
  BY <1>1, <1>8
<1> QED BY <1>4, <1>5, <1>9

\* The range of a width, half of it, and the range of a register, which it
\* divides.
LEMMA Ranges ==
    ASSUME AluAssumption, NEW w \in Widths
    PROVE  /\ Pow2[w - 1] \in Nat /\ Pow2[w - 1] >= 2
           /\ Pow2[w] = 2 * Pow2[w - 1] /\ Pow2[w] \in Nat \ {0}
           /\ \E K \in Nat \ {0} : Full = Pow2[w] * K
           /\ Top \in Nat /\ Full = 2 * Top /\ Full \in Nat \ {0} /\ Top >= 2
           /\ w = Bits => Full = Pow2[w] /\ Top = Pow2[w - 1]
           /\ w # Bits => Full >= 2 * Pow2[w]
<1>1. Bits \in Nat /\ Narrow \in Nat /\ Narrow >= 2 /\ Narrow < Bits
  BY DEF AluAssumption
<1>2. \A n \in 0..Bits : Pow2[n] \in Nat \ {0}
  BY PowersDouble
<1>3. \A n \in Nat : n < Bits => Pow2[n + 1] = 2 * Pow2[n]
  BY PowersDouble
<1>4. ASSUME NEW n \in 2..Bits
      PROVE  Pow2[n - 1] \in Nat /\ Pow2[n - 1] >= 2 /\ Pow2[n] = 2 * Pow2[n - 1]
  <2>1. n - 1 \in Nat /\ n - 1 < Bits /\ n - 1 + 1 = n /\ n - 2 \in Nat /\ n - 2 < Bits
        /\ n - 2 + 1 = n - 1 /\ n - 2 \in 0..Bits
    BY <1>1
  <2>2. Pow2[n - 1 + 1] = 2 * Pow2[n - 1] /\ Pow2[n - 2 + 1] = 2 * Pow2[n - 2]
    BY <1>3, <2>1
  <2>3. Pow2[n] = 2 * Pow2[n - 1] /\ Pow2[n - 1] = 2 * Pow2[n - 2]
    BY <2>1, <2>2
  <2>4. Pow2[n - 2] \in Nat \ {0}
    BY <1>2, <2>1
  <2> QED BY <2>3, <2>4
<1> DEFINE P == Pow2[Narrow]
           N == {n \in Nat : Narrow <= n /\ n <= Bits =>
                                \E K \in Nat \ {0} : Pow2[n] = P * K}
<1>5. P \in Nat \ {0}
  BY <1>1, <1>2
<1>6. 0 \in N
  BY <1>1
<1>7. ASSUME NEW n \in Nat, n \in N PROVE n + 1 \in N
  <2>1. SUFFICES ASSUME Narrow <= n + 1, n + 1 <= Bits
                 PROVE  \E K \in Nat \ {0} : Pow2[n + 1] = P * K
    OBVIOUS
  <2>2. CASE n + 1 = Narrow
    <3>1. Pow2[n + 1] = P * 1
      BY <1>5, <2>2
    <3> QED BY <3>1
  <2>3. CASE n + 1 # Narrow
    <3>1. Narrow <= n /\ n <= Bits /\ n < Bits
      BY <1>1, <2>1, <2>3
    <3>2. PICK K \in Nat \ {0} : Pow2[n] = P * K
      BY <1>7, <3>1
    <3>3. Pow2[n + 1] = 2 * (P * K)
      BY <1>3, <3>1, <3>2
    <3>4. 2 * (P * K) = P * (2 * K) /\ 2 * K \in Nat \ {0}
      BY <1>5
    <3> QED BY <3>3, <3>4
  <2> QED BY <2>2, <2>3
<1>8. Nat \subseteq N
  <2> HIDE DEF N
  <2> QED BY <1>6, <1>7, NatSet
<1>9. PICK K \in Nat \ {0} : Pow2[Bits - 1] = P * K
  <2>1. Bits - 1 \in Nat /\ Narrow <= Bits - 1 /\ Bits - 1 <= Bits
    BY <1>1
  <2> QED BY <1>8, <2>1
<1>10. /\ Top \in Nat /\ Top >= 2 /\ Full = 2 * Top /\ Top = P * K
  <2>1. Bits \in 2..Bits
    BY <1>1
  <2> QED BY <1>4, <1>9, <2>1 DEF Top, Full
<1>11. Full \in Nat \ {0}
  BY <1>10
<1>12. w \in 2..Bits /\ (w = Bits \/ w = Narrow)
  BY <1>1 DEF Widths
<1>13. /\ Pow2[w - 1] \in Nat /\ Pow2[w - 1] >= 2
       /\ Pow2[w] = 2 * Pow2[w - 1] /\ Pow2[w] \in Nat \ {0}
  <2>1. w \in 0..Bits
    BY <1>1, <1>12
  <2> QED BY <1>2, <1>4, <1>12, <2>1
<1>14. CASE w = Bits
  <2>1. Full = Pow2[w] /\ Top = Pow2[w - 1]
    BY <1>14 DEF Full, Top
  <2>2. Full = Pow2[w] * 1
    BY <1>13, <2>1
  <2> QED BY <1>10, <1>11, <1>13, <1>14, <2>1, <2>2
<1>15. CASE w # Bits
  <2>1. Pow2[w] = P
    BY <1>12, <1>15
  <2> HIDE DEF P
  <2>2. P * K >= P
    BY <1>5
  <2>3. Full = P * (2 * K) /\ 2 * K \in Nat \ {0} /\ Full >= 2 * P
    BY <1>5, <1>10, <2>2
  <2> QED BY <1>10, <1>11, <1>13, <1>15, <2>1, <2>3
<1> QED BY <1>14, <1>15

-----------------------------------------------------------------------------
(* Registers: sums and differences modulo a power of 2.                    *)

LEMMA SumMod ==
    ASSUME NEW F \in Nat \ {0}, NEW d \in 0..(F - 1), NEW s \in 0..(F - 1)
    PROVE  (d + s) % F = IF d + s < F THEN d + s ELSE d + s - F
<1>1. CASE d + s < F
  <2>1. d + s \in 0..(F - 1) /\ d + s = F * 0 + (d + s)
    BY <1>1
  <2>2. (F * 0 + (d + s)) % F = d + s
    BY <2>1, Quotient
  <2> QED BY <1>1, <2>1, <2>2
<1>2. CASE ~(d + s < F)
  <2>1. d + s - F \in 0..(F - 1) /\ d + s = F * 1 + (d + s - F)
    BY <1>2
  <2>2. (F * 1 + (d + s - F)) % F = d + s - F
    BY <2>1, Quotient
  <2> QED BY <1>2, <2>1, <2>2
<1> QED BY <1>1, <1>2

LEMMA DifferenceMod ==
    ASSUME NEW F \in Nat \ {0}, NEW d \in 0..(F - 1), NEW s \in 0..(F - 1)
    PROVE  (d - s) % F = IF s <= d THEN d - s ELSE d - s + F
<1>1. CASE s <= d
  <2>1. d - s \in 0..(F - 1) /\ d - s = F * 0 + (d - s)
    BY <1>1
  <2>2. (F * 0 + (d - s)) % F = d - s
    BY <2>1, Quotient
  <2> QED BY <1>1, <2>1, <2>2
<1>2. CASE ~(s <= d)
  <2>1. d - s + F \in 0..(F - 1) /\ d - s = F * (-1) + (d - s + F)
    BY <1>2
  <2>2. (F * (-1) + (d - s + F)) % F = d - s + F
    BY <2>1, Quotient
  <2> QED BY <1>2, <2>1, <2>2
<1> QED BY <1>1, <1>2

\* Numbers that differ by a multiple of F have the same rest.
LEMMA SameRest ==
    ASSUME NEW F \in Nat \ {0}, NEW x \in Int, NEW k \in Int
    PROVE  (x + F * k) % F = x % F
<1> DEFINE q == x \div F
           r == x % F
<1>1. r \in 0..(F - 1) /\ q \in Int /\ x = F * q + r
  BY Division
<1> HIDE DEF q, r
<1>2. x + F * k = F * (q + k) + r /\ q + k \in Int
  BY <1>1
<1>3. (F * (q + k) + r) % F = r
  BY <1>1, <1>2, Quotient
<1> QED BY <1>2, <1>3 DEF r

\* A part of a register keeps what the whole register says of it.
LEMMA PartRest ==
    ASSUME NEW P \in Nat \ {0}, NEW K \in Nat \ {0}, NEW F, F = P * K, NEW u \in Int
    PROVE  (u % F) % P = u % P
<1> DEFINE q == u \div F
           r == u % F
<1>1. F \in Nat \ {0}
  OBVIOUS
<1>2. r \in Int /\ q \in Int /\ u = F * q + r
  <2>1. r \in 0..(F - 1) /\ q \in Int /\ u = F * q + r
    BY <1>1, Division, Zenon
  <2> HIDE DEF q, r
  <2> QED BY <1>1, <2>1
<1> HIDE DEF q, r
<1>3. F * q = P * (K * q) /\ K * q \in Int
  BY <1>2
<1>4. u = r + P * (K * q)
  BY <1>1, <1>2, <1>3
<1>5. (r + P * (K * q)) % P = r % P
  BY <1>2, <1>3, SameRest
<1> QED BY <1>4, <1>5 DEF r

LEMMA PartRestOf ==
    ASSUME NEW P \in Nat \ {0}, NEW K \in Nat \ {0}, NEW F, F = P * K,
           NEW u \in Int, NEW c \in Int
    PROVE  ((u % F) + c) % P = (u + c) % P
<1> DEFINE q == u \div F
           r == u % F
<1>1. F \in Nat \ {0}
  OBVIOUS
<1>2. r \in Int /\ q \in Int /\ u = F * q + r
  <2>1. r \in 0..(F - 1) /\ q \in Int /\ u = F * q + r
    BY <1>1, Division, Zenon
  <2> HIDE DEF q, r
  <2> QED BY <1>1, <2>1
<1> HIDE DEF q, r
<1>3. F * q = P * (K * q) /\ K * q \in Int
  BY <1>2
<1>4. u + c = (r + c) + P * (K * q)
  BY <1>1, <1>2, <1>3
<1>5. ((r + c) + P * (K * q)) % P = (r + c) % P
  <2>1. r + c \in Int
    BY <1>2
  <2> QED BY <1>3, <2>1, SameRest, Zenon
<1> QED BY <1>4, <1>5 DEF r

LEMMA SignBit ==
    ASSUME NEW H \in Nat \ {0}, NEW r \in Int
    PROVE  (r \div H) % 2 = 1 <=> r % (2 * H) >= H
<1> DEFINE q == r \div (2 * H)
           t == r % (2 * H)
<1>1. 2 * H \in Nat \ {0}
  OBVIOUS
<1>2. t \in 0..(2 * H - 1) /\ q \in Int /\ r = (2 * H) * q + t
  BY <1>1, Division
<1> HIDE DEF q, t
<1>3. CASE t < H
  <2>1. r = H * (2 * q) + t /\ 2 * q \in Int /\ t \in 0..(H - 1)
    BY <1>2, <1>3
  <2>2. (H * (2 * q) + t) \div H = 2 * q
    BY <2>1, Quotient
  <2>3. (2 * q) % 2 = 0
    BY <1>2
  <2> QED BY <1>2, <1>3, <2>1, <2>2, <2>3 DEF t
<1>4. CASE ~(t < H)
  <2>1. r = H * (2 * q + 1) + (t - H) /\ 2 * q + 1 \in Int /\ t - H \in 0..(H - 1)
    BY <1>2, <1>4
  <2>2. (H * (2 * q + 1) + (t - H)) \div H = 2 * q + 1
    BY <2>1, Quotient
  <2>3. (2 * q + 1) % 2 = 1
    BY <1>2
  <2> QED BY <1>2, <1>4, <2>1, <2>2, <2>3 DEF t
<1> QED BY <1>3, <1>4

\* The highest bit of a register.
LEMMA HighBit ==
    ASSUME NEW H \in Nat \ {0}, NEW x \in 0..(2 * H - 1)
    PROVE  x \div H = IF x < H THEN 0 ELSE 1
<1>1. CASE x < H
  <2>1. x \in 0..(H - 1) /\ x = H * 0 + x
    BY <1>1
  <2>2. (H * 0 + x) \div H = 0
    BY <2>1, Quotient
  <2> QED BY <1>1, <2>1, <2>2
<1>2. CASE ~(x < H)
  <2>1. x - H \in 0..(H - 1) /\ x = H * 1 + (x - H)
    BY <1>2
  <2>2. (H * 1 + (x - H)) \div H = 1
    BY <2>1, Quotient
  <2> QED BY <1>2, <2>1, <2>2
<1> QED BY <1>1, <1>2

-----------------------------------------------------------------------------
(* The flags of an operation, and what they should mean.                   *)

LEMMA FlagsAre ==
    ASSUME NEW f \in FlagSet, NEW cf \in BOOLEAN, NEW of \in BOOLEAN, NEW res, NEW w
    PROVE  LET g == Flags(f, cf, of, res, w) IN
           /\ g \in FlagSet /\ g.CF = cf /\ g.OF = of /\ g.IF_ = f.IF_
           /\ g.ZF = ZF(res, w) /\ g.SF = SF(res, w)
<1>1. ZF(res, w) \in BOOLEAN /\ SF(res, w) \in BOOLEAN
  BY DEF ZF, SF
<1> DEFINE z == ZF(res, w)
           h == SF(res, w)
<1> HIDE DEF z, h
<1>2. LET g == [f EXCEPT !.CF = cf, !.OF = of, !.ZF = z, !.SF = h] IN
      g \in FlagSet /\ g.CF = cf /\ g.OF = of /\ g.IF_ = f.IF_ /\ g.ZF = z /\ g.SF = h
  BY <1>1 DEF FlagSet, z, h
<1> QED BY <1>2 DEF Flags, z, h

LEMMA ZeroSign ==
    ASSUME AluAssumption, NEW w \in Widths, NEW r \in Int, NEW u \in Int,
           r % Pow2[w] = u % Pow2[w]
    PROVE  /\ u % Pow2[w] \in 0..(Pow2[w] - 1)
           /\ ZF(r, w) <=> u % Pow2[w] = 0
           /\ SF(r, w) <=> u % Pow2[w] >= Pow2[w - 1]
           /\ Signed(u % Pow2[w], w) < 0 <=> u % Pow2[w] >= Pow2[w - 1]
           /\ Signed(u % Pow2[w], w) \in (-Pow2[w - 1])..(Pow2[w - 1] - 1)
<1> DEFINE H == Pow2[w - 1]
           P == Pow2[w]
           t == u % P
<1>1. H \in Nat \ {0} /\ P = 2 * H /\ P \in Nat \ {0}
  BY Ranges
<1>2. ZF(r, w) <=> t = 0
  BY DEF ZF
<1>3. SF(r, w) <=> (r \div H) % 2 = 1
  BY DEF SF, msb
<1> HIDE DEF H, P
<1>4. t \in 0..(P - 1)
  BY <1>1, Division
<1>5. r % P = t
  BY DEF P
<1> HIDE DEF t
<1>6. SF(r, w) <=> t >= H
  <2>1. (r \div H) % 2 = 1 <=> r % (2 * H) >= H
    BY <1>1, SignBit
  <2> QED BY <1>1, <1>3, <1>5, <2>1
<1>7. Signed(t, w) = IF t >= H THEN t - P ELSE t
  BY DEF Signed, H, P
<1>8. (Signed(t, w) < 0 <=> t >= H) /\ Signed(t, w) \in (-H)..(H - 1)
  BY <1>1, <1>4, <1>7
<1> QED BY <1>2, <1>4, <1>6, <1>8 DEF t, H, P

\* What the conditions say of the flags g after an operation is what it means.
Agrees(g, op, d, s, c, w) ==
    FlagsFit(g, [cc \in Meaningful(op, w) |-> Truth(cc, op, d, s, c, w)])

LEMMA Assemble ==
    ASSUME NEW g \in FlagSet, NEW op, NEW d, NEW s, NEW c, NEW w,
           NEW u, u = Result(op, d, s, c), NEW i, i = SignedResult(op, d, s, c, w),
           g.ZF <=> u % Pow2[w] = 0,
           g.SF <=> Signed(u % Pow2[w], w) < 0,
           "B" \in Meaningful(op, w) => (g.CF <=> u \notin Operands(w)),
           "O" \in Meaningful(op, w) =>
              (g.OF <=> i \notin (-Pow2[w - 1])..(Pow2[w - 1] - 1)),
           "L" \in Meaningful(op, w) => ((g.SF # g.OF) <=> i < 0)
    PROVE  Agrees(g, op, d, s, c, w)
<1> DEFINE M == Meaningful(op, w)
           cf == g.CF
           of == g.OF
           zf == g.ZF
           sf == g.SF
           z == u % Pow2[w] = 0
           n == Signed(u % Pow2[w], w) < 0
           b == u \notin Operands(w)
           o == i \notin (-Pow2[w - 1])..(Pow2[w - 1] - 1)
           l == i < 0
<1>1. cf \in BOOLEAN /\ of \in BOOLEAN /\ zf \in BOOLEAN /\ sf \in BOOLEAN
  BY DEF FlagSet
<1>2. M \subseteq Conditions /\ ("BE" \in M => "B" \in M) /\ ("LE" \in M => "L" \in M)
  BY DEF Meaningful, Conditions
<1>3. /\ zf <=> z
      /\ sf <=> n
      /\ "B" \in M => (cf <=> b)
      /\ "O" \in M => (of <=> o)
      /\ "L" \in M => ((sf # of) <=> l)
  OBVIOUS
<1>4. \A cc : setcc(cc, g) = CASE cc = "O"  -> of
      [] cc = "B"  -> cf
      [] cc = "E"  -> zf
      [] cc = "BE" -> cf \/ zf
      [] cc = "S"  -> sf
      [] cc = "L"  -> sf # of
      [] cc = "LE" -> sf # of \/ zf
  BY DEF setcc
<1>5. \A cc : Truth(cc, op, d, s, c, w) = CASE cc = "O"  -> o
      [] cc = "B"  -> b
      [] cc = "E"  -> z
      [] cc = "BE" -> b \/ z
      [] cc = "S"  -> n
      [] cc = "L"  -> l
      [] cc = "LE" -> l \/ z
  BY DEF Truth
<1> HIDE DEF M, cf, of, zf, sf, z, n, b, o, l
<1>6. z \in BOOLEAN /\ n \in BOOLEAN /\ b \in BOOLEAN /\ o \in BOOLEAN /\ l \in BOOLEAN
  BY DEF z, n, b, o, l
<1>7. ASSUME NEW cc \in M PROVE setcc(cc, g) = Truth(cc, op, d, s, c, w)
  <2>1. cc \in Conditions
    BY <1>2
  <2>2. CASE cc = "O"
    BY <1>1, <1>3, <1>4, <1>5, <1>6, <2>2
  <2>3. CASE cc = "B"
    BY <1>1, <1>3, <1>4, <1>5, <1>6, <2>3
  <2>4. CASE cc = "E"
    BY <1>1, <1>3, <1>4, <1>5, <1>6, <2>4
  <2>5. CASE cc = "BE"
    BY <1>1, <1>2, <1>3, <1>4, <1>5, <1>6, <2>5
  <2>6. CASE cc = "S"
    BY <1>1, <1>3, <1>4, <1>5, <1>6, <2>6
  <2>7. CASE cc = "L"
    BY <1>1, <1>3, <1>4, <1>5, <1>6, <2>7
  <2>8. CASE cc = "LE"
    BY <1>1, <1>2, <1>3, <1>4, <1>5, <1>6, <2>8
  <2> QED BY <2>1, <2>2, <2>3, <2>4, <2>5, <2>6, <2>7, <2>8 DEF Conditions
<1> QED BY <1>7 DEF Agrees, FlagsFit, M

LEMMA Msb ==
    ASSUME AluAssumption, NEW x \in Operands(Bits)
    PROVE  msb(x, Bits) = IF x < Top THEN 0 ELSE 1
<1> DEFINE H == Pow2[Bits - 1]
<1>1. Bits \in Widths
  BY DEF Widths
<1>2. H \in Nat \ {0} /\ Pow2[Bits] = 2 * H /\ Top = H
  BY <1>1, Ranges
<1> HIDE DEF H
<1>3. x \in 0..(2 * H - 1)
  BY <1>2 DEF Operands
<1>4. x \div H = IF x < H THEN 0 ELSE 1
  BY <1>2, <1>3, HighBit
<1> QED BY <1>2, <1>4 DEF msb, H

LEMMA Wide ==
    ASSUME AluAssumption
    PROVE  /\ Bits \in Widths /\ Top \in Nat /\ Top >= 2 /\ Full = 2 * Top
           /\ Operands(Bits) = 0..(2 * Top - 1)
           /\ \A x : Signed(x, Bits) = IF x >= Top THEN x - 2 * Top ELSE x
<1>1. Bits \in Widths
  BY DEF Widths
<1>2. Top \in Nat /\ Top >= 2 /\ Full = 2 * Top /\ Pow2[Bits] = Full /\ Pow2[Bits - 1] = Top
  BY <1>1, Ranges
<1> QED BY <1>1, <1>2 DEF Operands, Signed

\* The overflow of an addition of whole registers.
LEMMA AddOverflow ==
    ASSUME AluAssumption, NEW d \in Operands(Bits), NEW s \in Operands(Bits)
    PROVE  LET r == Plus(d, s)
               i == Signed(d, Bits) + Signed(s, Bits)
           IN  /\ r = IF d + s < Full THEN d + s ELSE d + s - Full
               /\ is_add_overflow(r, d, s, Bits) <=> i \notin (-Top)..(Top - 1)
               /\ ((r >= Top) # is_add_overflow(r, d, s, Bits)) <=> i < 0
<1> DEFINE r == Plus(d, s)
           i == Signed(d, Bits) + Signed(s, Bits)
           o == is_add_overflow(r, d, s, Bits)
<1>1. Top \in Nat /\ Top >= 2 /\ Full = 2 * Top /\ d \in 0..(2 * Top - 1) /\ s \in 0..(2 * Top - 1)
  BY Wide
<1>2. r = IF d + s < Full THEN d + s ELSE d + s - Full
  <2>1. Full \in Nat \ {0} /\ d \in 0..(Full - 1) /\ s \in 0..(Full - 1)
    BY <1>1
  <2> QED BY <2>1, SumMod DEF Plus
<1>3. i = (IF d >= Top THEN d - 2 * Top ELSE d) + (IF s >= Top THEN s - 2 * Top ELSE s)
  BY Wide
<1> HIDE DEF r, i
<1>4. r \in Operands(Bits)
  <2>1. r \in 0..(2 * Top - 1)
    BY <1>1, <1>2
  <2> QED BY <2>1, Wide
<1>5. o <=> ((d < Top) <=> (s < Top)) /\ ~((r < Top) <=> (d < Top))
  <2>1. /\ msb(d, Bits) = IF d < Top THEN 0 ELSE 1
        /\ msb(s, Bits) = IF s < Top THEN 0 ELSE 1
        /\ msb(r, Bits) = IF r < Top THEN 0 ELSE 1
    BY <1>4, Msb
  <2> QED BY <2>1 DEF is_add_overflow
<1> HIDE DEF o
<1>6. o \in BOOLEAN
  BY DEF o, is_add_overflow
<1>7. o <=> i \notin (-Top)..(Top - 1)
  BY <1>1, <1>2, <1>3, <1>5
<1>8. ((r >= Top) # o) <=> i < 0
  BY <1>1, <1>2, <1>3, <1>5, <1>6
<1> QED BY <1>2, <1>7, <1>8 DEF r, i, o

LEMMA SubIsBool ==
    ASSUME NEW r, NEW d, NEW s, NEW w PROVE is_sub_overflow(r, d, s, w) \in BOOLEAN
<1> DEFINE n == Minus(0, s)
<1>1. is_sub_overflow(r, d, s, w) = IF n = Top THEN d < Top ELSE is_add_overflow(r, d, n, w)
  BY DEF is_sub_overflow
<1>2. (d < Top) \in BOOLEAN /\ is_add_overflow(r, d, n, w) \in BOOLEAN
  BY DEF is_add_overflow
<1> QED BY <1>1, <1>2, Zenon

\* The overflow of a subtraction, also of a number that has no negation.
LEMMA SubOverflow ==
    ASSUME AluAssumption, NEW d \in Operands(Bits), NEW s \in Operands(Bits)
    PROVE  LET r == Minus(d, s)
               i == Signed(d, Bits) - Signed(s, Bits)
           IN  /\ r = IF s <= d THEN d - s ELSE d - s + Full
               /\ is_sub_overflow(r, d, s, Bits) <=> i \notin (-Top)..(Top - 1)
               /\ ((r >= Top) # is_sub_overflow(r, d, s, Bits)) <=> i < 0
<1> DEFINE r == Minus(d, s)
           n == Minus(0, s)
           i == Signed(d, Bits) - Signed(s, Bits)
           o == is_sub_overflow(r, d, s, Bits)
<1>1. Top \in Nat /\ Top >= 2 /\ Full = 2 * Top /\ d \in 0..(2 * Top - 1) /\ s \in 0..(2 * Top - 1)
  BY Wide
<1>2. Full \in Nat \ {0} /\ d \in 0..(Full - 1) /\ s \in 0..(Full - 1) /\ 0 \in 0..(Full - 1)
  BY <1>1
<1>3. r = IF s <= d THEN d - s ELSE d - s + Full
  BY <1>2, DifferenceMod DEF Minus
<1>4. n = IF s = 0 THEN 0 ELSE Full - s
  <2>1. n = IF s <= 0 THEN 0 - s ELSE 0 - s + Full
    BY <1>2, DifferenceMod DEF Minus
  <2> HIDE DEF n
  <2> QED BY <1>2, <2>1
<1>5. i = (IF d >= Top THEN d - 2 * Top ELSE d) - (IF s >= Top THEN s - 2 * Top ELSE s)
  BY Wide
<1> HIDE DEF r, i, n
<1>6. r \in Operands(Bits) /\ n \in Operands(Bits)
  <2>1. r \in 0..(2 * Top - 1) /\ n \in 0..(2 * Top - 1)
    BY <1>1, <1>3, <1>4
  <2> QED BY <2>1, Wide
<1>7. o <=> IF n = Top THEN d < Top
            ELSE ((d < Top) <=> (n < Top)) /\ ~((r < Top) <=> (d < Top))
  <2>1. /\ msb(d, Bits) = IF d < Top THEN 0 ELSE 1
        /\ msb(n, Bits) = IF n < Top THEN 0 ELSE 1
        /\ msb(r, Bits) = IF r < Top THEN 0 ELSE 1
    BY <1>6, Msb
  <2>2. o <=> IF n = Top THEN d < Top ELSE is_add_overflow(r, d, n, Bits)
    BY DEF is_sub_overflow, n
  <2>3. is_add_overflow(r, d, n, Bits)
           <=> ((d < Top) <=> (n < Top)) /\ ~((r < Top) <=> (d < Top))
    BY <2>1 DEF is_add_overflow
  <2> HIDE DEF o
  <2> QED BY <2>2, <2>3
<1>8. o \in BOOLEAN
  BY SubIsBool
<1> HIDE DEF o
<1>9. o <=> i \notin (-Top)..(Top - 1)
  BY <1>1, <1>3, <1>4, <1>5, <1>7
<1>10. ((r >= Top) # o) <=> i < 0
  BY <1>1, <1>3, <1>4, <1>5, <1>7, <1>8
<1> QED BY <1>3, <1>9, <1>10 DEF r, i, o

LEMMA FromFlags ==
    ASSUME AluAssumption, NEW f \in FlagSet, NEW cf \in BOOLEAN, NEW of \in BOOLEAN,
           NEW op, NEW d, NEW s, NEW c, NEW w \in Widths,
           NEW r \in Int, NEW u \in Int, r % Pow2[w] = u % Pow2[w],
           u = Result(op, d, s, c), NEW i, i = SignedResult(op, d, s, c, w),
           "B" \in Meaningful(op, w) => (cf <=> u \notin Operands(w)),
           "O" \in Meaningful(op, w) =>
              (of <=> i \notin (-Pow2[w - 1])..(Pow2[w - 1] - 1)),
           "L" \in Meaningful(op, w) => (((u % Pow2[w] >= Pow2[w - 1]) # of) <=> i < 0)
    PROVE  LET g == Flags(f, cf, of, r, w) IN
           g \in FlagSet /\ g.IF_ = f.IF_ /\ Agrees(g, op, d, s, c, w)
<1> DEFINE g == Flags(f, cf, of, r, w)
           b == u % Pow2[w] >= Pow2[w - 1]
<1>1. /\ g \in FlagSet /\ g.CF = cf /\ g.OF = of /\ g.IF_ = f.IF_
      /\ g.ZF = ZF(r, w) /\ g.SF = SF(r, w)
  BY FlagsAre
<1>2. /\ ZF(r, w) <=> u % Pow2[w] = 0
      /\ SF(r, w) <=> b
      /\ Signed(u % Pow2[w], w) < 0 <=> b
  BY ZeroSign
<1> HIDE DEF g
<1>3. (g.ZF <=> u % Pow2[w] = 0) /\ (g.SF <=> Signed(u % Pow2[w], w) < 0)
  BY <1>1, <1>2
<1>4. "L" \in Meaningful(op, w) => ((g.SF # g.OF) <=> i < 0)
  <2> DEFINE sf == g.SF
             l == i < 0
  <2>1. (sf <=> b) /\ g.OF = of /\ sf \in BOOLEAN /\ b \in BOOLEAN
    BY <1>1, <1>2 DEF FlagSet
  <2>2. "L" \in Meaningful(op, w) => ((b # of) <=> l)
    OBVIOUS
  <2> HIDE DEF b, sf, l
  <2> QED BY <2>1, <2>2 DEF sf, l
<1>5. Agrees(g, op, d, s, c, w)
  BY <1>1, <1>3, <1>4, Assemble
<1> QED BY <1>1, <1>5 DEF g

\* An operation on flags, with the carry c before it, is right.
AluOK(op, d, s, f, c, w) ==
    LET g == Exec(op, f, d, s, w) IN
    g \in FlagSet /\ g.IF_ = f.IF_ /\ Agrees(g, op, d, s, c, w)

\* The operands and what a register keeps of a number.
LEMMA Operand ==
    ASSUME AluAssumption, NEW w \in Widths
    PROVE  /\ \A u \in Int : (u % Full) % Pow2[w] = u % Pow2[w] /\ u % Full \in 0..(Full - 1)
           /\ \A d \in Operands(w) : d \in 0..(Pow2[w] - 1) /\ d \in 0..(Full - 1)
           /\ Pow2[w] \in Nat \ {0} /\ Full \in Nat \ {0} /\ Pow2[w] <= Full
<1> DEFINE P == Pow2[w]
<1>1. PICK K \in Nat \ {0} : Full = P * K
  BY Ranges
<1>2. P \in Nat \ {0} /\ Full \in Nat \ {0}
  BY Ranges
<1>3. \A d \in Operands(w) : d \in 0..(P - 1)
  BY DEF Operands
<1>4. P <= Full
  BY Ranges
<1> HIDE DEF P
<1>5. ASSUME NEW u \in Int
      PROVE  (u % Full) % P = u % P /\ u % Full \in 0..(Full - 1)
  <2>1. (u % Full) % P = u % P
    <3> DEFINE F == Full
    <3>1. F = P * K
      BY <1>1
    <3> HIDE DEF F
    <3>2. (u % F) % P = u % P
      BY <1>2, <3>1, PartRest
    <3> QED BY <3>2 DEF F
  <2>2. u % Full \in 0..(Full - 1)
    BY <1>2, Division
  <2> QED BY <2>1, <2>2
<1> QED BY <1>2, <1>3, <1>4, <1>5 DEF P

LEMMA AddOK ==
    ASSUME AluAssumption, NEW w \in Widths, NEW d \in Operands(w), NEW s \in Operands(w),
           NEW f \in FlagSet, NEW c
    PROVE  AluOK("add", d, s, f, c, w)
<1> DEFINE u == d + s
           r == Plus(d, s)
           i == SignedResult("add", d, s, c, w)
           cf == is_add_carry(r, d)
           of == is_add_overflow(r, d, s, w)
           M == Meaningful("add", w)
<1>1. /\ d \in 0..(Pow2[w] - 1) /\ s \in 0..(Pow2[w] - 1)
      /\ Pow2[w] \in Nat \ {0} /\ Full \in Nat \ {0}
  BY Operand
<1>2. u \in Int
  BY <1>1
<1>3. r % Pow2[w] = u % Pow2[w] /\ r \in Int
  <2>1. (u % Full) % Pow2[w] = u % Pow2[w] /\ u % Full \in 0..(Full - 1)
    BY <1>2, Operand
  <2> QED BY <1>1, <2>1 DEF Plus
<1>4. u = Result("add", d, s, c) /\ i = Signed(d, w) + Signed(s, w)
  BY DEF Result, SignedResult, Logic, Shifts
<1>5. cf \in BOOLEAN /\ of \in BOOLEAN
  BY DEF is_add_carry, is_add_overflow
<1>6. Exec("add", f, d, s, w) = Flags(f, cf, of, r, w)
  BY DEF Exec, Add, Logic, Shifts
<1>7. CASE w = Bits
  <2>1. /\ r = IF d + s < Full THEN d + s ELSE d + s - Full
        /\ of <=> i \notin (-Top)..(Top - 1)
        /\ ((r >= Top) # of) <=> i < 0
    BY <1>4, <1>7, AddOverflow
  <2>2. Pow2[w] = Full /\ Pow2[w - 1] = Top
    BY <1>7, Ranges
  <2>3. r = u % Full
    BY DEF Plus
  <2>4. u \notin Operands(w) <=> ~(u < Full)
    BY <1>1, <1>2, <2>2 DEF Operands
  <2> HIDE DEF r, i, of
  <2>5. cf <=> u \notin Operands(w)
    BY <1>1, <2>1, <2>2, <2>4 DEF is_add_carry
  <2>6. /\ of <=> i \notin (-Pow2[w - 1])..(Pow2[w - 1] - 1)
        /\ ((u % Pow2[w] >= Pow2[w - 1]) # of) <=> i < 0
    BY <2>1, <2>2, <2>3
  <2> HIDE DEF u, cf
  <2>7. LET g == Flags(f, cf, of, r, w) IN
        g \in FlagSet /\ g.IF_ = f.IF_ /\ Agrees(g, "add", d, s, c, w)
    BY <1>2, <1>3, <1>4, <1>5, <2>5, <2>6, FromFlags DEF i
  <2> QED BY <1>6, <2>7, Zenon DEF AluOK
<1>8. CASE w # Bits
  <2>1. "B" \notin M /\ "O" \notin M /\ "L" \notin M
    BY <1>8 DEF Meaningful, Logic
  <2> HIDE DEF u, r, i, cf, of, M
  <2>2. LET g == Flags(f, cf, of, r, w) IN
        g \in FlagSet /\ g.IF_ = f.IF_ /\ Agrees(g, "add", d, s, c, w)
    BY <1>2, <1>3, <1>4, <1>5, <2>1, FromFlags DEF i, M
  <2> QED BY <1>6, <2>2, Zenon DEF AluOK
<1> QED BY <1>7, <1>8

\* sub and cmp
LEMMA SubOK ==
    ASSUME AluAssumption, NEW w \in Widths, NEW d \in Operands(w), NEW s \in Operands(w),
           NEW f \in FlagSet, NEW c, NEW op \in {"sub", "cmp"}
    PROVE  AluOK(op, d, s, f, c, w)
<1> DEFINE u == d - s
           r == Minus(d, s)
           i == SignedResult(op, d, s, c, w)
           cf == is_sub_carry(r, d)
           of == is_sub_overflow(r, d, s, w)
           M == Meaningful(op, w)
<1>1. /\ d \in 0..(Pow2[w] - 1) /\ s \in 0..(Pow2[w] - 1)
      /\ d \in 0..(Full - 1) /\ s \in 0..(Full - 1)
      /\ Pow2[w] \in Nat \ {0} /\ Full \in Nat \ {0} /\ Pow2[w] <= Full
  BY Operand
<1>2. u \in Int
  BY <1>1
<1>3. r % Pow2[w] = u % Pow2[w] /\ r \in Int
  <2>1. (u % Full) % Pow2[w] = u % Pow2[w] /\ u % Full \in 0..(Full - 1)
    BY <1>2, Operand
  <2> QED BY <1>1, <2>1 DEF Minus
<1>4. u = Result(op, d, s, c) /\ i = Signed(d, w) - Signed(s, w)
  BY DEF Result, SignedResult, Logic, Shifts
<1>5. cf \in BOOLEAN /\ of \in BOOLEAN
  BY SubIsBool DEF is_sub_carry
<1>6. Exec(op, f, d, s, w) = Flags(f, cf, of, r, w)
  BY DEF Exec, Sub, Logic, Shifts
<1>7. r = IF s <= d THEN d - s ELSE d - s + Full
  BY <1>1, DifferenceMod DEF Minus
<1>8. cf <=> u \notin Operands(w)
  <2>1. cf <=> r > d
    BY DEF is_sub_carry
  <2> HIDE DEF r, cf
  <2>2. cf <=> ~(s <= d)
    BY <1>1, <1>7, <2>1
  <2>3. u \notin Operands(w) <=> ~(s <= d)
    <3> DEFINE P == Pow2[w]
    <3>1. d \in 0..(P - 1) /\ s \in 0..(P - 1) /\ P \in Nat \ {0} /\ Operands(w) = 0..(P - 1)
      BY <1>1 DEF Operands
    <3> HIDE DEF P
    <3> QED BY <3>1
  <2> QED BY <2>2, <2>3
<1>9. CASE w = Bits
  <2>1. /\ of <=> i \notin (-Top)..(Top - 1)
        /\ ((r >= Top) # of) <=> i < 0
    BY <1>4, <1>9, SubOverflow
  <2>2. Pow2[w] = Full /\ Pow2[w - 1] = Top
    BY <1>9, Ranges
  <2>3. r = u % Full
    BY DEF Minus
  <2> HIDE DEF r, i, of, u, cf
  <2>4. /\ of <=> i \notin (-Pow2[w - 1])..(Pow2[w - 1] - 1)
        /\ ((u % Pow2[w] >= Pow2[w - 1]) # of) <=> i < 0
    BY <2>1, <2>2, <2>3
  <2>5. LET g == Flags(f, cf, of, r, w) IN
        g \in FlagSet /\ g.IF_ = f.IF_ /\ Agrees(g, op, d, s, c, w)
    BY <1>2, <1>3, <1>4, <1>5, <1>8, <2>4, FromFlags DEF i
  <2> QED BY <1>6, <2>5, Zenon DEF AluOK
<1>10. CASE w # Bits
  <2>1. "O" \notin M /\ "L" \notin M
    BY <1>10 DEF Meaningful, Logic
  <2> HIDE DEF u, r, i, cf, of, M
  <2>2. LET g == Flags(f, cf, of, r, w) IN
        g \in FlagSet /\ g.IF_ = f.IF_ /\ Agrees(g, op, d, s, c, w)
    BY <1>2, <1>3, <1>4, <1>5, <1>8, <2>1, FromFlags DEF i, M
  <2> QED BY <1>6, <2>2, Zenon DEF AluOK
<1> QED BY <1>9, <1>10

LEMMA NegOK ==
    ASSUME AluAssumption, NEW w \in Widths, NEW d \in Operands(w), NEW s,
           NEW f \in FlagSet, NEW c
    PROVE  AluOK("neg", d, s, f, c, w)
<1> DEFINE u == -d
           r == Minus(0, d)
           i == SignedResult("neg", d, s, c, w)
           cf == d # 0
           of == is_sub_overflow(r, 0, d, w)
           M == Meaningful("neg", w)
<1>1. /\ d \in 0..(Pow2[w] - 1) /\ d \in 0..(Full - 1)
      /\ Pow2[w] \in Nat \ {0} /\ Full \in Nat \ {0} /\ Pow2[w] <= Full
  BY Operand
<1>2. u \in Int /\ 0 - d = u
  BY <1>1
<1>3. r % Pow2[w] = u % Pow2[w] /\ r \in Int
  <2>1. (u % Full) % Pow2[w] = u % Pow2[w] /\ u % Full \in 0..(Full - 1)
    BY <1>2, Operand
  <2> QED BY <1>1, <1>2, <2>1 DEF Minus
<1>4. u = Result("neg", d, s, c) /\ i = -Signed(d, w)
  BY DEF Result, SignedResult, Logic, Shifts
<1>5. cf \in BOOLEAN /\ of \in BOOLEAN
  BY SubIsBool
<1>6. Exec("neg", f, d, s, w) = Flags(f, cf, of, r, w)
  BY DEF Exec, Neg, Logic, Shifts
<1>7. cf <=> u \notin Operands(w)
  <2> DEFINE P == Pow2[w]
  <2>1. d \in 0..(P - 1) /\ P \in Nat \ {0} /\ Operands(w) = 0..(P - 1)
    BY <1>1 DEF Operands
  <2> HIDE DEF P
  <2> QED BY <2>1
<1>8. CASE w = Bits
  <2>1. 0 \in Operands(Bits) /\ Signed(0, Bits) = 0 /\ Signed(d, Bits) \in Int
    BY <1>8, Wide
  <2>2. /\ of <=> Signed(0, Bits) - Signed(d, Bits) \notin (-Top)..(Top - 1)
        /\ ((r >= Top) # of) <=> Signed(0, Bits) - Signed(d, Bits) < 0
    BY <1>8, <2>1, SubOverflow
  <2>3. i = Signed(0, Bits) - Signed(d, Bits)
    BY <1>4, <1>8, <2>1
  <2>4. Pow2[w] = Full /\ Pow2[w - 1] = Top
    BY <1>8, Ranges
  <2>5. r = u % Full
    BY <1>2 DEF Minus
  <2> HIDE DEF r, i, of, u, cf
  <2>6. /\ of <=> i \notin (-Pow2[w - 1])..(Pow2[w - 1] - 1)
        /\ ((u % Pow2[w] >= Pow2[w - 1]) # of) <=> i < 0
    BY <2>2, <2>3, <2>4, <2>5
  <2>7. LET g == Flags(f, cf, of, r, w) IN
        g \in FlagSet /\ g.IF_ = f.IF_ /\ Agrees(g, "neg", d, s, c, w)
    BY <1>2, <1>3, <1>4, <1>5, <1>7, <2>6, FromFlags DEF i
  <2> QED BY <1>6, <2>7, Zenon DEF AluOK
<1>9. CASE w # Bits
  <2>1. "O" \notin M /\ "L" \notin M
    BY <1>9 DEF Meaningful, Logic
  <2> HIDE DEF u, r, i, cf, of, M
  <2>2. LET g == Flags(f, cf, of, r, w) IN
        g \in FlagSet /\ g.IF_ = f.IF_ /\ Agrees(g, "neg", d, s, c, w)
    BY <1>2, <1>3, <1>4, <1>5, <1>7, <2>1, FromFlags DEF i, M
  <2> QED BY <1>6, <2>2, Zenon DEF AluOK
<1> QED BY <1>8, <1>9

\* inc and dec: only zero and sign mean something.
LEMMA CountOK ==
    ASSUME AluAssumption, NEW w \in Widths, NEW d \in Operands(w), NEW s,
           NEW f \in FlagSet, NEW c, NEW op \in {"inc", "dec"}
    PROVE  AluOK(op, d, s, f, c, w)
<1> DEFINE u == IF op = "inc" THEN d + 1 ELSE d - 1
           r == u % Full
           cf == IF op = "inc" THEN is_add_carry(r, d) ELSE is_sub_carry(r, d)
           of == IF op = "inc" THEN is_add_overflow(r, d, s, w)
                 ELSE is_sub_overflow(r, d, s, w)
<1>1. d \in 0..(Pow2[w] - 1) /\ Pow2[w] \in Nat \ {0} /\ Full \in Nat \ {0}
  BY Operand
<1>2. u \in Int
  BY <1>1
<1>3. r % Pow2[w] = u % Pow2[w] /\ r \in Int
  <2> HIDE DEF u
  <2>1. (u % Full) % Pow2[w] = u % Pow2[w] /\ u % Full \in 0..(Full - 1)
    BY <1>2, Operand
  <2> QED BY <1>1, <2>1
<1>4. u = Result(op, d, s, c)
  BY DEF Result, Logic, Shifts
<1>5. cf \in BOOLEAN /\ of \in BOOLEAN
  <2>1. /\ is_add_carry(r, d) \in BOOLEAN /\ is_sub_carry(r, d) \in BOOLEAN
        /\ is_add_overflow(r, d, s, w) \in BOOLEAN /\ is_sub_overflow(r, d, s, w) \in BOOLEAN
    BY SubIsBool DEF is_add_carry, is_sub_carry, is_add_overflow
  <2> HIDE DEF r
  <2> QED BY <2>1, Zenon
<1>6. Exec(op, f, d, s, w) = Flags(f, cf, of, r, w)
  <2>1. CASE op = "inc"
    <3>1. r = Plus(d, 1) /\ cf = is_add_carry(r, d) /\ of = is_add_overflow(r, d, s, w)
      BY <2>1 DEF Plus
    <3>2. Exec(op, f, d, s, w) = Inc(f, d, s, w)
      BY <2>1 DEF Exec, Logic, Shifts
    <3> HIDE DEF r, cf, of
    <3> QED BY <3>1, <3>2 DEF Inc
  <2>2. CASE op = "dec"
    <3>1. r = Minus(d, 1) /\ cf = is_sub_carry(r, d) /\ of = is_sub_overflow(r, d, s, w)
      BY <2>2 DEF Minus
    <3>2. Exec(op, f, d, s, w) = Dec(f, d, s, w)
      BY <2>2 DEF Exec, Logic, Shifts
    <3> HIDE DEF r, cf, of
    <3> QED BY <3>1, <3>2 DEF Dec
  <2> QED BY <2>1, <2>2
<1>7. /\ "B" \notin Meaningful(op, w) /\ "O" \notin Meaningful(op, w)
      /\ "L" \notin Meaningful(op, w)
  BY DEF Meaningful, Logic
<1> HIDE DEF u, r, cf, of
<1>8. LET g == Flags(f, cf, of, r, w) IN
      g \in FlagSet /\ g.IF_ = f.IF_ /\ Agrees(g, op, d, s, c, w)
  <2> DEFINE i == SignedResult(op, d, s, c, w)
  <2>1. /\ "B" \in Meaningful(op, w) => (cf <=> u \notin Operands(w))
        /\ "O" \in Meaningful(op, w) =>
              (of <=> i \notin (-Pow2[w - 1])..(Pow2[w - 1] - 1))
        /\ "L" \in Meaningful(op, w) =>
              (((u % Pow2[w] >= Pow2[w - 1]) # of) <=> i < 0)
    BY <1>7
  <2>2. i = SignedResult(op, d, s, c, w)
    OBVIOUS
  <2> HIDE DEF i
  <2> QED BY <1>2, <1>3, <1>4, <1>5, <2>1, <2>2, FromFlags
<1> QED BY <1>6, <1>8, Zenon DEF AluOK

\* The rest of a number that is at most one range away.
LEMMA NearRest ==
    ASSUME NEW P \in Nat \ {0}, NEW u \in Int
    PROVE  /\ u \in 0..(2 * P - 1) => u % P = IF u < P THEN u ELSE u - P
           /\ u \in (-P)..(P - 1) => u % P = IF u >= 0 THEN u ELSE u + P
           /\ u % P \in 0..(P - 1) /\ (u % P) % P = u % P
<1>1. ASSUME u \in 0..(P - 1) PROVE u % P = u
  <2>1. u = P * 0 + u
    OBVIOUS
  <2>2. (P * 0 + u) % P = u
    BY <1>1, Quotient
  <2> QED BY <2>1, <2>2
<1>2. ASSUME u - P \in 0..(P - 1) PROVE u % P = u - P
  <2> DEFINE r == u - P
  <2>1. u = P * 1 + r
    OBVIOUS
  <2>2. r \in 0..(P - 1)
    BY <1>2
  <2> HIDE DEF r
  <2>3. (P * 1 + r) % P = r
    BY <2>2, Quotient
  <2> QED BY <2>1, <2>3 DEF r
<1>3. ASSUME u + P \in 0..(P - 1) PROVE u % P = u + P
  <2> DEFINE r == u + P
  <2>1. u = P * (-1) + r
    OBVIOUS
  <2>2. r \in 0..(P - 1)
    BY <1>3
  <2> HIDE DEF r
  <2>3. (P * (-1) + r) % P = r
    BY <2>2, Quotient
  <2> QED BY <2>1, <2>3 DEF r
<1>4. u % P \in 0..(P - 1)
  BY Division
<1>5. (u % P) % P = u % P
  <2> DEFINE r == u % P
  <2>1. r \in 0..(P - 1)
    BY <1>4
  <2> HIDE DEF r
  <2>2. (P * 0 + r) % P = r
    BY <2>1, Quotient
  <2>3. P * 0 + r = r
    BY <2>1
  <2>4. r % P = r
    BY <2>2, <2>3
  <2> QED BY <2>4 DEF r
<1>6. u \in 0..(2 * P - 1) => u % P = IF u < P THEN u ELSE u - P
  <2> DEFINE r == u % P
  <2>1. (u \in 0..(P - 1) => r = u) /\ (u - P \in 0..(P - 1) => r = u - P)
    BY <1>1, <1>2
  <2> HIDE DEF r
  <2>2. u \in 0..(2 * P - 1) => r = IF u < P THEN u ELSE u - P
    BY <2>1
  <2> QED BY <2>2 DEF r
<1>7. u \in (-P)..(P - 1) => u % P = IF u >= 0 THEN u ELSE u + P
  <2> DEFINE r == u % P
  <2>1. (u \in 0..(P - 1) => r = u) /\ (u + P \in 0..(P - 1) => r = u + P)
    BY <1>1, <1>3
  <2> HIDE DEF r
  <2>2. u \in (-P)..(P - 1) => r = IF u >= 0 THEN u ELSE u + P
    BY <2>1
  <2> QED BY <2>2 DEF r
<1> QED BY <1>4, <1>5, <1>6, <1>7

\* What adc keeps of its sum, and its carry, for both widths.
LEMMA AdcOK ==
    ASSUME AluAssumption, NEW w \in Widths, NEW d \in Operands(w), NEW s \in Operands(w),
           NEW f \in FlagSet, NEW c, c = BitIf(f.CF)
    PROVE  AluOK("adc", d, s, f, c, w)
<1> DEFINE P == Pow2[w]
           u == d + s + c
           s0 == Plus(d, s)
           r == Plus(s0, c) % P
           k == is_add_carry(r, s0)
           cf == k \/ is_add_carry(s0, d)
           of == is_add_overflow(BitIf(k), d, s, w)
           i == SignedResult("adc", d, s, c, w)
<1>1. /\ d \in 0..(P - 1) /\ s \in 0..(P - 1) /\ d \in 0..(Full - 1) /\ s \in 0..(Full - 1)
      /\ P \in Nat \ {0} /\ Full \in Nat \ {0} /\ P <= Full /\ c \in 0..1
      /\ P >= 2
  <2>1. c \in 0..1
    BY DEF BitIf
  <2>2. P >= 2
    BY Ranges
  <2> QED BY <2>1, <2>2, Operand
<1>2. u \in Int /\ u \in 0..(2 * P - 1)
  BY <1>1
<1>3. r = u % P
  <2>1. PICK K \in Nat \ {0} : Full = P * K
    BY Ranges
  <2> DEFINE F == Full
             x == d + s
  <2>2. x \in Int /\ u = x + c /\ c \in Int /\ F = P * K /\ P \in Nat \ {0}
        /\ s0 = x % F /\ r = ((s0 + c) % F) % P /\ s0 \in Int
    <3>1. x % F \in 0..(F - 1)
      <4>1. x \in Int
        BY <1>1
      <4> HIDE DEF x
      <4> QED BY <4>1, Operand
    <3> QED BY <1>1, <2>1, <3>1 DEF Plus
  <2> HIDE DEF F, x, r, u, s0, P
  <2>3. ((s0 + c) % F) % P = (s0 + c) % P
    <3> DEFINE y == s0 + c
    <3>1. y \in Int
      BY <2>2
    <3> HIDE DEF y
    <3>2. P \in Nat \ {0} /\ F = P * K
      BY <2>2
    <3>3. (y % F) % P = y % P
      BY <3>1, <3>2, PartRest, Zenon
    <3> QED BY <3>3 DEF y
  <2>4. ((x % F) + c) % P = (x + c) % P
    BY <2>2, PartRestOf
  <2> QED BY <2>2, <2>3, <2>4
<1>4. u = Result("adc", d, s, c)
  BY DEF Result, Logic, Shifts
<1>5. cf \in BOOLEAN /\ of \in BOOLEAN
  BY DEF is_add_carry, is_add_overflow
<1>6. Exec("adc", f, d, s, w) = Flags(f, cf, of, r, w)
  <2>1. Exec("adc", f, d, s, w) = Adc(f, d, s, w)
    BY DEF Exec, Logic, Shifts
  <2> DEFINE x == BitIf(f.CF)
             y == Plus(s0, x) % P
  <2>2. Adc(f, d, s, w) =
          Flags(f, is_add_carry(y, s0) \/ is_add_carry(s0, d),
                is_add_overflow(BitIf(is_add_carry(y, s0)), d, s, w), y, w)
    BY Zenon DEF Adc
  <2>3. x = c
    OBVIOUS
  <2> HIDE DEF x, s0
  <2> QED BY <2>1, <2>2, <2>3, Zenon
<1>7. s0 = IF d + s < Full THEN d + s ELSE d + s - Full
  BY <1>1, SumMod DEF Plus
<1>8. r = IF u < P THEN u ELSE u - P
  <2> HIDE DEF P, r, u
  <2> QED BY <1>1, <1>2, <1>3, NearRest
<1>9. cf <=> u \notin Operands(w)
  <2>1. cf <=> r < s0 \/ s0 < d
    BY DEF is_add_carry
  <2>2. Operands(w) = 0..(P - 1) /\ u = d + s + c
    BY DEF Operands
  <2>3. Full = P \/ Full >= 2 * P
    BY Ranges
  <2> HIDE DEF r, s0, cf, P, u
  <2> QED BY <1>1, <1>2, <1>7, <1>8, <2>1, <2>2, <2>3
<1>10. r % P = u % P /\ r \in Int
  <2> HIDE DEF P, r, u
  <2>1. u % P \in 0..(P - 1) /\ (u % P) % P = u % P
    BY <1>1, <1>2, NearRest
  <2> QED BY <1>1, <1>3, <2>1
<1> DEFINE M == Meaningful("adc", w)
<1>11. "O" \notin M /\ "L" \notin M
  BY DEF Meaningful, Logic
<1>12. /\ "B" \in M => (cf <=> u \notin Operands(w))
       /\ "O" \in M => (of <=> i \notin (-Pow2[w - 1])..(Pow2[w - 1] - 1))
       /\ "L" \in M => (((u % Pow2[w] >= Pow2[w - 1]) # of) <=> i < 0)
  <2> HIDE DEF u, r, i, cf, of, M
  <2> QED BY <1>9, <1>11
<1>13. r % Pow2[w] = u % Pow2[w] /\ r \in Int /\ u \in Int
  <2> HIDE DEF u, r
  <2> QED BY <1>2, <1>10
<1> HIDE DEF u, r, cf, of, i
<1>14. LET g == Flags(f, cf, of, r, w) IN
       g \in FlagSet /\ g.IF_ = f.IF_ /\ Agrees(g, "adc", d, s, c, w)
  <2>1. i = SignedResult("adc", d, s, c, w)
    BY DEF i
  <2> QED BY <1>4, <1>5, <1>12, <1>13, <2>1, FromFlags
<1> QED BY <1>6, <1>14, Zenon DEF AluOK

LEMMA SbbOK ==
    ASSUME AluAssumption, NEW w \in Widths, NEW d \in Operands(w), NEW s \in Operands(w),
           NEW f \in FlagSet, NEW c, c = BitIf(f.CF)
    PROVE  AluOK("sbb", d, s, f, c, w)
<1> DEFINE P == Pow2[w]
           u == d - s - c
           s0 == Minus(d, s)
           r == Minus(s0, c) % P
           k == is_sub_carry(r, s0)
           cf == k \/ is_sub_carry(s0, d)
           of == is_sub_overflow(BitIf(k), d, s, w)
           i == SignedResult("sbb", d, s, c, w)
<1>1. /\ d \in 0..(P - 1) /\ s \in 0..(P - 1) /\ d \in 0..(Full - 1) /\ s \in 0..(Full - 1)
      /\ P \in Nat \ {0} /\ Full \in Nat \ {0} /\ P <= Full /\ c \in 0..1
      /\ P >= 2
  <2>1. c \in 0..1
    BY DEF BitIf
  <2>2. P >= 2
    BY Ranges
  <2> QED BY <2>1, <2>2, Operand
<1>2. u \in Int /\ u \in (-P)..(P - 1)
  BY <1>1
<1>3. r = u % P
  <2>1. PICK K \in Nat \ {0} : Full = P * K
    BY Ranges
  <2> DEFINE F == Full
             x == d - s
  <2>2. x \in Int /\ u = x - c /\ c \in Int /\ F = P * K /\ P \in Nat \ {0}
        /\ s0 = x % F /\ r = ((s0 - c) % F) % P /\ s0 \in Int
    <3>1. x % F \in 0..(F - 1)
      <4>1. x \in Int
        BY <1>1
      <4> HIDE DEF x
      <4> QED BY <4>1, Operand
    <3> QED BY <1>1, <2>1, <3>1 DEF Minus
  <2> HIDE DEF F, x, r, u, s0, P
  <2>3. ((s0 - c) % F) % P = (s0 - c) % P
    <3> DEFINE y == s0 - c
    <3>1. y \in Int
      BY <2>2
    <3> HIDE DEF y
    <3>2. P \in Nat \ {0} /\ F = P * K
      BY <2>2
    <3>3. (y % F) % P = y % P
      BY <3>1, <3>2, PartRest, Zenon
    <3> QED BY <3>3 DEF y
  <2>4. ((x % F) + (-c)) % P = (x + (-c)) % P
    <3>1. -c \in Int
      BY <2>2
    <3> QED BY <2>2, <3>1, PartRestOf
  <2>5. s0 - c = s0 + (-c) /\ x - c = x + (-c)
    BY <2>2
  <2> QED BY <2>2, <2>3, <2>4, <2>5
<1>4. u = Result("sbb", d, s, c)
  BY DEF Result, Logic, Shifts
<1>5. cf \in BOOLEAN /\ of \in BOOLEAN
  BY SubIsBool DEF is_sub_carry
<1>6. Exec("sbb", f, d, s, w) = Flags(f, cf, of, r, w)
  <2>1. Exec("sbb", f, d, s, w) = Sbb(f, d, s, w)
    BY DEF Exec, Logic, Shifts
  <2> DEFINE x == BitIf(f.CF)
             y == Minus(s0, x) % P
  <2>2. Sbb(f, d, s, w) =
          Flags(f, is_sub_carry(y, s0) \/ is_sub_carry(s0, d),
                is_sub_overflow(BitIf(is_sub_carry(y, s0)), d, s, w), y, w)
    BY Zenon DEF Sbb
  <2>3. x = c
    OBVIOUS
  <2> HIDE DEF x, s0
  <2> QED BY <2>1, <2>2, <2>3, Zenon
<1>7. s0 = IF s <= d THEN d - s ELSE d - s + Full
  BY <1>1, DifferenceMod DEF Minus
<1>8. r = IF u >= 0 THEN u ELSE u + P
  <2> HIDE DEF P, r, u
  <2> QED BY <1>1, <1>2, <1>3, NearRest
<1>9. cf <=> u \notin Operands(w)
  <2>1. cf <=> r > s0 \/ s0 > d
    BY DEF is_sub_carry
  <2>2. Operands(w) = 0..(P - 1) /\ u = d - s - c
    BY DEF Operands
  <2> HIDE DEF r, s0, cf, P, u
  <2> QED BY <1>1, <1>2, <1>7, <1>8, <2>1, <2>2
<1>10. r % P = u % P /\ r \in Int
  <2> HIDE DEF P, r, u
  <2>1. u % P \in 0..(P - 1) /\ (u % P) % P = u % P
    BY <1>1, <1>2, NearRest
  <2> QED BY <1>1, <1>3, <2>1
<1> DEFINE M == Meaningful("sbb", w)
<1>11. "O" \notin M /\ "L" \notin M
  BY DEF Meaningful, Logic
<1>12. /\ "B" \in M => (cf <=> u \notin Operands(w))
       /\ "O" \in M => (of <=> i \notin (-Pow2[w - 1])..(Pow2[w - 1] - 1))
       /\ "L" \in M => (((u % Pow2[w] >= Pow2[w - 1]) # of) <=> i < 0)
  <2> HIDE DEF u, r, i, cf, of, M
  <2> QED BY <1>9, <1>11
<1>13. r % Pow2[w] = u % Pow2[w] /\ r \in Int /\ u \in Int
  <2> HIDE DEF u, r
  <2> QED BY <1>2, <1>10
<1> HIDE DEF u, r, cf, of, i
<1>14. LET g == Flags(f, cf, of, r, w) IN
       g \in FlagSet /\ g.IF_ = f.IF_ /\ Agrees(g, "sbb", d, s, c, w)
  <2>1. i = SignedResult("sbb", d, s, c, w)
    BY DEF i
  <2> QED BY <1>4, <1>5, <1>12, <1>13, <2>1, FromFlags
<1> QED BY <1>6, <1>14, Zenon DEF AluOK

LEMMA LogicOK ==
    ASSUME AluAssumption, NEW w \in Widths, NEW d \in Operands(w), NEW s \in Operands(w),
           NEW f \in FlagSet, NEW c, NEW op \in Logic
    PROVE  AluOK(op, d, s, f, c, w)
<1> DEFINE P == Pow2[w]
           r == LogicOf(op, d, s)
           i == SignedResult(op, d, s, c, w)
<1>1. r \in Operands(w)
  <2>1. {BitAnd(d, s), BitOr(d, s), BitXor(d, s)} \subseteq Operands(w)
    BY DEF AluAssumption
  <2> QED BY <2>1 DEF LogicOf, Logic
<1>2. r = Result(op, d, s, c)
  <2> HIDE DEF r
  <2> QED BY DEF Result, Logic, Shifts, r
<1>3. i = Signed(r % P, w)
  <2> HIDE DEF r
  <2>1. op \in Logic \cup Shifts
    OBVIOUS
  <2> QED BY <1>2, <2>1 DEF SignedResult
<1>4. Exec(op, f, d, s, w) = Flags(f, FALSE, FALSE, r, w)
  <2> HIDE DEF r
  <2> QED BY DEF Exec, Logic, Shifts, r
<1>5. r \in Int
  <2>1. Pow2[w] \in Nat
    BY Operand
  <2> HIDE DEF r
  <2> QED BY <1>1, <2>1 DEF Operands
<1> DEFINE b == r % P >= Pow2[w - 1]
<1>6. i \in (-Pow2[w - 1])..(Pow2[w - 1] - 1) /\ (i < 0 <=> b)
  <2>1. /\ Signed(r % P, w) \in (-Pow2[w - 1])..(Pow2[w - 1] - 1)
        /\ Signed(r % P, w) < 0 <=> b
    <3> HIDE DEF r
    <3> QED BY <1>5, ZeroSign
  <2> HIDE DEF i
  <2> QED BY <1>3, <2>1
<1>7. (b # FALSE) <=> i < 0
  <2>1. b \in BOOLEAN
    OBVIOUS
  <2> HIDE DEF b, i
  <2> QED BY <1>6, <2>1
<1> HIDE DEF r, i, b
<1>8. /\ FALSE <=> r \notin Operands(w)
      /\ FALSE <=> i \notin (-Pow2[w - 1])..(Pow2[w - 1] - 1)
  BY <1>1, <1>6
<1> DEFINE no == FALSE
<1>9. LET g == Flags(f, no, no, r, w) IN
      g \in FlagSet /\ g.IF_ = f.IF_ /\ Agrees(g, op, d, s, c, w)
  <2>1. no \in BOOLEAN /\ r % Pow2[w] = r % Pow2[w]
    OBVIOUS
  <2>2. i = SignedResult(op, d, s, c, w)
    BY DEF i
  <2>3. ((r % Pow2[w] >= Pow2[w - 1]) # no) <=> i < 0
    BY <1>7 DEF b
  <2>4. /\ no <=> r \notin Operands(w)
        /\ no <=> i \notin (-Pow2[w - 1])..(Pow2[w - 1] - 1)
    BY <1>8
  <2> HIDE DEF no
  <2> QED BY <1>2, <1>5, <2>1, <2>2, <2>3, <2>4, FromFlags
<1> QED BY <1>4, <1>9, Zenon DEF AluOK

LEMMA ShiftOK ==
    ASSUME AluAssumption, NEW w \in Widths, NEW d \in Operands(w), NEW s \in Operands(w),
           NEW f \in FlagSet, NEW c, NEW op \in Shifts
    PROVE  AluOK(op, d, s, f, c, w)
<1> DEFINE r == ShiftOf(op, d, s)
           k == Pow2[s % Bits]
           i == SignedResult(op, d, s, c, w)
<1>1. d \in Int /\ s \in Int /\ Full \in Nat \ {0}
  <2>1. d \in 0..(Full - 1) /\ s \in 0..(Full - 1) /\ Full \in Nat \ {0}
    BY Operand
  <2> QED BY <2>1
<1>2. k \in Nat \ {0}
  <2>1. Bits \in Nat \ {0}
    BY DEF AluAssumption
  <2>2. s % Bits \in 0..(Bits - 1)
    BY <1>1, <2>1, Division
  <2>3. s % Bits \in 0..Bits
    BY <2>1, <2>2
  <2> QED BY <2>3, PowersDouble
<1>3. Signed(d, Bits) \in Int
  <2>1. Signed(d, Bits) = IF d >= Top THEN d - 2 * Top ELSE d
    BY Wide
  <2>2. Top \in Nat
    BY Wide
  <2> QED BY <1>1, <2>1, <2>2
<1>4. r \in Int
  <2> DEFINE F == Full
             e == Signed(d, Bits)
  <2>1. /\ op = "shl" => r = (d * k) % F
        /\ op = "shr" => r = d \div k
        /\ op = "sar" => r = (e \div k) % F
    BY DEF ShiftOf
  <2>2. F \in Nat \ {0} /\ e \in Int
    BY <1>1, <1>3
  <2> HIDE DEF r, k, F, e
  <2>3. (d * k) % F \in Int
    <3>1. d * k \in Int
      BY <1>1, <1>2
    <3> DEFINE x == d * k
    <3>2. x \in Int
      BY <3>1
    <3> HIDE DEF x
    <3>3. x % F \in Int
      BY <2>2, <3>2
    <3> QED BY <3>3 DEF x
  <2>4. d \div k \in Int /\ e \div k \in Int
    BY <1>1, <1>2, <2>2
  <2>5. (e \div k) % F \in Int
    BY <2>2, <2>4
  <2> QED BY <2>1, <2>3, <2>4, <2>5 DEF Shifts
<1>5. r = Result(op, d, s, c)
  BY DEF Result, Logic, Shifts
<1>6. Exec(op, f, d, s, w) = Flags(f, f.CF, f.OF, r, w)
  <2> HIDE DEF r
  <2> QED BY DEF Exec, Logic, Shifts, r
<1>7. f.CF \in BOOLEAN /\ f.OF \in BOOLEAN
  BY DEF FlagSet
<1> DEFINE cf == f.CF
           of == f.OF
           M == Meaningful(op, w)
           t == ((r % Pow2[w] >= Pow2[w - 1]) # of) <=> i < 0
<1>8. /\ "B" \notin M /\ "O" \notin M /\ "L" \notin M
  BY DEF Meaningful, Logic, Shifts
<1> HIDE DEF r, cf, of, i, t, M
<1>9. /\ "B" \in M => (cf <=> r \notin Operands(w))
      /\ "O" \in M => (of <=> i \notin (-Pow2[w - 1])..(Pow2[w - 1] - 1))
      /\ "L" \in M => t
  BY <1>8
<1>10. LET g == Flags(f, cf, of, r, w) IN
       g \in FlagSet /\ g.IF_ = f.IF_ /\ Agrees(g, op, d, s, c, w)
  <2>1. cf \in BOOLEAN /\ of \in BOOLEAN /\ r % Pow2[w] = r % Pow2[w]
    BY <1>7 DEF cf, of
  <2>2. i = SignedResult(op, d, s, c, w)
    BY DEF i
  <2>3. /\ "B" \in Meaningful(op, w) => (cf <=> r \notin Operands(w))
        /\ "O" \in Meaningful(op, w) => (of <=> i \notin (-Pow2[w - 1])..(Pow2[w - 1] - 1))
        /\ "L" \in Meaningful(op, w) => (((r % Pow2[w] >= Pow2[w - 1]) # of) <=> i < 0)
    BY <1>9 DEF M, t
  <2> QED BY <1>4, <1>5, <2>1, <2>2, <2>3, FromFlags
<1> QED BY <1>6, <1>10, Zenon DEF AluOK, cf, of

\* Every operation sets the flags to what its conditions mean.
LEMMA AluRight ==
    ASSUME AluAssumption, NEW op \in Ops, NEW w \in Widths,
           NEW d \in Operands(w), NEW s \in Operands(w), NEW f \in FlagSet,
           NEW c, op \in {"adc", "sbb"} => c = BitIf(f.CF)
    PROVE  AluOK(op, d, s, f, c, w)
<1>1. CASE op = "add"
  BY <1>1, AddOK
<1>2. CASE op \in {"sub", "cmp"}
  BY <1>2, SubOK
<1>3. CASE op \in {"inc", "dec"}
  BY <1>3, CountOK
<1>4. CASE op = "neg"
  BY <1>4, NegOK
<1>5. CASE op = "adc"
  BY <1>5, AdcOK
<1>6. CASE op = "sbb"
  BY <1>6, SbbOK
<1>7. CASE op \in Logic
  BY <1>7, LogicOK
<1>8. CASE op \in Shifts
  BY <1>8, ShiftOK
<1> QED BY <1>1, <1>2, <1>3, <1>4, <1>5, <1>6, <1>7, <1>8 DEF Ops

-----------------------------------------------------------------------------
(* The theorems.                                                           *)

\* The meaning of an operation is one that a program may rely on.
LEMMA MeaningIs ==
    ASSUME NEW op, NEW d, NEW s, NEW c, NEW w, NEW g \in FlagSet, Agrees(g, op, d, s, c, w)
    PROVE  [cc \in Meaningful(op, w) |-> Truth(cc, op, d, s, c, w)] \in Meanings
<1> DEFINE M == Meaningful(op, w)
           t == [cc \in M |-> Truth(cc, op, d, s, c, w)]
<1>1. M \in SUBSET Conditions
  BY DEF Meaningful, Conditions
<1>2. \A cc \in M : t[cc] \in BOOLEAN
  <2>1. SUFFICES ASSUME NEW cc \in M PROVE setcc(cc, g) \in BOOLEAN /\ setcc(cc, g) = t[cc]
    OBVIOUS
  <2>2. setcc(cc, g) = t[cc]
    BY <2>1 DEF Agrees, FlagsFit
  <2>3. g.CF \in BOOLEAN /\ g.OF \in BOOLEAN /\ g.ZF \in BOOLEAN /\ g.SF \in BOOLEAN
    BY DEF FlagSet
  <2>4. cc \in Conditions
    BY <1>1
  <2>5. setcc(cc, g) \in BOOLEAN
    BY <2>3, <2>4 DEF setcc, Conditions
  <2> QED BY <2>2, <2>5
<1>3. t \in [M -> BOOLEAN]
  <2>1. t = [cc \in M |-> t[cc]]
    OBVIOUS
  <2> HIDE DEF t, M
  <2> QED BY <1>2, <2>1
<1> HIDE DEF t, M
<1>4. t \in Meanings
  BY <1>1, <1>3 DEF Meanings
<1> QED BY <1>4 DEF t, M

LEMMA ArithStep ==
    ASSUME AluAssumption, X86Assumption, X86Inv, Arith PROVE X86Inv'
<1>1. Vector \in Places
  BY DEF Places
<1>2. /\ layout \in Layouts /\ StackGood(stack, marks, meant)
      /\ FlagsGood(cpu.eflags, marks, meant) /\ cpu \in CpuSet
      /\ After(cpu.pc) \in Places
  BY <1>1, Started
<1>3. Behind(Stepped, stack, data)
  BY <1>2, Started DEF Stepped
<1>4. PICK o \in Possible :
         /\ exec_once([Stepped EXCEPT !.cpu.eflags = Outcome(o)[1]],
                      stack, marks, Append(Front(meant), Outcome(o)[2]))
         /\ data' = data
  BY DEF Arith
<1>5. PICK op \in Ops, w \in Widths : \E d, s \in Operands(w) : o = <<op, w, d, s>>
  <2>1. o \in ProgramOps \cup HandlerOps
    BY DEF Possible
  <2> QED BY <2>1 DEF X86Assumption
<1>6. PICK d \in Operands(w), s \in Operands(w) : o = <<op, w, d, s>>
  BY <1>5
<1> DEFINE known == Last(meant)
           c == BitIf("B" \in DOMAIN known /\ known["B"])
           f == cpu.eflags
           g == Exec(op, f, d, s, w)
           mt == [cc \in Meaningful(op, w) |-> Truth(cc, op, d, s, c, w)]
<1>7. o[1] = op /\ o[2] = w /\ o[3] = d /\ o[4] = s
  BY <1>6
<1>8. Outcome(o)[1] = g /\ Outcome(o)[2] = mt
  BY <1>7 DEF Outcome
<1>9. f \in FlagSet
  BY <1>2 DEF CpuSet
<1>10. op \in {"adc", "sbb"} => c = BitIf(f.CF)
  <2>1. SUFFICES ASSUME op \in {"adc", "sbb"} PROVE c = BitIf(f.CF)
    OBVIOUS
  <2>2. "B" \in DOMAIN known
    BY <1>7, <2>1 DEF Possible
  <2>3. setcc("B", f) = known["B"]
    BY <1>2, <2>2 DEF FlagsGood, FlagsFit, Last
  <2>4. setcc("B", f) = f.CF
    BY DEF setcc
  <2>5. ("B" \in DOMAIN known /\ known["B"]) <=> f.CF
    BY <2>2, <2>3, <2>4
  <2> HIDE DEF known, f
  <2> QED BY <2>5 DEF BitIf
<1> HIDE DEF c, f
<1>11. AluOK(op, d, s, f, c, w)
  BY <1>9, <1>10, AluRight
<1>12. g \in FlagSet /\ g.IF_ = f.IF_ /\ Agrees(g, op, d, s, c, w)
  BY <1>11, Zenon DEF AluOK
<1>13. FlagsFit(g, mt)
  BY <1>12 DEF Agrees
<1> HIDE DEF g
<1>14. mt \in Meanings
  BY <1>12, MeaningIs
<1> HIDE DEF mt
<1> DEFINE nn == Append(Front(meant), mt)
           n == [Stepped EXCEPT !.cpu.eflags = g]
<1>15. StackGood(stack, marks, nn) /\ nn[Len(nn)] = mt
  BY <1>2, <1>14, StackMean
<1>16. Behind(n, stack, data) /\ n.cpu.eflags = g
  BY <1>3, <1>12, SetFlags
<1>17. exec_once(n, stack, marks, nn) /\ data' = data
  BY <1>4, <1>8
<1> HIDE DEF n, nn
<1>18. FlagsGood(g, marks, nn)
  BY <1>2, <1>12, <1>13, <1>15 DEF FlagsGood, f
<1>19. Good(n, stack, marks, nn, data)
  BY <1>15, <1>16, <1>18 DEF Good
<1> QED BY <1>2, <1>17, <1>19, ExecOnce

\* Every step keeps the invariant.
LEMMA NextInv ==
    ASSUME AluAssumption, X86Assumption, X86Inv, [Next]_vars PROVE X86Inv'
<1>1. Vector \in Places /\ Data \in Words
  BY DEF Places, Words
<1>2. After(cpu.pc) \in Places
  BY <1>1, Started
<1>3. CASE Arith
  BY <1>3, ArithStep
<1>4. CASE Store(Data)
  BY <1>4, StoreStep
<1>5. CASE Push(Data, Stepped)
  BY <1>1, <1>2, <1>5, PushStep DEF Stepped
<1>6. CASE Pop
  <2>1. /\ Pushed > 0 /\ data' = data
        /\ exec_once(Shrunk(At(Machine, After(cpu.pc))), Front(stack), marks, meant)
    BY <1>6 DEF Pop, Stepped
  <2> QED BY <1>2, <2>1, PopStep
<1>7. CASE Call
  <2>1. PICK pc \in Pcs : Push(After(cpu.pc), At(Machine, pc))
    BY <1>7 DEF Call
  <2>2. pc \in Places /\ After(cpu.pc) \in Words
    BY <1>2 DEF Places, Words
  <2> QED BY <2>1, <2>2, PushStep
<1>8. CASE ended = "no" /\ Ret
  BY <1>8, RetStep
<1>9. CASE Trap
  BY <1>9, TrapStep
<1>10. CASE ended = "no" /\ Iret
  BY <1>10, IretStep
<1>11. CASE Timer
  BY <1>11, TimerStep
<1>12. CASE UNCHANGED vars
  <2> DEFINE m == Machine
             st == stack
             mk == marks
             mt == meant
             dat == data
  <2>1. /\ layout \in Layouts /\ Good(m, st, mk, mt, dat)
        /\ layout' = layout /\ cpu' = m.cpu /\ mem' = m.mem /\ ended' = m.end
        /\ stack' = st /\ marks' = mk /\ meant' = mt /\ data' = dat
    BY <1>12 DEF X86Inv, Machine, vars
  <2> QED BY <2>1, InvNext
<1> QED BY <1>3, <1>4, <1>5, <1>6, <1>7, <1>8, <1>9, <1>10, <1>11, <1>12
        DEF Next, Instruction

\* The machine, its stack and the meaning of its flags fit together in every
\* reachable state, for every size of page and layout that X86Assumption admits.
THEOREM X86InvHolds == Spec => []X86Inv
<1>1. Init => X86Inv
  BY X86Assumption, InitInv
<1>2. X86Inv /\ [Next]_vars => X86Inv'
  BY AluAssumption, X86Assumption, NextInv
<1> QED BY <1>1, <1>2, PTL DEF Spec

\* mmu.c and rtl.h: for any frames and any stack, all words read back as they were
\* written and nothing else is touched until a word is to be written that crosses
\* pages elsewhere than in its middle or whose frames do not follow one another,
\* which an even layout excludes; and reads are right wherever they cross pages.
THEOREM X86MemoryExact == Spec => []MemoryExact
<1>1. X86Inv => MemoryExact
  BY X86Assumption, InvMemory
<1> QED BY <1>1, X86InvHolds, PTL

\* arith.c, cc.c and intr.c: what a program tests is what its operation meant,
\* for every width of the registers and every operand, across all interrupts.
THEOREM X86FlagsMean == Spec => []FlagsMean
<1>1. X86Inv => FlagsMean
  BY InvFlags
<1> QED BY <1>1, X86InvHolds, PTL
============================================================================
