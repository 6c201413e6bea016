----------------------------- MODULE NemuProofs -----------------------------
(***************************************************************************)
(* Theorems about the monitor of the emulator, for every size of the pool  *)
(* of watchpoints and of the keyboard's ring, every number of keys and     *)
(* every text.                                                             *)
(***************************************************************************)
EXTENDS Nemu, SeqLemmas

-----------------------------------------------------------------------------
(* Lists. *)

\* The lists of the pool are the sequences of numbers that repeat nothing.
LEMMA NumbersFinite == IsFiniteSet(Numbers) /\ Cardinality(Numbers) = NR_WP
<1>1. NR_WP \in Nat /\ NR_WP > 0
  BY WatchAssumption
<1>2. Cardinality(0..(NR_WP - 1)) = IF 0 > NR_WP - 1 THEN 0 ELSE (NR_WP - 1) - 0 + 1
  BY <1>1, FS_Interval
<1>3. IsFiniteSet(0..(NR_WP - 1))
  BY <1>1, FS_Interval
<1> QED BY <1>1, <1>2, <1>3 DEF Numbers

LEMMA ListsMember ==
    ASSUME NEW s
    PROVE  s \in Lists <=> s \in Seq(Numbers) /\ IsInjective(s)
<1>1. ASSUME s \in Lists PROVE s \in Seq(Numbers) /\ IsInjective(s)
  <2>1. PICK k \in 0..NR_WP : s \in [1..k -> Numbers]
    BY <1>1 DEF Lists
  <2>2. k \in Nat
    BY WatchAssumption
  <2> QED BY <1>1, <2>1, <2>2, SeqDef DEF Lists
<1>2. ASSUME s \in Seq(Numbers), IsInjective(s) PROVE s \in Lists
  <2>1. Len(s) \in Nat /\ s \in [1..Len(s) -> Numbers]
    BY <1>2
  <2>2. Range(s) \in SUBSET Numbers
    BY <2>1 DEF Range
  <2>3. Cardinality(Range(s)) <= Cardinality(Numbers)
    BY <2>2, NumbersFinite, FS_Subset
  <2>4. Len(s) <= NR_WP
    BY <1>2, <2>3, ListCard, NumbersFinite
  <2>5. Len(s) \in 0..NR_WP
    BY <2>1, <2>4, WatchAssumption
  <2> QED BY <1>2, <2>1, <2>5 DEF Lists
<1> QED BY <1>1, <1>2

\* The links determine the list.
LEMMA UniqueList ==
    ASSUME NEW h, NEW nx, NEW s \in ListsFrom(h, nx), NEW t \in ListsFrom(h, nx)
    PROVE  s = t
<1> DEFINE Same(i) == i <= Len(s) /\ i <= Len(t) /\ s[i] = t[i]
           Bad == {i \in Nat : i >= 1 /\ (i <= Len(s) \/ i <= Len(t)) /\ ~Same(i)}
<1>1. /\ s \in Seq(Numbers) /\ t \in Seq(Numbers)
      /\ IsList(s, h, nx) /\ IsList(t, h, nx)
  BY ListsMember DEF ListsFrom
<1>2. /\ Len(s) \in Nat /\ Len(t) \in Nat
      /\ \A i \in 1..Len(s) : s[i] # None
      /\ \A i \in 1..Len(t) : t[i] # None
  BY <1>1, WatchAssumption
<1>3. ASSUME Bad # {} PROVE FALSE
  <2>1. PICK m \in Bad : \A k \in Bad : m <= k
    BY <1>3, Least
  <2>2. CASE m = 1
    BY <1>1, <1>2, <2>1, <2>2 DEF IsList
  <2>3. CASE m # 1
    <3>1. m - 1 \in Nat /\ m - 1 >= 1 /\ m - 1 \notin Bad
      BY <2>1, <2>3
    <3>2. m - 1 <= Len(s) \/ m - 1 <= Len(t)
      BY <1>2, <2>1
    <3>3. Same(m - 1)
      BY <3>1, <3>2
    <3>4. m - 1 \in 1..Len(s) /\ m - 1 \in 1..Len(t) /\ (m - 1) + 1 = m
      BY <1>2, <2>1, <3>1, <3>3
    <3>5. (IF m - 1 = Len(s) THEN None ELSE s[m]) = (IF m - 1 = Len(t) THEN None ELSE t[m])
      BY <1>1, <3>3, <3>4 DEF IsList
    <3>6. m - 1 # Len(s) => m \in 1..Len(s)
      BY <1>2, <2>1, <3>3
    <3>7. m - 1 # Len(t) => m \in 1..Len(t)
      BY <1>2, <2>1, <3>3
    <3> QED BY <1>2, <2>1, <3>5, <3>6, <3>7
  <2> QED BY <2>2, <2>3
<1>4. Len(s) = Len(t)
  <2>1. Len(s) >= 1 => Len(s) <= Len(t)
    BY <1>2, <1>3
  <2>2. Len(t) >= 1 => Len(t) <= Len(s)
    BY <1>2, <1>3
  <2> QED BY <1>2, <2>1, <2>2
<1>5. \A i \in 1..Len(s) : s[i] = t[i]
  BY <1>2, <1>3
<1> QED BY <1>1, <1>4, <1>5

\* So what the definition of a list chooses is any list one can show.
LEMMA TheList ==
    ASSUME NEW h, NEW nx, NEW s \in ListsFrom(h, nx)
    PROVE  ListFrom(h, nx) = s
BY UniqueList DEF ListFrom

-----------------------------------------------------------------------------
(* The pool with its two lists in hand. *)

Pool(u, f) ==
    /\ u \in ListsFrom(head, next) /\ f \in ListsFrom(free_, next)
    /\ Range(u) \cap Range(f) = {}
    /\ Range(u) \cup Range(f) = Numbers
    /\ count_used = Len(u) /\ Len(u) <= Limit /\ f # <<>>

TypeInv ==
    /\ next \in [Numbers -> Numbers \cup {None}]
    /\ content \in [Numbers -> Seq(Chars)]
    /\ asked \in [Numbers -> Seq(Chars)]
    /\ latter_value \in [Numbers -> Values]
    /\ halted \in {"no", "assert", "overrun"}

LEMMA PoolInvSplit == PoolInv <=> TypeInv /\ \E u, f : Pool(u, f)
BY DEF PoolInv, TypeInv, Pool

LEMMA PoolInvNext == ASSUME TypeInv', NEW u, NEW f, Pool(u, f)' PROVE PoolInv'
BY DEF PoolInv, TypeInv, Pool

LEMMA ListHead ==
    ASSUME NEW s \in Seq(Numbers), NEW h, NEW nx, IsList(s, h, nx), Len(s) > 0
    PROVE  h = s[1]
<1>1. s # <<>>
  OBVIOUS
<1> QED BY <1>1 DEF IsList

LEMMA PoolFacts ==
    ASSUME NEW u, NEW f, Pool(u, f)
    PROVE  /\ u \in Seq(Numbers) /\ IsInjective(u) /\ IsList(u, head, next)
           /\ f \in Seq(Numbers) /\ IsInjective(f) /\ IsList(f, free_, next)
           /\ Used = u /\ Unused = f
           /\ Len(u) \in Nat /\ Len(f) \in Nat /\ Len(f) > 0
           /\ DOMAIN u = 1..Len(u) /\ DOMAIN f = 1..Len(f)
           /\ free_ = f[1] /\ f[1] \in Numbers /\ f[1] \in Range(f)
           /\ f[1] \notin Range(u)
<1>1. /\ u \in Seq(Numbers) /\ IsInjective(u) /\ IsList(u, head, next)
      /\ f \in Seq(Numbers) /\ IsInjective(f) /\ IsList(f, free_, next)
  BY ListsMember DEF Pool, ListsFrom
<1>2. Used = u /\ Unused = f
  BY TheList DEF Pool, Used, Unused
<1>3. /\ Len(u) \in Nat /\ Len(f) \in Nat /\ Len(f) > 0
      /\ DOMAIN u = 1..Len(u) /\ DOMAIN f = 1..Len(f)
  BY <1>1 DEF Pool
<1>4. free_ = f[1] /\ f[1] \in Numbers /\ f[1] \in Range(f)
  <2>1. 1 \in 1..Len(f) /\ f # <<>>
    BY <1>3
  <2>2. free_ = f[1]
    BY <1>1, <2>1 DEF IsList
  <2> QED BY <1>1, <1>3, <2>1, <2>2 DEF Range
<1> QED BY <1>1, <1>2, <1>3, <1>4 DEF Pool

-----------------------------------------------------------------------------
(* The command w. *)

\* A number that is handed out goes from the head of one list to the tail of
\* the other, and the limit leaves at least one behind.
LEMMA WithNew ==
    ASSUME NEW u, NEW f, Pool(u, f), HasRoom, next \in [Numbers -> Numbers \cup {None}],
           head' = IF count_used = 0 THEN free_ ELSE head,
           free_' = next[free_],
           next' = LinkNew(free_),
           count_used' = count_used + 1
    PROVE  /\ Pool(Append(u, f[1]), Tail(f))'
           /\ next' \in [Numbers -> Numbers \cup {None}]
<1> DEFINE w == f[1]
           u1 == Append(u, w)
           f1 == Tail(f)
<1>1. /\ u \in Seq(Numbers) /\ IsInjective(u) /\ IsList(u, head, next)
      /\ f \in Seq(Numbers) /\ IsInjective(f) /\ IsList(f, free_, next)
      /\ Used = u
      /\ Len(u) \in Nat /\ Len(f) \in Nat /\ Len(f) > 0
      /\ DOMAIN u = 1..Len(u) /\ DOMAIN f = 1..Len(f)
      /\ free_ = w /\ w \in Numbers /\ w \in Range(f) /\ w \notin Range(u)
      /\ Head(f) = w
  BY PoolFacts
<1>0. Len(u) \in Nat /\ Len(f) \in Nat /\ Len(f) > 0
  BY <1>1
<1>2. /\ count_used = Len(u) /\ Range(u) \cap Range(f) = {}
      /\ Range(u) \cup Range(f) = Numbers /\ f # <<>>
      /\ Len(u) < Limit /\ Limit \in Nat /\ NR_WP \in Nat /\ Limit < NR_WP
  BY WatchAssumption DEF Pool, HasRoom
<1> HIDE DEF w
<1>3. /\ u1 \in Seq(Numbers) /\ Range(u1) = Range(u) \cup {w} /\ IsInjective(u1)
      /\ Len(u1) = Len(u) + 1 /\ u1[Len(u) + 1] = w
      /\ \A i \in 1..Len(u) : u1[i] = u[i]
  BY <1>1, AppendElems
<1>4. /\ f1 \in Seq(Numbers) /\ Range(f1) = Range(f) \ {w} /\ IsInjective(f1)
      /\ Len(f1) = Len(f) - 1
      /\ \A i \in 1..(Len(f) - 1) : f1[i] = f[i + 1]
  BY <1>1, <1>2, TailElems
<1> HIDE DEF u1, f1
<1>5. Range(u1) \cap Range(f1) = {} /\ Range(u1) \cup Range(f1) = Numbers
  BY <1>1, <1>2, <1>3, <1>4
<1>6. f1 # <<>>
  <2> SUFFICES ASSUME f1 = <<>> PROVE FALSE
    OBVIOUS
  <2>1. Range(f1) = {}
    BY DEF Range
  <2>2. Range(u1) = Numbers
    BY <1>5, <2>1
  <2>3. Len(u1) = NR_WP
    BY <1>3, <2>2, ListCard, NumbersFinite
  <2> QED BY <1>1, <1>2, <1>3, <2>3
<1>7. \A nr \in Numbers : next'[nr] = IF nr = w THEN None
                                    ELSE IF count_used # 0 /\ nr = Last(u) THEN w
                                    ELSE next[nr]
  BY <1>1 DEF LinkNew
<1>8. IsList(u1, head', next')
  <2>1. head' = u1[1] /\ u1 # <<>>
    <3>1. CASE Len(u) = 0
      BY <1>1, <1>2, <1>3, <3>1
    <3>2. CASE Len(u) # 0
      <4>1. u # <<>> /\ 1 \in 1..Len(u)
        BY <1>1, <3>2
      <4>2. head' = u[1]
        BY <1>1, <1>2, <3>2, <4>1 DEF IsList
      <4> QED BY <1>1, <1>3, <4>1, <4>2
    <3> QED BY <3>1, <3>2
  <2>2. ASSUME NEW i \in 1..Len(u1)
        PROVE  next'[u1[i]] = IF i = Len(u1) THEN None ELSE u1[i + 1]
    <3>1. CASE i = Len(u) + 1
      BY <1>1, <1>3, <1>7, <3>1
    <3>2. CASE i # Len(u) + 1
      <4>1. i \in 1..Len(u) /\ u1[i] = u[i] /\ u[i] \in Numbers /\ u[i] \in Range(u)
        BY <1>1, <1>3, <3>2 DEF Range
      <4>2. u[i] # w /\ count_used # 0
        BY <1>1, <1>2, <4>1
      <4>3. CASE i = Len(u)
        <5>1. u[i] = Last(u)
          BY <4>3 DEF Last
        <5> QED BY <1>1, <1>3, <1>7, <4>1, <4>2, <4>3, <5>1
      <4>4. CASE i # Len(u)
        <5>1. Len(u) \in 1..Len(u) /\ i + 1 \in 1..Len(u)
          BY <1>0, <4>1, <4>4
        <5>2. u[i] # Last(u)
          BY <1>1, <4>1, <4>4, <5>1 DEF Last, IsInjective
        <5>3. next'[u1[i]] = next[u[i]]
          BY <1>7, <4>1, <4>2, <5>2
        <5>4. next[u[i]] = u[i + 1] /\ u1[i + 1] = u[i + 1]
          BY <1>1, <1>3, <4>1, <4>4, <5>1 DEF IsList
        <5> QED BY <1>3, <3>2, <5>3, <5>4
      <4> QED BY <4>3, <4>4
    <3> QED BY <3>1, <3>2
  <2> QED BY <2>1, <2>2 DEF IsList
<1>9. IsList(f1, free_', next')
  <2>1. free_' = IF f1 = <<>> THEN None ELSE f1[1]
    <3>0. Len(f1) # 0
      BY <1>4, <1>6
    <3>1. 1 \in 1..Len(f) /\ Len(f) # 1 /\ 1 \in 1..(Len(f) - 1)
      BY <1>0, <1>4, <3>0
    <3>2. next[w] = f[2]
      <4>1. \A i \in 1..Len(f) : next[f[i]] = IF i = Len(f) THEN None ELSE f[i + 1]
        BY <1>1 DEF IsList
      <4>2. next[f[1]] = f[1 + 1]
        BY <3>1, <4>1
      <4> QED BY <4>2 DEF w
    <3> QED BY <1>1, <1>4, <1>6, <3>1, <3>2
  <2>2. ASSUME NEW i \in 1..Len(f1)
        PROVE  next'[f1[i]] = IF i = Len(f1) THEN None ELSE f1[i + 1]
    <3>1. i \in 1..(Len(f) - 1) /\ i + 1 \in 1..Len(f) /\ f1[i] = f[i + 1]
      BY <1>1, <1>4
    <3>2. f1[i] \in Numbers /\ f1[i] \in Range(f1)
      BY <1>1, <1>4, <3>1 DEF Range
    <3>3. f1[i] # w /\ f1[i] \notin Range(u)
      BY <1>2, <1>4, <3>2
    <3>4. count_used # 0 => f1[i] # Last(u)
      <4>1. Len(u) # 0 => Last(u) \in Range(u)
        BY <1>1 DEF Last, Range
      <4> QED BY <1>2, <3>3, <4>1
    <3>5. next'[f1[i]] = next[f[i + 1]]
      BY <1>7, <3>1, <3>2, <3>3, <3>4
    <3>6. next[f[i + 1]] = IF i + 1 = Len(f) THEN None ELSE f[(i + 1) + 1]
      BY <1>1, <3>1 DEF IsList
    <3>7. i + 1 # Len(f) => i + 1 \in 1..(Len(f) - 1)
      BY <1>0, <3>1
    <3>8. i + 1 # Len(f) => f1[i + 1] = f[(i + 1) + 1]
      BY <1>4, <3>7
    <3>9. i = Len(f1) <=> i + 1 = Len(f)
      BY <1>1, <1>4, <3>1
    <3> QED BY <3>5, <3>6, <3>8, <3>9
  <2> QED BY <2>1, <2>2 DEF IsList
<1>10. next' \in [Numbers -> Numbers \cup {None}]
  BY <1>1 DEF LinkNew
<1>11. u1 \in ListsFrom(head', next') /\ f1 \in ListsFrom(free_', next')
  BY <1>3, <1>4, <1>8, <1>9, ListsMember DEF ListsFrom
<1>12. count_used' = Len(u1) /\ Len(u1) <= Limit
  BY <1>1, <1>2, <1>3
<1>13. Pool(u1, f1)'
  BY <1>5, <1>6, <1>11, <1>12 DEF Pool
<1> QED BY <1>10, <1>13 DEF u1, f1, w

-----------------------------------------------------------------------------
(* The command d. *)

LEMMA BeforeIs ==
    ASSUME NEW u, NEW f, Pool(u, f), NEW j \in 1..Len(u), j # 1
    PROVE  j - 1 \in 1..Len(u) /\ Before(u[j]) = u[j - 1]
<1>1. /\ u \in Seq(Numbers) /\ IsInjective(u) /\ IsList(u, head, next)
      /\ Used = u /\ DOMAIN u = 1..Len(u)
  BY PoolFacts
<1>2. Len(u) \in Nat
  BY PoolFacts
<1>3. j - 1 \in 1..Len(u) /\ j - 1 # Len(u) /\ (j - 1) + 1 = j
  BY <1>2
<1>4. \A i \in 1..Len(u) : next[u[i]] = IF i = Len(u) THEN None ELSE u[i + 1]
  BY <1>1 DEF IsList
<1>5. u[j - 1] \in Range(u) /\ next[u[j - 1]] = u[j]
  BY <1>1, <1>3, <1>4 DEF Range
<1>6. ASSUME NEW p \in Range(u), next[p] = u[j] PROVE p = u[j - 1]
  <2>1. PICK i \in 1..Len(u) : p = u[i]
    BY <1>1 DEF Range
  <2>2. u[j] # None
    BY <1>1, WatchAssumption
  <2>3. i # Len(u) /\ u[i + 1] = u[j]
    BY <1>4, <1>6, <2>1, <2>2
  <2>4. i + 1 \in 1..Len(u)
    BY <1>2, <2>3
  <2>5. i + 1 = j
    BY <1>1, <2>3, <2>4 DEF IsInjective
  <2>6. i = j - 1
    BY <2>5
  <2> QED BY <2>1, <2>6
<1>7. Before(u[j]) = u[j - 1]
  BY <1>1, <1>5, <1>6 DEF Before
<1> QED BY <1>3, <1>7

\* Unlinking the entry at j leaves the list without it, and the links of the
\* other list as they were.
LEMMA UnlinkedList ==
    ASSUME NEW u, NEW f, Pool(u, f), NEW j \in 1..Len(u),
           next \in [Numbers -> Numbers \cup {None}]
    PROVE  /\ IsList(RemoveAt(u, j), IF head = u[j] THEN next[u[j]] ELSE head,
                     Unlinked(u[j]))
           /\ Unlinked(u[j]) \in [Numbers -> Numbers \cup {None}]
           /\ \A nr \in Numbers \ Range(u) : Unlinked(u[j])[nr] = next[nr]
<1> DEFINE w == u[j]
           u1 == RemoveAt(u, j)
           L == Len(u)
           nx == Unlinked(w)
<1>1. /\ u \in Seq(Numbers) /\ IsInjective(u) /\ IsList(u, head, next)
      /\ Used = u /\ DOMAIN u = 1..L
  BY PoolFacts
<1>2. L \in Nat
  BY PoolFacts
<1>3. \A i \in 1..L : next[u[i]] = IF i = L THEN None ELSE u[i + 1]
  BY <1>1 DEF IsList
<1>4. /\ Len(u1) = L - 1
      /\ \A i \in 1..(L - 1) : u1[i] = IF i < j THEN u[i] ELSE u[i + 1]
  BY <1>1, RemoveIndex
<1>5. w \in Numbers /\ next[w] \in Numbers \cup {None}
  BY <1>1
<1>6. head = w <=> j = 1
  <2>1. 1 \in 1..L /\ L > 0
    BY <1>2
  <2>2. head = u[1]
    BY <1>1, <2>1, ListHead
  <2> QED BY <1>1, <2>1, <2>2 DEF IsInjective
<1>7. nx = IF j = 1 THEN next ELSE [next EXCEPT ![u[j - 1]] = next[w]]
  BY <1>6, BeforeIs DEF Unlinked
<1>8. nx \in [Numbers -> Numbers \cup {None}]
  BY <1>5, <1>7
<1>9. j # 1 => j - 1 \in 1..L /\ u[j - 1] \in Numbers /\ u[j - 1] \in Range(u)
  BY <1>1, <1>2 DEF Range
<1>10. \A nr \in Numbers \ Range(u) : nx[nr] = next[nr]
  BY <1>7, <1>9
<1>11. \A i \in 1..L : nx[u[i]] = IF j # 1 /\ i = j - 1 THEN next[w] ELSE next[u[i]]
  <2> TAKE i \in 1..L
  <2>1. u[i] \in Numbers
    BY <1>1
  <2>2. j # 1 => (u[i] = u[j - 1] <=> i = j - 1)
    BY <1>1, <1>9 DEF IsInjective
  <2> QED BY <1>7, <1>9, <2>1, <2>2
<1> HIDE DEF nx, u1, w
<1>12. (IF head = w THEN next[w] ELSE head) = IF u1 = <<>> THEN None ELSE u1[1]
  <2>0. u1 = <<>> <=> L = 1
    <3>1. u1 \in Seq(Numbers)
      BY <1>1, RemoveIndex DEF u1
    <3>2. u1 = <<>> <=> Len(u1) = 0
      BY <3>1
    <3> QED BY <1>2, <1>4, <3>2
  <2>1. CASE j = 1
    <3>1. next[w] = IF L = 1 THEN None ELSE u[1 + 1]
      BY <1>3, <2>1 DEF w
    <3>2. L # 1 => 1 \in 1..(L - 1)
      BY <1>2
    <3>3. L # 1 => u1[1] = u[1 + 1]
      BY <1>4, <2>1, <3>2
    <3> QED BY <1>6, <2>0, <2>1, <3>1, <3>3
  <2>2. CASE j # 1
    <3>1. 1 \in 1..(L - 1) /\ L > 0 /\ 1 < j /\ L # 1
      BY <1>2, <2>2
    <3>2. head = u[1]
      BY <1>1, <3>1, ListHead
    <3> QED BY <1>4, <1>6, <2>0, <2>2, <3>1, <3>2
  <2> QED BY <2>1, <2>2
<1>13. ASSUME NEW i \in 1..Len(u1)
       PROVE  nx[u1[i]] = IF i = Len(u1) THEN None ELSE u1[i + 1]
  <2>0. i \in 1..(L - 1) /\ i \in 1..L /\ i + 1 \in 1..L
    BY <1>2, <1>4
  <2>1. CASE i + 1 = j
    <3>1. u1[i] = u[i] /\ nx[u[i]] = next[w]
      BY <1>4, <1>11, <2>0, <2>1
    <3>2. next[w] = IF j = L THEN None ELSE u[j + 1]
      BY <1>3 DEF w
    <3>3. j # L => i + 1 \in 1..(L - 1) /\ u1[i + 1] = u[j + 1]
      BY <1>2, <1>4, <2>0, <2>1
    <3>4. i = Len(u1) <=> j = L
      BY <1>2, <1>4, <2>0, <2>1
    <3> QED BY <3>1, <3>2, <3>3, <3>4
  <2>2. CASE i + 1 < j
    <3>1. u1[i] = u[i] /\ nx[u[i]] = next[u[i]] /\ i # L
      BY <1>4, <1>11, <2>0, <2>2
    <3>2. i + 1 \in 1..(L - 1) /\ u1[i + 1] = u[i + 1] /\ i # Len(u1)
      BY <1>2, <1>4, <2>0, <2>2
    <3> QED BY <1>3, <2>0, <3>1, <3>2
  <2>3. CASE i + 1 > j
    <3>1. u1[i] = u[i + 1]
      BY <1>4, <2>0, <2>3
    <3>2. nx[u[i + 1]] = next[u[i + 1]]
      BY <1>11, <2>0, <2>3
    <3>3. next[u[i + 1]] = IF i + 1 = L THEN None ELSE u[(i + 1) + 1]
      BY <1>3, <2>0
    <3>4. i + 1 # L => i + 1 \in 1..(L - 1) /\ u1[i + 1] = u[(i + 1) + 1]
      BY <1>2, <1>4, <2>0, <2>3
    <3>5. i = Len(u1) <=> i + 1 = L
      BY <1>2, <1>4, <2>0
    <3> QED BY <3>1, <3>2, <3>3, <3>4, <3>5
  <2> QED BY <2>0, <2>1, <2>2, <2>3
<1>14. IsList(u1, IF head = w THEN next[w] ELSE head, nx)
  BY <1>12, <1>13 DEF IsList
<1> QED BY <1>8, <1>10, <1>14 DEF nx, u1, w

\* The walk of free_wp ends at an entry of the free list.
LEMMA PlaceIs ==
    ASSUME NEW u, NEW f, Pool(u, f), NEW w \in Numbers
    PROVE  \E k \in 1..Len(f) : Place(w) = f[k]
<1> DEFINE P(i) == /\ i = Len(f) \/ f[i + 1] >= w
                   /\ \A j \in 1..(i - 1) : f[j + 1] < w
           T == {i \in 1..Len(f) : i = Len(f) \/ f[i + 1] >= w}
<1>1. f \in Seq(Numbers) /\ Unused = f
  BY PoolFacts
<1>2. Len(f) \in Nat /\ Len(f) > 0
  BY PoolFacts
<1>3. T \in SUBSET Nat /\ Len(f) \in T
  BY <1>2
<1>4. PICK m \in T : \A k \in T : m <= k
  BY <1>3, Least
<1>5. ASSUME NEW j \in 1..(m - 1) PROVE f[j + 1] < w
  <2>1. j \in 1..Len(f) /\ j \notin T /\ j + 1 \in 1..Len(f)
    BY <1>2, <1>4
  <2>2. f[j + 1] \in Numbers /\ ~(f[j + 1] >= w)
    BY <1>1, <2>1
  <2> QED BY <2>2, WatchAssumption DEF Numbers
<1>6. \E i \in 1..Len(f) : P(i)
  BY <1>4, <1>5
<1>7. Place(w) = f[CHOOSE i \in 1..Len(f) : P(i)]
  BY <1>1 DEF Place
<1> HIDE DEF P
<1> QED BY <1>6, <1>7

\* Linking w behind the k-th entry of a list inserts it there.
LEMMA LinkedList ==
    ASSUME NEW f \in Seq(Numbers), IsInjective(f), f # <<>>, NEW h, NEW nx,
           IsList(f, h, nx), NEW k \in 1..Len(f),
           NEW w \in Numbers, w \notin Range(f),
           NEW ny, \A nr \in Range(f) : ny[nr] = IF nr = f[k] THEN w ELSE nx[nr],
           ny[w] = nx[f[k]]
    PROVE  IsList(InsertAt(f, k + 1, w), h, ny)
<1>0. ASSUME NEW m \in 1..(Len(f) + 1)
      PROVE  /\ InsertAt(f, m, w) \in Seq(Numbers)
             /\ Len(InsertAt(f, m, w)) = Len(f) + 1
             /\ \A i \in 1..(Len(f) + 1) :
                  InsertAt(f, m, w)[i] = IF i < m THEN f[i]
                                         ELSE IF i = m THEN w ELSE f[i - 1]
  BY InsertIndex
<1> DEFINE f1 == InsertAt(f, k + 1, w)
           L == Len(f)
<1>1. L \in Nat /\ k + 1 \in 1..(L + 1) /\ L > 0 /\ 1 \in 1..L /\ 1 \in 1..(L + 1)
  OBVIOUS
<1>2. /\ Len(f1) = L + 1 /\ f1 \in Seq(Numbers)
      /\ \A i \in 1..(L + 1) : f1[i] = IF i < k + 1 THEN f[i]
                                       ELSE IF i = k + 1 THEN w ELSE f[i - 1]
  BY <1>0, <1>1
<1>3. DOMAIN f = 1..L
  OBVIOUS
<1>4. \A i \in 1..L : nx[f[i]] = IF i = L THEN None ELSE f[i + 1]
  BY DEF IsList
<1>5. \A i \in 1..L : f[i] \in Range(f)
  BY <1>3 DEF Range
<1>6. \A i \in 1..L : f[i] = f[k] => i = k
  BY <1>3 DEF IsInjective
<1> HIDE DEF f1
<1>7. h = IF f1 = <<>> THEN None ELSE f1[1]
  <2>1. f1 # <<>>
    BY <1>1, <1>2
  <2>2. 1 < k + 1
    BY <1>1
  <2>3. h = f[1]
    BY DEF IsList
  <2> QED BY <1>1, <1>2, <2>1, <2>2, <2>3
<1>8. ASSUME NEW i \in 1..Len(f1)
      PROVE  ny[f1[i]] = IF i = Len(f1) THEN None ELSE f1[i + 1]
  <2> HIDE DEF L
  <2>0. i \in 1..(L + 1) /\ (i = Len(f1) <=> i = L + 1)
    BY <1>2
  <2>1. CASE i < k
    <3>1. i \in 1..L /\ i # k /\ i + 1 \in 1..(L + 1) /\ i + 1 < k + 1 /\ i < k + 1
          /\ i # L /\ i # L + 1
      BY <1>1, <2>0, <2>1 DEF L
    <3>2. f1[i] = f[i] /\ f1[i + 1] = f[i + 1] /\ ny[f[i]] = nx[f[i]]
      BY <1>2, <1>5, <1>6, <2>0, <3>1 DEF L
    <3> QED BY <1>4, <2>0, <3>1, <3>2
  <2>2. CASE i = k
    <3>1. i \in 1..L /\ i + 1 \in 1..(L + 1) /\ i < k + 1 /\ i # L + 1
      BY <1>1, <2>2 DEF L
    <3>2. f1[i] = f[i] /\ f1[i + 1] = w /\ ny[f[i]] = w
      BY <1>2, <1>5, <2>0, <2>2, <3>1
    <3> QED BY <2>0, <3>1, <3>2
  <2>3. CASE i = k + 1
    <3>1. f1[i] = w /\ ny[w] = IF k = L THEN None ELSE f[k + 1]
      BY <1>2, <1>4, <2>0, <2>3 DEF L
    <3>2. k # L => i + 1 \in 1..(L + 1) /\ ~(i + 1 < k + 1) /\ i + 1 # k + 1 /\ (i + 1) - 1 = k + 1
      BY <1>1, <2>3 DEF L
    <3>3. k # L => f1[i + 1] = f[k + 1]
      BY <1>2, <3>2
    <3>4. i = L + 1 <=> k = L
      BY <1>1, <2>3
    <3> QED BY <2>0, <3>1, <3>3, <3>4
  <2>4. CASE i > k + 1
    <3>1. i - 1 \in 1..L /\ i - 1 # k /\ ~(i < k + 1) /\ i # k + 1 /\ (i - 1) + 1 = i
      BY <1>1, <2>0, <2>4
    <3>2. f1[i] = f[i - 1] /\ ny[f[i - 1]] = nx[f[i - 1]]
      BY <1>2, <1>5, <1>6, <2>0, <3>1
    <3>3. nx[f[i - 1]] = IF i - 1 = L THEN None ELSE f[i]
      BY <1>4, <3>1
    <3>4. i - 1 # L => i + 1 \in 1..(L + 1) /\ ~(i + 1 < k + 1) /\ i + 1 # k + 1
                       /\ (i + 1) - 1 = i
      BY <1>1, <2>0, <2>4
    <3>5. i - 1 # L => f1[i + 1] = f[i]
      BY <1>2, <3>4
    <3>6. i = L + 1 <=> i - 1 = L
      BY <1>1, <2>0
    <3> QED BY <2>0, <3>2, <3>3, <3>5, <3>6
  <2>5. k \in Int /\ i \in Int
    BY <1>1, <2>0
  <2> QED BY <2>1, <2>2, <2>3, <2>4, <2>5
<1>9. IsList(f1, h, ny)
  BY <1>7, <1>8 DEF IsList
<1> QED BY <1>9 DEF f1

\* Linking w before the whole list inserts it there.
LEMMA LinkedFirst ==
    ASSUME NEW f \in Seq(Numbers), f # <<>>, NEW h, NEW nx, IsList(f, h, nx),
           NEW w \in Numbers, w \notin Range(f),
           NEW ny, \A nr \in Range(f) : ny[nr] = nx[nr], ny[w] = h
    PROVE  IsList(InsertAt(f, 1, w), w, ny)
<1>0. ASSUME NEW m \in 1..(Len(f) + 1)
      PROVE  /\ InsertAt(f, m, w) \in Seq(Numbers)
             /\ Len(InsertAt(f, m, w)) = Len(f) + 1
             /\ \A i \in 1..(Len(f) + 1) :
                  InsertAt(f, m, w)[i] = IF i < m THEN f[i]
                                         ELSE IF i = m THEN w ELSE f[i - 1]
  BY InsertIndex
<1> DEFINE f1 == InsertAt(f, 1, w)
           L == Len(f)
<1>1. L \in Nat /\ 1 \in 1..(L + 1) /\ L > 0
  OBVIOUS
<1>2. /\ Len(f1) = L + 1 /\ f1 \in Seq(Numbers) /\ f1[1] = w
      /\ \A i \in 1..(L + 1) : i # 1 => f1[i] = f[i - 1]
  BY <1>0, <1>1
<1>3. \A i \in 1..L : /\ nx[f[i]] = IF i = L THEN None ELSE f[i + 1]
                      /\ f[i] \in Range(f)
  BY DEF IsList, Range
<1>4. h = f[1]
  BY <1>1, ListHead
<1> HIDE DEF f1, L
<1>5. ASSUME NEW i \in 1..Len(f1)
      PROVE  ny[f1[i]] = IF i = Len(f1) THEN None ELSE f1[i + 1]
  <2>0. i \in 1..(L + 1) /\ (i = Len(f1) <=> i = L + 1)
    BY <1>2
  <2>1. CASE i = 1
    <3>1. i + 1 \in 1..(L + 1) /\ i + 1 # 1 /\ (i + 1) - 1 = 1 /\ i # L + 1
      BY <1>1, <2>1
    <3>2. f1[i + 1] = f[1]
      BY <1>2, <3>1
    <3> QED BY <1>2, <1>4, <2>0, <2>1, <3>1, <3>2
  <2>2. CASE i # 1
    <3>1. i - 1 \in 1..L /\ (i - 1) + 1 = i
      BY <1>1, <2>0, <2>2
    <3>2. ny[f1[i]] = nx[f[i - 1]]
      BY <1>2, <1>3, <2>0, <2>2, <3>1
    <3>3. nx[f[i - 1]] = IF i - 1 = L THEN None ELSE f[i]
      BY <1>3, <3>1
    <3>4. i - 1 # L => i + 1 \in 1..(L + 1) /\ i + 1 # 1 /\ (i + 1) - 1 = i
      BY <1>1, <2>0
    <3>5. i - 1 # L => f1[i + 1] = f[i]
      BY <1>2, <3>4
    <3>6. i = L + 1 <=> i - 1 = L
      BY <1>1, <2>0
    <3> QED BY <2>0, <3>2, <3>3, <3>5, <3>6
  <2> QED BY <2>1, <2>2
<1>6. f1 # <<>>
  BY <1>1, <1>2
<1>7. IsList(f1, w, ny)
  BY <1>2, <1>5, <1>6 DEF IsList
<1> QED BY <1>7 DEF f1

\* A list stays one when its own links do.
LEMMA SameList ==
    ASSUME NEW s \in Seq(Numbers), NEW h, NEW nx, IsList(s, h, nx),
           NEW ny, \A nr \in Range(s) : ny[nr] = nx[nr]
    PROVE  IsList(s, h, ny)
<1>1. \A i \in 1..Len(s) : s[i] \in Range(s)
  BY DEF Range
<1> QED BY <1>1 DEF IsList

\* The number given back leaves one list and enters the other, and neither
\* loses an entry.
LEMMA WithFreed ==
    ASSUME NEW u, NEW f, Pool(u, f), NEW w \in Range(u),
           next \in [Numbers -> Numbers \cup {None}],
           head' = IF head = w THEN next[w] ELSE head,
           free_' = IF GoesFirst(w) THEN w ELSE free_,
           next' = LinkFree(w),
           count_used' = count_used - 1
    PROVE  /\ \E u1, f1 : Pool(u1, f1)' /\ Range(u1) = Range(u) \ {w}
           /\ next' \in [Numbers -> Numbers \cup {None}]
<1>1. /\ u \in Seq(Numbers) /\ IsInjective(u)
      /\ f \in Seq(Numbers) /\ IsInjective(f) /\ IsList(f, free_, next)
      /\ Len(u) \in Nat /\ Len(f) \in Nat /\ Len(f) > 0
      /\ DOMAIN u = 1..Len(u) /\ DOMAIN f = 1..Len(f)
      /\ free_ \in Numbers
  BY PoolFacts
<1>2. /\ count_used = Len(u) /\ Range(u) \cap Range(f) = {} /\ Len(u) <= Limit
      /\ Range(u) \cup Range(f) = Numbers /\ f # <<>> /\ Limit \in Nat
  BY WatchAssumption DEF Pool
<1>3. PICK j \in 1..Len(u) : u[j] = w
  BY <1>1 DEF Range
<1>4. w \in Numbers /\ w \notin Range(f)
  BY <1>2
<1> DEFINE u1 == RemoveAt(u, j)
           nx == Unlinked(w)
<1>5. /\ IsList(u1, head', nx)
      /\ nx \in [Numbers -> Numbers \cup {None}]
      /\ \A nr \in Numbers \ Range(u) : nx[nr] = next[nr]
  BY <1>3, UnlinkedList
<1>6. /\ u1 \in Seq(Numbers) /\ IsInjective(u1) /\ Range(u1) = Range(u) \ {w}
  BY <1>1, <1>3, RemoveElems
<1>7. Len(u1) = Len(u) - 1
  BY <1>1, RemoveIndex
<1> HIDE DEF u1, nx
<1>8. \A nr \in Range(f) : nr \in Numbers /\ nx[nr] = next[nr]
  BY <1>2, <1>5
<1>9. SUFFICES ASSUME NEW k \in 1..(Len(f) + 1),
                      IsList(InsertAt(f, k, w), free_', next'),
                      \A nr \in Range(u1) : next'[nr] = nx[nr],
                      next' \in [Numbers -> Numbers \cup {None}]
               PROVE  \E f1 : Pool(u1, f1)'
  <2>1. CASE GoesFirst(w)
    <3>1. next' = [nx EXCEPT ![w] = free_] /\ free_' = w
      BY <2>1 DEF LinkFree, nx
    <3>2. \A nr \in Range(f) : next'[nr] = next[nr]
      BY <1>4, <1>5, <1>8, <3>1
    <3>3. next'[w] = free_
      BY <1>4, <1>5, <3>1
    <3>4. IsList(InsertAt(f, 1, w), w, next')
      BY <1>1, <1>2, <1>4, <3>2, <3>3, LinkedFirst
    <3>5. next' \in [Numbers -> Numbers \cup {None}]
      BY <1>1, <1>5, <3>1
    <3>6. \A nr \in Range(u1) : next'[nr] = nx[nr]
      BY <1>5, <1>6, <3>1
    <3>7. 1 \in 1..(Len(f) + 1)
      BY <1>1
    <3> QED BY <1>6, <1>9, <3>1, <3>4, <3>5, <3>6, <3>7
  <2>2. CASE ~GoesFirst(w)
    <3>1. PICK k \in 1..Len(f) : Place(w) = f[k]
      BY <1>4, PlaceIs
    <3>2. f[k] \in Range(f) /\ f[k] \in Numbers /\ f[k] # w
      BY <1>1, <1>4 DEF Range
    <3>3. next' = [nx EXCEPT ![w] = next[f[k]], ![f[k]] = w] /\ free_' = free_
      BY <2>2, <3>1 DEF LinkFree, nx
    <3>4. /\ \A nr \in Range(f) : next'[nr] = IF nr = f[k] THEN w ELSE next[nr]
          /\ next'[w] = next[f[k]]
      BY <1>4, <1>5, <1>8, <3>2, <3>3
    <3>5. IsList(InsertAt(f, k + 1, w), free_, next')
      BY <1>1, <1>2, <1>4, <3>4, LinkedList
    <3>6. next' \in [Numbers -> Numbers \cup {None}]
      BY <1>4, <1>5, <3>2, <3>3
    <3>7. \A nr \in Range(u1) : next'[nr] = nx[nr]
      <4>1. \A nr \in Range(u1) : nr # w /\ nr # f[k] /\ nr \in Numbers
        BY <1>2, <1>6, <3>2
      <4> QED BY <1>5, <3>3, <4>1
    <3>8. k + 1 \in 1..(Len(f) + 1)
      BY <1>1
    <3> QED BY <1>6, <1>9, <3>3, <3>5, <3>6, <3>7, <3>8
  <2> QED BY <2>1, <2>2
<1> DEFINE f1 == InsertAt(f, k, w)
<1>10. f1 \in Seq(Numbers)
  BY <1>1, <1>4, InsertIndex
<1>11. Range(f1) = Range(f) \cup {w} /\ IsInjective(f1)
  BY <1>1, <1>4, InsertElems
<1>12. IsList(u1, head', next')
  BY <1>5, <1>6, <1>9, SameList
<1>13. u1 \in ListsFrom(head', next') /\ f1 \in ListsFrom(free_', next')
  BY <1>6, <1>9, <1>10, <1>11, <1>12, ListsMember DEF ListsFrom
<1>14. Range(u1) \cap Range(f1) = {} /\ Range(u1) \cup Range(f1) = Numbers
  BY <1>2, <1>4, <1>6, <1>11
<1>15. f1 # <<>>
  <2>1. Len(f1) = Len(f) + 1
    BY <1>1, <1>4, InsertIndex
  <2> QED BY <1>1, <1>10, <2>1
<1>16. count_used' = Len(u1) /\ Len(u1) <= Limit
  BY <1>1, <1>2, <1>7
<1> HIDE DEF f1
<1>17. Pool(u1, f1)'
  BY <1>13, <1>14, <1>15, <1>16 DEF Pool
<1> QED BY <1>17

-----------------------------------------------------------------------------
(* Steps. *)

LEMMA WInit == ASSUME WatchInit PROVE PoolInv /\ WS!AbsInit
<1> DEFINE f == [i \in 1..NR_WP |-> i - 1]
<1>1. NR_WP \in Nat /\ NR_WP > 0
  BY WatchAssumption
<1>2. f \in [1..NR_WP -> Numbers] /\ f \in Seq(Numbers) /\ Len(f) = NR_WP
  <2>1. f \in [1..NR_WP -> Numbers]
    BY <1>1 DEF Numbers
  <2> QED BY <1>1, <2>1, SeqDef
<1>3. \A i \in 1..NR_WP : f[i] = i - 1
  OBVIOUS
<1> HIDE DEF f
<1>4. Range(f) = Numbers /\ IsInjective(f)
  <2>1. DOMAIN f = 1..NR_WP
    BY <1>2
  <2>2. \A nr \in Numbers : nr + 1 \in 1..NR_WP /\ f[nr + 1] = nr
    BY <1>1, <1>3 DEF Numbers
  <2>3. \A i \in 1..NR_WP : f[i] \in Numbers
    BY <1>2
  <2> QED BY <1>1, <1>3, <2>1, <2>2, <2>3 DEF Range, IsInjective
<1>5. f # <<>>
  BY <1>1, <1>2
<1>6. IsList(f, free_, next)
  <2>1. free_ = f[1]
    BY <1>1, <1>3 DEF WatchInit
  <2>2. ASSUME NEW i \in 1..Len(f)
        PROVE  next[f[i]] = IF i = Len(f) THEN None ELSE f[i + 1]
    <3>1. f[i] = i - 1 /\ i - 1 \in Numbers /\ (i - 1) + 1 = i
      BY <1>1, <1>2, <1>3 DEF Numbers
    <3>2. next[i - 1] = IF i - 1 = NR_WP - 1 THEN None ELSE (i - 1) + 1
      BY <3>1 DEF WatchInit
    <3>3. i # NR_WP => i + 1 \in 1..NR_WP /\ (i + 1) - 1 = i
      BY <1>1, <1>2
    <3>4. i = Len(f) <=> i - 1 = NR_WP - 1
      BY <1>1, <1>2
    <3> QED BY <1>2, <1>3, <3>1, <3>2, <3>3, <3>4
  <2> QED BY <1>5, <2>1, <2>2 DEF IsList
<1>7. /\ <<>> \in Seq(Numbers) /\ IsInjective(<<>>) /\ Range(<<>>) = {}
      /\ Len(<<>>) = 0
  BY DEF IsInjective, Range
<1>8. IsList(<<>>, head, next)
  BY DEF IsList, WatchInit
<1>9. Pool(<<>>, f)
  <2>1. <<>> \in ListsFrom(head, next) /\ f \in ListsFrom(free_, next)
    BY <1>2, <1>4, <1>6, <1>7, <1>8, ListsMember DEF ListsFrom
  <2>2. count_used = 0 /\ 0 <= Limit
    BY WatchAssumption DEF WatchInit
  <2> QED BY <1>4, <1>5, <1>7, <2>1, <2>2 DEF Pool
<1>10. TypeInv
  <2>1. next \in [Numbers -> Numbers \cup {None}]
    BY <1>1 DEF WatchInit, Numbers
  <2>2. content \in [Numbers -> Seq(Chars)] /\ asked \in [Numbers -> Seq(Chars)]
    BY DEF WatchInit
  <2>3. latter_value \in [Numbers -> Values]
    BY WatchAssumption DEF WatchInit
  <2> QED BY <2>1, <2>2, <2>3 DEF TypeInv, WatchInit
<1>11. Used = <<>>
  BY <1>9, PoolFacts
<1> QED BY <1>7, <1>9, <1>10, <1>11, PoolInvSplit DEF WS!AbsInit

\* The text copied into an entry.
LEMMA CopiedType ==
    ASSUME NEW nr \in Numbers, NEW text \in Texts, content \in [Numbers -> Seq(Chars)]
    PROVE  Copied(nr, text) \in Seq(Chars)
<1>1. text \in Seq(Chars) /\ content[nr] \in Seq(Chars)
  BY WatchAssumption
<1>2. SubSeq(content[nr], Len(text) + 1, Len(content[nr])) \in Seq(Chars)
  BY <1>1
<1> QED BY <1>1, <1>2 DEF Copied

LEMMA StepW ==
    ASSUME PoolInv, halted = "no", NEW text \in Texts, NEW v \in Values, CmdW(text, v)
    PROVE  PoolInv' /\ [WS!AbsNext]_(Range(Used))
<1>1. TypeInv
  BY PoolInvSplit
<1>2. PICK u, f : Pool(u, f)
  BY PoolInvSplit
<1>3. CASE HasRoom /\ ~Overruns(text)
  <2>1. /\ head' = IF count_used = 0 THEN free_ ELSE head
        /\ free_' = next[free_] /\ next' = LinkNew(free_)
        /\ count_used' = count_used + 1
        /\ content' = [content EXCEPT ![free_] = Copied(free_, text)]
        /\ asked' = [asked EXCEPT ![free_] = text]
        /\ latter_value' = [latter_value EXCEPT ![free_] = v]
        /\ halted' = halted
    BY <1>3 DEF CmdW
  <2>2. /\ Pool(Append(u, f[1]), Tail(f))'
        /\ next' \in [Numbers -> Numbers \cup {None}]
    BY <1>1, <1>2, <1>3, <2>1, WithNew DEF TypeInv
  <2>3. /\ u \in Seq(Numbers) /\ IsInjective(u) /\ Used = u
        /\ free_ \in Numbers /\ f[1] \in Numbers \ Range(u)
    BY <1>2, PoolFacts
  <2>4. Copied(free_, text) \in Seq(Chars) /\ text \in Seq(Chars)
    BY <1>1, <2>3, CopiedType, WatchAssumption DEF TypeInv
  <2>5. TypeInv'
    BY <1>1, <2>1, <2>2, <2>3, <2>4 DEF TypeInv
  <2>6. PoolInv'
    BY <2>2, <2>5, PoolInvNext
  <2>7. Used' = Append(u, f[1])
    BY <2>2, TheList DEF Pool, Used
  <2>8. Range(Used)' = Range(Used) \cup {f[1]}
    BY <2>3, <2>7, AppendElems
  <2>9. Cardinality(Range(Used)) < Limit
    BY <1>2, <1>3, <2>3, ListCard DEF Pool, HasRoom
  <2>10. WS!AbsNext
    <3>1. f[1] \in Numbers \ Range(Used) /\ Range(Used)' # Range(Used)
      BY <2>3, <2>8
    <3>2. WS!Cardinality(Range(Used)) = Cardinality(Range(Used))
      BY DEF Cardinality, WS!Cardinality, IsFiniteSet, WS!IsFiniteSet
    <3>3. WS!Add(Range(Used), Range(Used)')
      BY <2>8, <2>9, <3>1, <3>2 DEF WS!Add
    <3> QED BY <3>1, <3>3 DEF WS!AbsNext
  <2> QED BY <2>6, <2>10
<1>4. CASE ~(HasRoom /\ ~Overruns(text))
  <2>1. /\ halted' \in {"assert", "overrun"}
        /\ UNCHANGED <<links, content, asked, latter_value>>
    BY <1>4 DEF CmdW
  <2>2. TypeInv' /\ Pool(u, f)'
    BY <1>1, <1>2, <2>1 DEF TypeInv, Pool, links
  <2>3. Used' = Used
    BY <2>1 DEF Used, links
  <2> QED BY <2>2, <2>3, PoolInvNext
<1> QED BY <1>3, <1>4

LEMMA StepD ==
    ASSUME PoolInv, halted = "no", NEW num \in Numbers, CmdD(num)
    PROVE  PoolInv' /\ [WS!AbsNext]_(Range(Used))
<1>1. TypeInv
  BY PoolInvSplit
<1>2. PICK u, f : Pool(u, f)
  BY PoolInvSplit
<1>3. Used = u /\ free_ # None
  BY <1>2, PoolFacts, WatchAssumption
<1>4. CASE num \in Range(u)
  <2>1. /\ head' = IF head = num THEN next[num] ELSE head
        /\ free_' = IF GoesFirst(num) THEN num ELSE free_
        /\ next' = LinkFree(num) /\ count_used' = count_used - 1
        /\ UNCHANGED <<content, asked, latter_value, halted>>
    BY <1>3, <1>4 DEF CmdD, FreeWp
  <2>2. /\ \E u1, f1 : Pool(u1, f1)' /\ Range(u1) = Range(u) \ {num}
        /\ next' \in [Numbers -> Numbers \cup {None}]
    BY <1>1, <1>2, <1>4, <2>1, WithFreed DEF TypeInv
  <2>3. PICK u1, f1 : Pool(u1, f1)' /\ Range(u1) = Range(u) \ {num}
    BY <2>2
  <2>4. TypeInv'
    BY <1>1, <2>1, <2>2 DEF TypeInv
  <2>5. PoolInv'
    BY <2>3, <2>4, PoolInvNext
  <2>6. Used' = u1
    BY <2>3, TheList DEF Pool, Used
  <2>7. Range(Used)' = Range(Used) \ {num}
    BY <1>3, <2>3, <2>6
  <2>8. WS!AbsNext
    BY <1>3, <1>4, <2>7 DEF WS!AbsNext, WS!Delete
  <2> QED BY <2>5, <2>8
<1>5. CASE num \notin Range(u)
  <2>1. UNCHANGED <<links, content, asked, latter_value, halted>>
    BY <1>3, <1>5 DEF CmdD
  <2>2. TypeInv' /\ Pool(u, f)'
    BY <1>1, <1>2, <2>1 DEF TypeInv, Pool, links
  <2>3. Used' = Used
    BY <2>1 DEF Used, links
  <2> QED BY <2>2, <2>3, PoolInvNext
<1> QED BY <1>4, <1>5

LEMMA StepUpdate ==
    ASSUME PoolInv, NEW val \in [Numbers -> Values], UpdateAll(val)
    PROVE  PoolInv' /\ [WS!AbsNext]_(Range(Used))
<1>1. TypeInv
  BY PoolInvSplit
<1>2. PICK u, f : Pool(u, f)
  BY PoolInvSplit
<1>3. TypeInv' /\ Pool(u, f)'
  BY <1>1, <1>2 DEF UpdateAll, TypeInv, Pool, links
<1>4. Used' = Used
  BY DEF UpdateAll, Used, links
<1> QED BY <1>3, <1>4, PoolInvNext

LEMMA WStep ==
    ASSUME PoolInv, [WatchNext]_watchVars
    PROVE  PoolInv' /\ [WS!AbsNext]_(Range(Used))
<1>1. CASE WatchNext
  BY <1>1, StepW, StepD, StepUpdate DEF WatchNext
<1>2. CASE UNCHANGED watchVars
  <2>1. TypeInv /\ \E u, f : Pool(u, f)
    BY PoolInvSplit
  <2>2. TypeInv' /\ \E u, f : Pool(u, f)'
    BY <1>2, <2>1 DEF TypeInv, Pool, watchVars, links
  <2>3. Used' = Used
    BY <1>2 DEF Used, watchVars, links
  <2> QED BY <2>2, <2>3, PoolInvNext
<1> QED BY <1>1, <1>2

-----------------------------------------------------------------------------

\* Whatever the order of w and d, every entry of the pool is in exactly one of
\* the two lists, count_used counts the first, and free_wp never meets an
\* empty free list.
THEOREM PoolAlways == WatchSpec => []PoolInv
<1>1. WatchInit => PoolInv
  BY WInit
<1>2. PoolInv /\ [WatchNext]_watchVars => PoolInv'
  BY WStep
<1> QED BY <1>1, <1>2, PTL DEF WatchSpec

\* The two lists implement the set of numbers in use: w takes a number nobody
\* uses, d gives back the one it names, and nothing else changes the set.
THEOREM PoolRefinement == WatchSpec => ImplementsWatchSet
<1>1. WatchInit => PoolInv /\ WS!AbsInit
  BY WInit
<1>2. PoolInv /\ [WatchNext]_watchVars => PoolInv' /\ [WS!AbsNext]_(Range(Used))
  BY WStep
<1> QED BY <1>1, <1>2, PTL DEF WatchSpec, ImplementsWatchSet, WS!AbsSpec

-----------------------------------------------------------------------------
(* Sequences. *)

LEMMA AppendBehind ==
    ASSUME NEW q \in Seq(Int), NEW s \in Seq(Int), NEW x \in Int
    PROVE  q \o Append(s, x) = Append(q \o s, x)
<1> DEFINE a == Append(q \o s, x)
           s1 == Append(s, x)
           b == q \o s1
<1>1. /\ q \o s \in Seq(Int) /\ Len(q \o s) = Len(q) + Len(s)
      /\ \A i \in 1..(Len(q) + Len(s)) :
            (q \o s)[i] = IF i <= Len(q) THEN q[i] ELSE s[i - Len(q)]
  BY ConcatProperties
<1>2. /\ s1 \in Seq(Int) /\ Len(s1) = Len(s) + 1
      /\ \A i \in 1..(Len(s) + 1) : s1[i] = IF i <= Len(s) THEN s[i] ELSE x
  OBVIOUS
<1> HIDE DEF s1
<1>3. /\ a \in Seq(Int) /\ Len(a) = Len(q) + Len(s) + 1
      /\ \A i \in 1..(Len(q) + Len(s) + 1) :
            a[i] = IF i <= Len(q) + Len(s) THEN (q \o s)[i] ELSE x
  BY <1>1
<1>5. Len(q) \in Nat /\ Len(s) \in Nat
  OBVIOUS
<1>4. /\ b \in Seq(Int) /\ Len(b) = Len(q) + Len(s) + 1
      /\ \A i \in 1..(Len(q) + Len(s) + 1) :
            b[i] = IF i <= Len(q) THEN q[i] ELSE s1[i - Len(q)]
  <2>1. /\ b \in Seq(Int) /\ Len(b) = Len(q) + Len(s1)
        /\ \A i \in 1..(Len(q) + Len(s1)) :
              b[i] = IF i <= Len(q) THEN q[i] ELSE s1[i - Len(q)]
    BY <1>2, ConcatProperties
  <2>2. Len(q) + Len(s1) = Len(q) + Len(s) + 1
    BY <1>2, <1>5
  <2> QED BY <2>1, <2>2
<1> HIDE DEF a, b
<1>6. ASSUME NEW i \in 1..(Len(q) + Len(s) + 1) PROVE a[i] = b[i]
  <2>1. CASE i <= Len(q)
    <3>1. i \in 1..(Len(q) + Len(s)) /\ i <= Len(q) + Len(s)
      BY <1>5, <2>1
    <3>2. a[i] = q[i]
      BY <1>1, <1>3, <2>1, <3>1
    <3>3. b[i] = q[i]
      BY <1>4, <2>1
    <3> QED BY <3>2, <3>3
  <2>2. CASE i > Len(q) /\ i <= Len(q) + Len(s)
    <3>1. i - Len(q) \in 1..(Len(s) + 1) /\ i - Len(q) <= Len(s)
      BY <1>5, <2>2
    <3>2. b[i] = s[i - Len(q)]
      <4>1. ~(i <= Len(q))
        BY <1>5, <2>2
      <4>2. b[i] = s1[i - Len(q)]
        BY <1>4, <4>1
      <4> QED BY <1>2, <3>1, <4>2
    <3>3. a[i] = s[i - Len(q)]
      BY <1>1, <1>3, <1>5, <2>2
    <3> QED BY <3>2, <3>3
  <2>3. CASE i = Len(q) + Len(s) + 1
    <3>1. i - Len(q) = Len(s) + 1
      BY <1>5, <2>3
    <3>2. b[i] = x
      <4>1. ~(i <= Len(q))
        BY <1>5, <2>3
      <4>2. b[i] = s1[i - Len(q)]
        BY <1>4, <4>1
      <4>3. s1[Len(s) + 1] = x
        <5>1. Len(s) + 1 \in 1..(Len(s) + 1) /\ ~(Len(s) + 1 <= Len(s))
          BY <1>5
        <5> QED BY <1>2, <5>1
      <4> QED BY <3>1, <4>2, <4>3
    <3>3. a[i] = x
      <4>1. ~(i <= Len(q) + Len(s))
        BY <1>5, <2>3
      <4> QED BY <1>3, <4>1
    <3> QED BY <3>2, <3>3
  <2> QED BY <1>5, <2>1, <2>2, <2>3
<1>7. a = b
  BY <1>3, <1>4, <1>5, <1>6
<1> QED BY <1>7 DEF a, b, s1

LEMMA SameElements ==
    ASSUME NEW s \in Seq(Int), NEW t \in Seq(Int), NEW l \in Nat, Len(s) = l, Len(t) = l,
           \A i \in 1..l : s[i] = t[i]
    PROVE  s = t
OBVIOUS

LEMMA HeadMoves ==
    ASSUME NEW S, NEW q \in Seq(S), NEW s \in Seq(S), s # <<>>
    PROVE  q \o s = Append(q, Head(s)) \o Tail(s)
<1> DEFINE a == q \o s
           b == Append(q, Head(s)) \o Tail(s)
<1>0. Len(q) \in Nat /\ Len(s) \in Nat /\ Len(s) > 0
  OBVIOUS
<1>1. /\ Append(q, Head(s)) \in Seq(S) /\ Len(Append(q, Head(s))) = Len(q) + 1
      /\ \A i \in 1..(Len(q) + 1) :
            Append(q, Head(s))[i] = IF i <= Len(q) THEN q[i] ELSE s[1]
  BY <1>0
<1>2. /\ Tail(s) \in Seq(S) /\ Len(Tail(s)) = Len(s) - 1
      /\ \A i \in 1..(Len(s) - 1) : Tail(s)[i] = s[i + 1]
  BY <1>0
<1>3. /\ a \in Seq(S) /\ Len(a) = Len(q) + Len(s)
      /\ \A i \in 1..(Len(q) + Len(s)) :
            a[i] = IF i <= Len(q) THEN q[i] ELSE s[i - Len(q)]
  BY ConcatProperties
<1>4. /\ b \in Seq(S) /\ Len(b) = Len(q) + 1 + (Len(s) - 1)
      /\ \A i \in 1..(Len(q) + 1 + (Len(s) - 1)) :
            b[i] = IF i <= Len(q) + 1 THEN Append(q, Head(s))[i]
                                      ELSE Tail(s)[i - (Len(q) + 1)]
  BY <1>1, <1>2, ConcatProperties
<1> HIDE DEF a, b
<1>5. ASSUME NEW i \in 1..(Len(q) + Len(s)) PROVE a[i] = b[i]
  <2>1. CASE i <= Len(q) + 1
    <3>1. b[i] = IF i <= Len(q) THEN q[i] ELSE s[1]
      BY <1>0, <1>1, <1>4, <2>1
    <3>2. i > Len(q) => i - Len(q) = 1
      BY <1>0, <2>1
    <3> QED BY <1>0, <1>3, <3>1, <3>2
  <2>2. CASE i > Len(q) + 1
    <3>1. /\ i - (Len(q) + 1) \in 1..(Len(s) - 1)
          /\ i - (Len(q) + 1) + 1 = i - Len(q)
      BY <1>0, <2>2
    <3>2. b[i] = s[i - Len(q)]
      <4>1. b[i] = Tail(s)[i - (Len(q) + 1)]
        BY <1>0, <1>4, <2>2
      <4>2. Tail(s)[i - (Len(q) + 1)] = s[i - (Len(q) + 1) + 1]
        BY <1>2, <3>1
      <4> QED BY <3>1, <4>1, <4>2
    <3> QED BY <1>0, <1>3, <2>2, <3>2
  <2> QED BY <1>0, <2>1, <2>2
<1>6. a = b
  BY <1>0, <1>3, <1>4, <1>5
<1> QED BY <1>6 DEF a, b

LEMMA TailRange ==
    ASSUME NEW S, NEW q \in Seq(S), q # <<>>
    PROVE  Range(Tail(q)) \subseteq Range(q)
<1> DEFINE r == Tail(q)
<1>1. /\ Len(q) \in Nat /\ r \in Seq(S) /\ Len(r) = Len(q) - 1
      /\ \A i \in 1..(Len(q) - 1) : r[i] = q[i + 1]
  OBVIOUS
<1>2. DOMAIN q = 1..Len(q) /\ DOMAIN r = 1..(Len(q) - 1)
  BY <1>1
<1> HIDE DEF r
<1>3. ASSUME NEW y \in Range(r) PROVE y \in Range(q)
  <2>1. PICK i \in 1..(Len(q) - 1) : y = r[i]
    BY <1>2 DEF Range
  <2>2. i + 1 \in DOMAIN q /\ y = q[i + 1]
    BY <1>1, <1>2, <2>1
  <2> QED BY <2>2 DEF Range
<1> QED BY <1>3 DEF r

-----------------------------------------------------------------------------
(* The ring of the keyboard. *)

K == KEY_QUEUE_LEN
Slots == 0..(K - 1)

RingType ==
    /\ key_f \in Slots /\ key_r \in Slots
    /\ key_queue \in [Slots -> Int]
    /\ accepted \in Seq(Int) /\ got \in Seq(Int)

LEMMA Wrap ==
    ASSUME NEW a \in 0..(2 * K - 1)
    PROVE  a % K = IF a < K THEN a ELSE a - K
<1>1. K \in Nat \ {0}
  BY DeviceAssumption DEF K
<1> HIDE DEF K
<1>2. CASE a < K
  <2>1. a \in 0..(K - 1)
    BY <1>1, <1>2
  <2> QED BY <1>1, <1>2, <2>1
<1>3. CASE ~(a < K)
  <2>1. a \in K..(2 * K - 1)
    BY <1>1, <1>3
  <2> QED BY <1>1, <1>3, <2>1
<1> QED BY <1>2, <1>3

\* What the ring holds, with the wrapping of the indices spelt out.
RingLen(f, r) == (r - f + K) % K
Ring(q, f, r) == [i \in 1..RingLen(f, r) |-> q[(f + i - 1) % K]]
Slot(f, i) == IF f + i - 1 < K THEN f + i - 1 ELSE f + i - 1 - K

LEMMA RingShape ==
    ASSUME NEW f \in Slots, NEW r \in Slots, NEW q \in [Slots -> Int]
    PROVE  /\ RingLen(f, r) = IF f <= r THEN r - f ELSE r - f + K
           /\ Ring(q, f, r) \in Seq(Int) /\ Len(Ring(q, f, r)) = RingLen(f, r)
           /\ \A i \in 1..RingLen(f, r) : Ring(q, f, r)[i] = q[Slot(f, i)]
<1>1. K \in Nat \ {0} /\ f \in 0..(K - 1) /\ r \in 0..(K - 1)
  BY DeviceAssumption DEF K, Slots
<1> DEFINE L == RingLen(f, r)
<1>2. r - f + K \in 0..(2 * K - 1)
  BY <1>1
<1>3. L = IF f <= r THEN r - f ELSE r - f + K
  BY <1>1, <1>2, Wrap DEF RingLen
<1>4. L \in 0..(K - 1)
  BY <1>1, <1>3
<1> HIDE DEF L
<1>5. ASSUME NEW i \in 1..L
      PROVE  (f + i - 1) % K = Slot(f, i) /\ (f + i - 1) % K \in 0..(K - 1)
  <2>1. f + i - 1 \in 0..(2 * K - 1)
    BY <1>1, <1>4
  <2> QED BY <1>1, <2>1, Wrap DEF Slot
<1>6. Ring(q, f, r) = [i \in 1..L |-> q[(f + i - 1) % K]]
  BY DEF Ring, L
<1>7. Ring(q, f, r) \in [1..L -> Int]
  BY <1>5, <1>6 DEF Slots
<1>8. Ring(q, f, r) \in Seq(Int) /\ Len(Ring(q, f, r)) = L
  BY <1>4, <1>7
<1>9. \A i \in 1..L : Ring(q, f, r)[i] = q[Slot(f, i)]
  BY <1>5, <1>6
<1> QED BY <1>3, <1>8, <1>9 DEF L

LEMMA InRing == QueueLen = RingLen(key_f, key_r) /\ InQueue = Ring(key_queue, key_f, key_r)
BY DEF QueueLen, InQueue, RingLen, Ring, K

LEMMA InRingNext ==
    /\ QueueLen' = RingLen(key_f', key_r')
    /\ InQueue' = Ring(key_queue', key_f', key_r')
BY DEF QueueLen, InQueue, RingLen, Ring, K

LEMMA RearType == ASSUME key_r \in Slots PROVE NextRear \in Slots
<1>1. K \in Nat \ {0} /\ key_r \in 0..(K - 1)
  BY DeviceAssumption DEF K, Slots
<1> QED BY <1>1 DEF NextRear, Slots, K

\* A key is put behind those the ring holds.
LEMMA RingPut ==
    ASSUME RingType, NEW k \in Int, NextRear # key_f,
           key_queue' = [key_queue EXCEPT ![key_r] = k],
           key_r' = NextRear, key_f' = key_f
    PROVE  /\ key_r' \in Slots /\ key_queue' \in [Slots -> Int]
           /\ InQueue \in Seq(Int) /\ InQueue' = Append(InQueue, k)
<1>1. K \in Nat \ {0} /\ key_f \in 0..(K - 1) /\ key_r \in 0..(K - 1)
  BY DeviceAssumption DEF K, Slots, RingType
<1>2. NextRear = IF key_r + 1 < K THEN key_r + 1 ELSE 0
  <2>1. key_r + 1 \in 0..(2 * K - 1) /\ (key_r + 1 < K \/ key_r + 1 = K)
    BY <1>1
  <2> QED BY <1>1, <2>1, Wrap DEF NextRear, K
<1>3. key_r' \in Slots /\ key_f' \in Slots /\ key_queue' \in [Slots -> Int]
  BY <1>1, <1>2 DEF Slots, RingType
<1> DEFINE L == QueueLen
<1>4. /\ L = IF key_f <= key_r THEN key_r - key_f ELSE key_r - key_f + K
      /\ InQueue \in Seq(Int) /\ Len(InQueue) = L
      /\ \A i \in 1..L : InQueue[i] = key_queue[Slot(key_f, i)]
  BY RingShape, InRing DEF RingType
<1>5. /\ QueueLen' = IF key_f <= key_r' THEN key_r' - key_f ELSE key_r' - key_f + K
      /\ InQueue' \in Seq(Int) /\ Len(InQueue') = QueueLen'
      /\ \A i \in 1..QueueLen' : InQueue'[i] = key_queue'[Slot(key_f, i)]
  <2>1. /\ QueueLen' = RingLen(key_f, key_r')
        /\ InQueue' = Ring(key_queue', key_f, key_r')
    BY InRingNext
  <2>2. key_f \in Slots /\ key_r' \in Slots /\ key_queue' \in [Slots -> Int]
    BY <1>3 DEF RingType
  <2> QED BY ONLY <2>1, <2>2, RingShape
<1>6. L \in Nat /\ QueueLen' = L + 1
  BY <1>1, <1>2, <1>4, <1>5
<1> HIDE DEF L
<1>7. ASSUME NEW i \in 1..L PROVE Slot(key_f, i) \in 0..(K - 1) /\ Slot(key_f, i) # key_r
  BY <1>1, <1>4, <1>6 DEF Slot, L
<1>8. Slot(key_f, L + 1) = key_r
  BY <1>1, <1>4, <1>6 DEF Slot
<1>9. ASSUME NEW i \in 1..L PROVE InQueue'[i] = InQueue[i]
  <2>1. i \in 1..QueueLen'
    BY <1>6
  <2>2. key_queue'[Slot(key_f, i)] = key_queue[Slot(key_f, i)]
    BY <1>7 DEF RingType, Slots
  <2> QED BY <1>4, <1>5, <2>1, <2>2
<1>10. InQueue'[L + 1] = k
  <2>1. L + 1 \in 1..QueueLen'
    BY <1>6
  <2>2. key_queue'[key_r] = k
    BY DEF RingType
  <2> QED BY <1>5, <1>8, <2>1, <2>2
<1>11. /\ Append(InQueue, k) \in Seq(Int) /\ Len(Append(InQueue, k)) = L + 1
       /\ Append(InQueue, k)[L + 1] = k
       /\ \A i \in 1..L : Append(InQueue, k)[i] = InQueue[i]
  BY <1>4, <1>6
<1>12. \A i \in 1..(L + 1) : i \in 1..L \/ i = L + 1
  BY <1>6
<1>13. InQueue' = Append(InQueue, k)
  BY <1>5, <1>6, <1>9, <1>10, <1>11, <1>12
<1> QED BY <1>3, <1>4, <1>13

\* The program takes the key the ring has held longest.
LEMMA RingTake ==
    ASSUME RingType, key_f # key_r, key_f' = (key_f + 1) % KEY_QUEUE_LEN,
           UNCHANGED <<key_queue, key_r>>
    PROVE  /\ key_f' \in Slots
           /\ InQueue \in Seq(Int) /\ InQueue # <<>>
           /\ Head(InQueue) = key_queue[key_f] /\ InQueue' = Tail(InQueue)
<1>1. K \in Nat \ {0} /\ key_f \in 0..(K - 1) /\ key_r \in 0..(K - 1)
  BY DeviceAssumption DEF K, Slots, RingType
<1>2. key_f' = IF key_f + 1 < K THEN key_f + 1 ELSE 0
  <2>1. key_f + 1 \in 0..(2 * K - 1) /\ (key_f + 1 < K \/ key_f + 1 = K)
    BY <1>1
  <2> QED BY <1>1, <2>1, Wrap DEF K
<1>3. key_f' \in Slots /\ key_r' \in Slots /\ key_queue' \in [Slots -> Int]
  BY <1>1, <1>2 DEF Slots, RingType
<1> DEFINE L == QueueLen
<1>4. /\ L = IF key_f <= key_r THEN key_r - key_f ELSE key_r - key_f + K
      /\ InQueue \in Seq(Int) /\ Len(InQueue) = L
      /\ \A i \in 1..L : InQueue[i] = key_queue[Slot(key_f, i)]
  BY RingShape, InRing DEF RingType
<1>5. /\ QueueLen' = IF key_f' <= key_r THEN key_r - key_f' ELSE key_r - key_f' + K
      /\ InQueue' \in Seq(Int) /\ Len(InQueue') = QueueLen'
      /\ \A i \in 1..QueueLen' : InQueue'[i] = key_queue[Slot(key_f', i)]
  BY <1>3, RingShape, InRingNext
<1>6. L \in Nat /\ L > 0 /\ QueueLen' = L - 1
  BY <1>1, <1>2, <1>4, <1>5
<1> HIDE DEF L
<1>7. ASSUME NEW i \in 1..(L - 1) PROVE Slot(key_f', i) = Slot(key_f, i + 1)
  <2>1. i \in Int /\ L \in Int /\ 1 <= i /\ i <= L - 1 /\ L <= K - 1
    BY <1>1, <1>4, <1>6
  <2>2. CASE key_f + 1 < K
    BY <1>1, <1>2, <2>1, <2>2 DEF Slot
  <2>3. CASE key_f + 1 = K
    <3>1. key_f' = 0 /\ key_f = K - 1
      BY <1>1, <1>2, <2>3
    <3>2. Slot(key_f', i) = i - 1
      <4>1. Slot(0, i) = i - 1
        BY <1>1, <2>1 DEF Slot
      <4> QED BY <3>1, <4>1
    <3>3. Slot(key_f, i + 1) = i - 1
      BY <1>1, <2>1, <3>1 DEF Slot
    <3> QED BY <3>2, <3>3
  <2> QED BY <1>1, <2>2, <2>3
<1>8. Slot(key_f, 1) = key_f
  BY <1>1 DEF Slot
<1>9. InQueue # <<>> /\ Head(InQueue) = key_queue[key_f]
  BY <1>4, <1>6, <1>8
<1>10. ASSUME NEW i \in 1..(L - 1) PROVE InQueue'[i] = InQueue[i + 1]
  <2>1. i \in 1..QueueLen' /\ i + 1 \in 1..L
    BY <1>6
  <2> QED BY <1>4, <1>5, <1>7, <2>1
<1>11. /\ Tail(InQueue) \in Seq(Int) /\ Len(Tail(InQueue)) = L - 1
       /\ \A i \in 1..(L - 1) : Tail(InQueue)[i] = InQueue[i + 1]
  BY <1>4, <1>6, <1>9
<1>12. InQueue' = Tail(InQueue)
  <2>1. InQueue' \in Seq(Int) /\ Len(InQueue') = L - 1
    BY <1>5, <1>6
  <2>2. \A i \in 1..(L - 1) : InQueue'[i] = Tail(InQueue)[i]
    BY <1>10, <1>11
  <2>3. L - 1 \in Nat
    BY <1>6
  <2> QED BY ONLY <2>3, <1>11, <2>1, <2>2, SameElements
<1> QED BY <1>3, <1>4, <1>9, <1>12

-----------------------------------------------------------------------------
(* The keys on their way from the user to the program. *)

KeyInv ==
    /\ RingType /\ KeysExact
    /\ typed \in Nat /\ stale \subseteq 1..typed
    /\ events \in Seq(Int) /\ Range(events) \subseteq (1..typed) \cup {Quit}
    /\ Range(accepted) \subseteq 1..typed
    /\ StaleKeysDropped
    /\ stage # "prompt" => Range(events) \cap stale = {}

LEMMA KeyStart == ASSUME Init PROVE KeyInv
<1>1. K \in Nat \ {0} /\ K = KEY_QUEUE_LEN
  BY DeviceAssumption DEF K
<1>2. /\ key_f = 0 /\ key_r = 0 /\ typed = 0 /\ stale = {} /\ events = <<>>
      /\ accepted = <<>> /\ got = <<>> /\ stage = "prompt"
      /\ key_queue = [i \in Slots |-> 0]
  BY DEF Init, DeviceInit, Slots, K, _KEY_NONE
<1>3. key_f \in Slots /\ key_r \in Slots /\ key_queue \in [Slots -> Int]
  BY <1>1, <1>2 DEF Slots
<1>4. InQueue \in Seq(Int) /\ Len(InQueue) = 0
  BY <1>1, <1>2, <1>3, RingShape, InRing
<1>5. accepted = got \o InQueue
  BY <1>2, <1>4
<1>6. Range(accepted) = {} /\ Range(events) = {}
  BY <1>2 DEF Range
<1> QED BY <1>2, <1>3, <1>5, <1>6 DEF KeyInv, RingType, KeysExact, StaleKeysDropped

LEMMA KeysKept ==
    ASSUME KeyInv, UNCHANGED keyVars, stage = "prompt" => stage' = "prompt"
    PROVE  KeyInv'
BY DEF KeyInv, keyVars, ringVars, RingType, KeysExact, StaleKeysDropped, InQueue,
       QueueLen

\* Nothing but the reason to stop changes.
LEMMA KeysAtExit ==
    ASSUME KeyInv, dead = "", dead' \in {"", "exit"},
           UNCHANGED <<key_queue, key_f, key_r, accepted, events, typed, stale, got>>,
           stage = "prompt" => stage' = "prompt"
    PROVE  KeyInv'
<1>1. accepted = got \o InQueue
  BY DEF KeyInv, KeysExact
<1>2. InQueue' = InQueue
  BY DEF InQueue, QueueLen
<1>3. KeysExact'
  BY <1>1, <1>2 DEF KeysExact
<1> QED BY <1>3 DEF KeyInv, RingType, StaleKeysDropped

LEMMA KeyRead ==
    ASSUME KeyInv, dead = "", ReadKey, stage = "prompt" => stage' = "prompt"
    PROVE  KeyInv'
<1>1. CASE key_f = key_r
  <2>1. UNCHANGED keyVars
    BY <1>1 DEF ReadKey, keyVars, ringVars
  <2> QED BY <2>1, KeysKept
<1>2. CASE key_f # key_r
  <2>1. /\ got' = Append(got, key_queue[key_f])
        /\ key_f' = (key_f + 1) % KEY_QUEUE_LEN
        /\ UNCHANGED <<events, key_queue, key_r, typed, stale, accepted, dead>>
    BY <1>2 DEF ReadKey
  <2>2. /\ key_f' \in Slots /\ InQueue \in Seq(Int) /\ InQueue # <<>>
        /\ Head(InQueue) = key_queue[key_f] /\ InQueue' = Tail(InQueue)
    BY <1>2, <2>1, RingTake DEF KeyInv
  <2>3. got \in Seq(Int) /\ accepted = got \o InQueue
    BY DEF KeyInv, RingType, KeysExact
  <2>4. key_queue[key_f] \in Int
    BY DEF KeyInv, RingType
  <2>5. got' \in Seq(Int) /\ got \o InQueue = got' \o InQueue'
    <3>1. got' \in Seq(Int)
      BY <2>1, <2>3, <2>4, AppendElems
    <3>2. got \o InQueue = Append(got, Head(InQueue)) \o Tail(InQueue)
      BY <2>2, <2>3, HeadMoves
    <3> QED BY <2>1, <2>2, <3>1, <3>2
  <2>6. RingType' /\ KeysExact'
    BY <2>1, <2>2, <2>3, <2>5 DEF KeyInv, RingType, KeysExact, Slots, K
  <2> QED BY <2>1, <2>6 DEF KeyInv, StaleKeysDropped
<1> QED BY <1>1, <1>2

LEMMA KeyTyped ==
    ASSUME KeyInv, Type(stage = "prompt"), stage' = stage
    PROVE  KeyInv'
<1>1. /\ typed' = typed + 1 /\ events' = Append(events, typed + 1)
      /\ stale' = IF stage = "prompt" THEN stale \cup {typed + 1} ELSE stale
      /\ UNCHANGED <<ringVars, got>>
  BY DEF Type
<1>2. /\ typed \in Nat /\ events \in Seq(Int) /\ stale \subseteq 1..typed
      /\ Range(events) \subseteq (1..typed) \cup {Quit}
      /\ Range(accepted) \subseteq 1..typed
  BY DEF KeyInv
<1>3. events' \in Seq(Int) /\ Range(events') = Range(events) \cup {typed + 1}
  BY <1>1, <1>2, AppendElems
<1>4. RingType' /\ KeysExact'
  BY <1>1 DEF KeyInv, ringVars, RingType, KeysExact, InQueue, QueueLen
<1>5. /\ typed' \in Nat /\ stale' \subseteq 1..typed'
      /\ Range(events') \subseteq (1..typed') \cup {Quit}
      /\ Range(accepted') \subseteq 1..typed'
  BY <1>1, <1>2, <1>3 DEF ringVars
<1>6. typed + 1 \notin Range(accepted) /\ typed + 1 \notin stale
  BY <1>2
<1>7. StaleKeysDropped'
  BY <1>1, <1>6 DEF KeyInv, StaleKeysDropped, ringVars
<1>8. stage' # "prompt" => Range(events') \cap stale' = {}
  BY <1>1, <1>3, <1>6 DEF KeyInv
<1> QED BY <1>3, <1>4, <1>5, <1>7, <1>8 DEF KeyInv

LEMMA KeyClosed == ASSUME KeyInv, Close, stage' = stage PROVE KeyInv'
<1>1. /\ events' = Append(events, Quit)
      /\ UNCHANGED <<ringVars, typed, stale, got>>
  BY DEF Close
<1>2. /\ typed \in Nat /\ events \in Seq(Int) /\ stale \subseteq 1..typed
      /\ Quit \in Int /\ Quit \notin stale
  BY DEF KeyInv, Quit
<1>3. events' \in Seq(Int) /\ Range(events') = Range(events) \cup {Quit}
  BY <1>1, <1>2, AppendElems
<1>4. RingType' /\ KeysExact'
  BY <1>1 DEF KeyInv, ringVars, RingType, KeysExact, InQueue, QueueLen
<1> QED BY <1>1, <1>2, <1>3, <1>4 DEF KeyInv, StaleKeysDropped, ringVars

LEMMA KeysCleared ==
    ASSUME KeyInv, sdl_clear_event_queue
    PROVE  KeyInv'
<1>1. events' = <<>> /\ UNCHANGED <<ringVars, typed, stale, got>>
  BY DEF sdl_clear_event_queue, ClearEvents
<1>2. events' \in Seq(Int) /\ Range(events') = {}
  BY <1>1 DEF Range
<1>3. RingType' /\ KeysExact'
  BY <1>1 DEF KeyInv, ringVars, RingType, KeysExact, InQueue, QueueLen
<1> QED BY <1>1, <1>2, <1>3 DEF KeyInv, StaleKeysDropped, ringVars

\* An event is taken from the queue, and the key it stands for goes into the
\* ring if the program runs.
LEMMA KeyPolled ==
    ASSUME KeyInv, dead = "", PollEvent, stage # "prompt", stage' = stage
    PROVE  KeyInv'
<1>1. /\ events # <<>> /\ events' = Tail(events) /\ UNCHANGED <<typed, stale, got>>
  BY DEF PollEvent
<1>2. /\ typed \in Nat /\ events \in Seq(Int) /\ stale \subseteq 1..typed
      /\ Range(events) \subseteq (1..typed) \cup {Quit} /\ Range(events) \cap stale = {}
      /\ Range(accepted) \subseteq 1..typed /\ Range(accepted) \cap stale = {}
      /\ RingType /\ accepted = got \o InQueue
  BY DEF KeyInv, StaleKeysDropped, KeysExact
<1> DEFINE k == Head(events)
<1>3. k \in Range(events) /\ k \in Int /\ Tail(events) \in Seq(Int)
  BY <1>1, <1>2, TailElems
<1>4. Range(events') \subseteq Range(events)
  BY <1>1, <1>2, TailRange
<1> HIDE DEF k
<1>5. SUFFICES RingType' /\ KeysExact' /\ Range(accepted') \subseteq Range(accepted) \cup {k}
                /\ (k = Quit => accepted' = accepted)
  BY <1>1, <1>2, <1>3, <1>4 DEF KeyInv, StaleKeysDropped
<1>6. CASE k = Quit \/ ~(nemu_state = "RUNNING" /\ k \notin Unmapped)
  <2>1. UNCHANGED <<key_queue, key_f, key_r, accepted>>
    BY <1>6 DEF PollEvent, send_key, ringVars, k
  <2>2. InQueue' = InQueue
    BY <2>1 DEF InQueue, QueueLen
  <2> QED BY <1>1, <1>2, <2>1, <2>2 DEF RingType, KeysExact
<1>7. CASE k # Quit /\ nemu_state = "RUNNING" /\ k \notin Unmapped
  <2>1. /\ key_queue' = [key_queue EXCEPT ![key_r] = k] /\ key_r' = NextRear
        /\ accepted' = Append(accepted, k) /\ key_f' = key_f
        /\ dead' = IF Overflows THEN "assert" ELSE dead
    BY <1>7 DEF PollEvent, send_key, k
  <2>2. accepted \in Seq(Int) /\ got \in Seq(Int)
    BY <1>2 DEF RingType
  <2>3. accepted' \in Seq(Int) /\ Range(accepted') = Range(accepted) \cup {k}
    <3>1. /\ Append(accepted, k) \in Seq(Int)
          /\ Range(Append(accepted, k)) = Range(accepted) \cup {k}
      <4>1. k \in Int /\ accepted \in Seq(Int)
        BY <1>3, <2>2
      <4> QED BY ONLY <4>1, AppendElems
    <3> QED BY <2>1, <3>1
  <2>4. key_r' \in Slots /\ key_queue' \in [Slots -> Int]
    BY <1>2, <1>3, <2>1, RearType DEF RingType
  <2>5. RingType'
    BY <1>1, <1>2, <2>1, <2>3, <2>4 DEF RingType, Slots, K
  <2>6. CASE Overflows
    BY <1>7, <2>1, <2>3, <2>5, <2>6 DEF KeysExact
  <2>7. CASE ~Overflows
    <3>1. InQueue \in Seq(Int) /\ InQueue' = Append(InQueue, k)
      BY <1>2, <1>3, <2>1, <2>7, RingPut DEF Overflows
    <3>2. got \o Append(InQueue, k) = Append(got \o InQueue, k)
      BY <1>3, <2>2, <3>1, AppendBehind
    <3>3. KeysExact'
      BY <1>1, <1>2, <2>1, <3>1, <3>2 DEF KeysExact
    <3> QED BY <1>7, <2>3, <2>5, <3>3
  <2> QED BY <2>6, <2>7
<1> QED BY <1>6, <1>7

LEMMA KeyStep == ASSUME KeyInv, Next PROVE KeyInv'
<1>1. dead = ""
  BY DEF Next, Alive
<1>2. CASE ReadCommand
  BY <1>2, KeysCleared DEF ReadCommand
<1>3. ASSUME NEW count \in SiCounts \cup {Forever}, Go(count) PROVE KeyInv'
  <2>1. UNCHANGED keyVars /\ stage = "command"
    BY <1>3 DEF Go
  <2> QED BY <2>1, KeysKept
<1>4. CASE SetWatch \/ DeleteWatch
  <2>1. UNCHANGED keyVars /\ stage = "command"
    BY <1>4 DEF SetWatch, DeleteWatch, AtCommand, deviceVars
  <2> QED BY <2>1, KeysKept
<1>5. CASE PrintValue
  <2>1. /\ UNCHANGED <<key_queue, key_f, key_r, accepted, events, typed, stale, got>>
        /\ stage = "command" /\ dead' \in {"", "exit"}
    BY <1>1, <1>5 DEF PrintValue, AtCommand
  <2> QED BY <1>1, <2>1, KeysAtExit
<1>6. CASE ExamineDevice
  <2>1. ReadKey /\ stage = "command"
    BY <1>6 DEF ExamineDevice, AtCommand
  <2> QED BY <1>1, <2>1, KeyRead
<1>7. CASE Execute
  <2>1. stage = "exec" /\ (ReadKey \/ UNCHANGED keyVars)
    BY <1>7 DEF Execute
  <2> QED BY <1>1, <2>1, KeyRead, KeysKept
<1>8. CASE Watch \/ Check
  <2>1. UNCHANGED keyVars /\ stage # "prompt"
    BY <1>8 DEF Watch, Check
  <2> QED BY <2>1, KeysKept
<1>9. CASE UpdateDevices
  <2>1. UNCHANGED keyVars /\ stage # "prompt"
    BY <1>9 DEF UpdateDevices, UpdateFlag, deviceVars
  <2> QED BY <2>1, KeysKept
<1>10. CASE Poll
  <2>1. stage = "poll"
    BY <1>10 DEF Poll
  <2>2. CASE events # <<>>
    <3>1. PollEvent /\ stage' = stage
      BY <1>10, <2>2 DEF Poll
    <3> QED BY <1>1, <2>1, <3>1, KeyPolled
  <2>3. CASE events = <<>>
    <3>1. UNCHANGED keyVars
      BY <1>10, <2>3 DEF Poll, deviceVars
    <3> QED BY <2>1, <3>1, KeysKept
  <2> QED BY <2>2, <2>3
<1>11. CASE World /\ UNCHANGED <<watchVars, loopVars>>
  <2>1. stage' = stage
    BY <1>11 DEF loopVars
  <2>2. CASE timer_sig_handler
    <3>1. UNCHANGED keyVars
      BY <2>2 DEF timer_sig_handler
    <3> QED BY <2>1, <3>1, KeysKept
  <2> QED BY <1>11, <2>1, <2>2, KeyTyped, KeyClosed DEF World
<1> QED BY <1>2, <1>3, <1>4, <1>5, <1>6, <1>7, <1>8, <1>9, <1>10, <1>11
        DEF Next, Ui, Loop

LEMMA KeyInvariant == Spec => []KeyInv
<1>1. KeyInv /\ UNCHANGED vars => KeyInv'
  BY KeysKept DEF vars, deviceVars, loopVars
<1> QED BY <1>1, KeyStart, KeyStep, PTL DEF Spec

\* The keys the emulator accepted are those taken from the data port, by the
\* program or by the debugger, followed by those in the ring, for a ring of any
\* length: no key is lost, doubled or overtaken while the indices of key_queue
\* wrap around (keyboard.c).
THEOREM RingExact == Spec => []KeysExact
<1>1. KeyInv => KeysExact
  BY DEF KeyInv
<1> QED BY <1>1, KeyInvariant, PTL

\* No key typed while the debugger waited for a command is accepted later,
\* however many are typed and whenever they are polled (ui.c, device.c).
THEOREM NoStaleKey == Spec => []StaleKeysDropped
<1>1. KeyInv => StaleKeysDropped
  BY DEF KeyInv
<1> QED BY <1>1, KeyInvariant, PTL

-----------------------------------------------------------------------------
(* The watchpoints under the commands and the loop. *)

LEMMA ValueType ==
    ASSUME NEW text \in Seq(Chars), NEW c
    PROVE  Value(text, c) \in Values
<1> DEFINE R == {i \in DOMAIN text : text[i] \in Names /\ c[text[i]] = 1}
<1>1. DOMAIN text = 1..Len(text) /\ Len(text) \in Nat
  OBVIOUS
<1>2. IsFiniteSet(1..Len(text)) /\ R \subseteq 1..Len(text)
  BY <1>1, FS_Interval
<1>3. Cardinality(R) \in Nat
  BY <1>2, FS_Subset, FS_CardinalityType
<1> HIDE DEF R
<1>4. Cardinality(R) % Word \in 0..(Word - 1)
  BY <1>3, NemuAssumption
<1> QED BY <1>4, NemuAssumption DEF Value, R

\* What a step of the emulator does to the pool is a step of the pool.
LEMMA PoolStep == ASSUME TypeInv, Next PROVE [WatchNext]_watchVars
<1>1. halted = "no" /\ content \in [Numbers -> Seq(Chars)]
  BY DEF Next, Alive, TypeInv
<1>2. CASE SetWatch
  <2>1. PICK text \in Texts : CmdW(text, Value(text, cells))
    BY <1>2 DEF SetWatch
  <2>2. Value(text, cells) \in Values
    BY ValueType, WatchAssumption
  <2> QED BY <1>1, <2>1, <2>2 DEF WatchNext
<1>3. CASE DeleteWatch
  BY <1>1, <1>3 DEF DeleteWatch, WatchNext
<1>4. CASE Watch
  <2> DEFINE val == [i \in Numbers |-> Value(content[i], cells)]
  <2>1. UpdateAll(val)
    BY <1>4 DEF Watch
  <2>2. \A i \in Numbers : Value(content[i], cells) \in Values
    BY <1>1, ValueType
  <2>3. val \in [Numbers -> Values]
    BY <2>2
  <2> QED BY <1>1, <2>1, <2>3 DEF WatchNext
<1>5. CASE ~(SetWatch \/ DeleteWatch \/ Watch)
  <2>1. UNCHANGED watchVars
    BY <1>5 DEF Next, Ui, Loop, World, ReadCommand, Go, PrintValue, ExamineDevice, Execute,
       UpdateDevices, Poll, Check
  <2> QED BY <2>1
<1> QED BY <1>2, <1>3, <1>4, <1>5

LEMMA PoolKept ==
    ASSUME PoolInv, [Next]_vars
    PROVE  PoolInv' /\ [WS!AbsNext]_(Range(Used))
<1>1. TypeInv
  BY PoolInvSplit
<1>2. [WatchNext]_watchVars
  BY <1>1, PoolStep DEF vars
<1> QED BY <1>2, WStep

\* The pool stays exact whatever the commands, the program and the devices do
\* (watchpoint.c, ui.c, cpu-exec.c).
THEOREM MonitorPool == Spec => []PoolInv
<1>1. Init => PoolInv
  BY WInit DEF Init
<1>2. PoolInv /\ [Next]_vars => PoolInv'
  BY PoolKept
<1> QED BY <1>1, <1>2, PTL DEF Spec

\* The monitor implements the set of numbers it promises to the user: no
\* command but w and d, and nothing the program does, changes it.
THEOREM MonitorRefinement == Spec => ImplementsWatchSet
<1>1. Init => PoolInv /\ WS!AbsInit
  BY WInit DEF Init
<1>2. PoolInv /\ [Next]_vars => PoolInv' /\ [WS!AbsNext]_(Range(Used))
  BY PoolKept
<1> QED BY <1>1, <1>2, PTL DEF Spec, ImplementsWatchSet, WS!AbsSpec

-----------------------------------------------------------------------------
(* A change of a watched expression stops the program, in the entries that   *)
(* hold the text that was asked for.                                         *)

\* What update_all_w computes for entry i.
Look(i, c) == Value(content[i], c)

\* latter_value says what a watched expression was when the command was given
\* or, once the program has been looked at after an instruction, what it is.
LookInv ==
    /\ stage \in {"prompt", "command"} => cells = atPrompt
    /\ DEBUG => \A i \in Range(Used) : content[i] = asked[i] =>
        /\ stage \in {"prompt", "command", "exec", "watch"} =>
              latter_value[i] = Look(i, atPrompt)
        /\ stage = "exec" => Look(i, cells) = Look(i, atPrompt)
        /\ stage \in {"flag", "poll", "check"} =>
              /\ latter_value[i] = Look(i, cells)
              /\ nemu_state = "RUNNING" => Look(i, cells) = Look(i, atPrompt)

\* What w and d do to the set of entries in use.
LEMMA UsedGrows ==
    ASSUME PoolInv, HasRoom, NEW text \in Texts, NEW v \in Values, ~Overruns(text),
           CmdW(text, v)
    PROVE  /\ free_ \in Numbers \ Range(Used)
           /\ Range(Used)' = Range(Used) \cup {free_}
           /\ content' = [content EXCEPT ![free_] = Copied(free_, text)]
           /\ asked' = [asked EXCEPT ![free_] = text]
           /\ latter_value' = [latter_value EXCEPT ![free_] = v]
<1>1. TypeInv
  BY PoolInvSplit
<1>2. PICK u, f : Pool(u, f)
  BY PoolInvSplit
<1>3. /\ head' = IF count_used = 0 THEN free_ ELSE head
      /\ free_' = next[free_] /\ next' = LinkNew(free_)
      /\ count_used' = count_used + 1
      /\ content' = [content EXCEPT ![free_] = Copied(free_, text)]
      /\ asked' = [asked EXCEPT ![free_] = text]
      /\ latter_value' = [latter_value EXCEPT ![free_] = v]
  BY DEF CmdW
<1>4. Pool(Append(u, f[1]), Tail(f))'
  BY <1>1, <1>2, <1>3, WithNew DEF TypeInv
<1>5. /\ u \in Seq(Numbers) /\ Used = u
      /\ free_ = f[1] /\ f[1] \in Numbers \ Range(u)
  BY <1>2, PoolFacts
<1>6. Used' = Append(u, f[1])
  BY <1>4, TheList DEF Pool, Used
<1>7. Range(Used)' = Range(Used) \cup {free_}
  BY <1>5, <1>6, AppendElems
<1> QED BY <1>3, <1>5, <1>7

LEMMA UsedShrinks ==
    ASSUME PoolInv, NEW num \in Numbers, CmdD(num)
    PROVE  Range(Used)' \subseteq Range(Used) /\ UNCHANGED <<content, asked, latter_value>>
<1>1. TypeInv
  BY PoolInvSplit
<1>2. PICK u, f : Pool(u, f)
  BY PoolInvSplit
<1>3. Used = u /\ free_ # None
  BY <1>2, PoolFacts, WatchAssumption
<1>4. CASE num \in Range(u)
  <2>1. /\ head' = IF head = num THEN next[num] ELSE head
        /\ free_' = IF GoesFirst(num) THEN num ELSE free_
        /\ next' = LinkFree(num) /\ count_used' = count_used - 1
        /\ UNCHANGED <<content, asked, latter_value>>
    BY <1>3, <1>4 DEF CmdD, FreeWp
  <2>2. PICK u1, f1 : Pool(u1, f1)' /\ Range(u1) = Range(u) \ {num}
    BY <1>1, <1>2, <1>4, <2>1, WithFreed DEF TypeInv
  <2>3. Used' = u1
    BY <2>2, TheList DEF Pool, Used
  <2> QED BY <1>3, <2>1, <2>2, <2>3
<1>5. CASE num \notin Range(u)
  BY <1>3, <1>5 DEF CmdD, Used, links
<1> QED BY <1>4, <1>5

LEMMA UsedAreNumbers == ASSUME PoolInv PROVE Range(Used) \subseteq Numbers
<1>1. PICK u, f : Pool(u, f)
  BY PoolInvSplit
<1>2. Used = u /\ u \in Seq(Numbers)
  BY <1>1, PoolFacts
<1> QED BY <1>2 DEF Range

LEMMA LookStart == ASSUME Init PROVE LookInv
<1>1. PoolInv /\ WS!AbsInit
  BY WInit DEF Init
<1>2. Range(Used) = {}
  BY <1>1 DEF WS!AbsInit
<1> QED BY <1>2 DEF Init, LookInv

\* Steps that leave the pool and the program's registers alone.
LEMMA LookKept ==
    ASSUME LookInv, UNCHANGED <<watchVars, cells, atPrompt>>,
           \/ UNCHANGED <<stage, nemu_state>>
           \/ stage = "prompt" /\ stage' = "command"
           \/ stage = "command" /\ stage' \in {"prompt", "exec"}
           \/ /\ stage \in {"flag", "poll"} /\ stage' \in {"poll", "check"}
              /\ UNCHANGED nemu_state
    PROVE  LookInv'
<1>1. Used' = Used /\ UNCHANGED <<content, asked, latter_value>>
  BY DEF Used, watchVars, links
<1>3. CASE UNCHANGED <<stage, nemu_state>>
  BY <1>1, <1>3 DEF LookInv, Look
<1>4. CASE stage = "prompt" /\ stage' = "command"
  BY <1>1, <1>4 DEF LookInv, Look
<1>5. CASE stage = "command" /\ stage' \in {"prompt", "exec"}
  BY <1>1, <1>5 DEF LookInv, Look
<1>6. CASE /\ stage \in {"flag", "poll"} /\ stage' \in {"poll", "check"}
           /\ UNCHANGED nemu_state
  BY <1>1, <1>6 DEF LookInv, Look
<1> QED BY <1>3, <1>4, <1>5, <1>6

LEMMA LookStep ==
    ASSUME PoolInv, LookInv, Next
    PROVE  LookInv'
<1>1. TypeInv
  BY PoolInvSplit
<1>2. CASE ReadCommand
  BY <1>2, LookKept DEF ReadCommand
<1>3. ASSUME NEW count \in SiCounts \cup {Forever}, Go(count) PROVE LookInv'
  <2>1. /\ UNCHANGED <<watchVars, cells, atPrompt>>
        /\ stage = "command" /\ stage' \in {"prompt", "exec"}
    BY <1>3 DEF Go
  <2> QED BY <2>1, LookKept
<1>4. CASE PrintValue \/ ExamineDevice
  BY <1>4, LookKept DEF PrintValue, ExamineDevice, AtCommand
<1>5. CASE UpdateDevices
  <2>1. /\ UNCHANGED <<watchVars, cells, atPrompt, nemu_state>>
        /\ stage = "flag" /\ stage' \in {"poll", "check"}
    BY <1>5 DEF UpdateDevices, UpdateFlag, deviceVars
  <2> QED BY <2>1, LookKept
<1>6. CASE Poll
  <2>1. /\ UNCHANGED <<watchVars, cells, atPrompt, nemu_state>>
        /\ stage = "poll" /\ stage' \in {"poll", "check"}
    BY <1>6 DEF Poll, PollEvent, deviceVars
  <2> QED BY <2>1, LookKept
<1>7. CASE World /\ UNCHANGED <<watchVars, loopVars>>
  BY <1>7, LookKept DEF World, Type, Close, timer_sig_handler, loopVars
<1>8. CASE SetWatch
  <2>1. PICK text \in Texts : CmdW(text, Value(text, cells))
    BY <1>8 DEF SetWatch
  <2>2. /\ stage = "command" /\ stage' = "prompt" /\ cells = atPrompt
        /\ UNCHANGED <<cells, atPrompt, nemu_state>>
    BY <1>8 DEF SetWatch, AtCommand, LookInv, deviceVars
  <2>3. Value(text, cells) \in Values
    BY ValueType, WatchAssumption
  <2>4. CASE ~(HasRoom /\ ~Overruns(text))
    <3>1. UNCHANGED <<links, content, asked, latter_value>>
      BY <2>1, <2>4 DEF CmdW
    <3>2. Used' = Used
      BY <3>1 DEF Used, links
    <3> QED BY <2>2, <3>1, <3>2 DEF LookInv, Look, Value
  <2>5. CASE HasRoom /\ ~Overruns(text)
    <3>1. /\ free_ \in Numbers \ Range(Used)
          /\ Range(Used)' = Range(Used) \cup {free_}
          /\ content' = [content EXCEPT ![free_] = Copied(free_, text)]
          /\ asked' = [asked EXCEPT ![free_] = text]
          /\ latter_value' = [latter_value EXCEPT ![free_] = Value(text, cells)]
      BY <2>1, <2>3, <2>5, UsedGrows
    <3>2. /\ asked'[free_] = text /\ latter_value'[free_] = Value(text, cells)
          /\ \A i \in Numbers : i # free_ => /\ content'[i] = content[i]
                                             /\ asked'[i] = asked[i]
                                             /\ latter_value'[i] = latter_value[i]
      BY <1>1, <3>1 DEF TypeInv
    <3>3. ASSUME DEBUG, NEW i \in Range(Used)', content'[i] = asked'[i]
          PROVE  latter_value'[i] = Value(content'[i], cells)
      <4>1. CASE i = free_
        BY <3>2, <3>3, <4>1
      <4>2. CASE i # free_
        <5>1. i \in Range(Used) /\ i \in Numbers
          BY <3>1, <4>2, UsedAreNumbers
        <5>2. latter_value[i] = Value(content[i], atPrompt)
          BY <2>2, <3>2, <3>3, <4>2, <5>1 DEF LookInv, Look
        <5> QED BY <2>2, <3>2, <4>2, <5>1, <5>2
      <4> QED BY <4>1, <4>2
    <3> QED BY <2>2, <3>3 DEF LookInv, Look
  <2> QED BY <2>4, <2>5
<1>9. CASE DeleteWatch
  <2>1. PICK num \in Numbers : CmdD(num)
    BY <1>9 DEF DeleteWatch
  <2>2. /\ stage = "command" /\ stage' = "prompt" /\ cells = atPrompt
        /\ UNCHANGED <<cells, atPrompt>>
    BY <1>9 DEF DeleteWatch, AtCommand, LookInv
  <2>3. Range(Used)' \subseteq Range(Used) /\ UNCHANGED <<content, asked, latter_value>>
    BY <2>1, UsedShrinks
  <2> QED BY <2>2, <2>3 DEF LookInv, Look
<1>10. CASE Execute
  <2>1. /\ stage = "exec" /\ stage' = AfterInstr
        /\ UNCHANGED <<watchVars, atPrompt>>
    BY <1>10 DEF Execute
  <2>2. Used' = Used /\ UNCHANGED <<content, asked, latter_value>>
    BY <2>1 DEF Used, watchVars, links
  <2>3. DEBUG => stage' = "watch"
    BY <2>1 DEF AfterInstr
  <2>4. stage' \notin {"prompt", "command"}
    BY <2>1 DEF AfterInstr
  <2> QED BY <2>1, <2>2, <2>3, <2>4 DEF LookInv, Look
<1>11. CASE Watch
  <2> DEFINE val == [i \in Numbers |-> Value(content[i], cells)]
  <2>1. /\ stage = "watch" /\ stage' = "flag" /\ UNCHANGED <<cells, atPrompt>>
        /\ UpdateAll(val) /\ nemu_state' = StateAfterWatch(Whether(val))
    BY <1>11 DEF Watch
  <2>2. /\ UNCHANGED <<links, content, asked>>
        /\ \A i \in Range(Used) : latter_value'[i] = Value(content[i], cells)
    BY <2>1, UsedAreNumbers DEF UpdateAll
  <2>3. Used' = Used
    BY <2>2 DEF Used, links
  <2>4. ASSUME DEBUG, NEW i \in Range(Used), content[i] = asked[i],
               nemu_state' = "RUNNING"
        PROVE  Value(content[i], cells) = Value(content[i], atPrompt)
    <3>1. ~Whether(val)
      BY <2>1, <2>4 DEF StateAfterWatch
    <3>2. val[i] = latter_value[i]
      BY <3>1 DEF Whether
    <3>3. val[i] = Value(content[i], cells)
      BY UsedAreNumbers
    <3>4. latter_value[i] = Value(content[i], atPrompt)
      BY <2>1, <2>4 DEF LookInv, Look
    <3> QED BY <3>2, <3>3, <3>4
  <2> QED BY <2>1, <2>2, <2>3, <2>4 DEF LookInv, Look
<1>12. CASE Check
  <2>1. stage = "check" /\ UNCHANGED <<watchVars, cells>>
    BY <1>12 DEF Check
  <2>2. Used' = Used /\ UNCHANGED <<content, asked, latter_value>>
    BY <2>1 DEF Used, watchVars, links
  <2>3. \/ stage' = "prompt" /\ atPrompt' = cells
        \/ stage' = "exec" /\ nemu_state = "RUNNING" /\ UNCHANGED atPrompt
    BY <1>12 DEF Check, Breaks
  <2> QED BY <2>1, <2>2, <2>3 DEF LookInv, Look
<1> QED BY <1>2, <1>3, <1>4, <1>5, <1>6, <1>7, <1>8, <1>9, <1>10, <1>11, <1>12
        DEF Next, Ui, Loop

\* The loop of cpu_exec does not go on to a next instruction while a watched
\* expression differs from what it was when the command was given, for any
\* watchpoints, registers and texts and whatever the user does at the prompts,
\* in every entry that holds the text it was given out for: those whose memory
\* held a longer text before do not (cpu-exec.c, watchpoint.c, ui.c).
THEOREM ChangeStops == Spec => []StopsAtChange
<1>1. Init => PoolInv /\ LookInv
  BY LookStart, WInit DEF Init
<1>2. PoolInv /\ LookInv /\ [Next]_vars => PoolInv' /\ LookInv'
  <2>1. UNCHANGED vars /\ LookInv => LookInv'
    BY LookKept DEF vars, deviceVars, loopVars
  <2> QED BY <2>1, PoolKept, LookStep
<1>3. LookInv => StopsAtChange
  BY DEF LookInv, Look, StopsAtChange
<1> QED BY <1>1, <1>2, <1>3, PTL DEF Spec
=============================================================================
