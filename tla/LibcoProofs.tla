---------------------------- MODULE LibcoProofs ----------------------------
(***************************************************************************)
(* Theorems about the coroutines, for any places in memory and any         *)
(* round_max.                                                              *)
(***************************************************************************)
EXTENDS LibcoInv, SeqLemmas

-----------------------------------------------------------------------------
(* A walk round L places to the next one of the set S.                     *)

Step(L, i) == (i % L) + 1

LEMMA StepWraps ==
    ASSUME NEW L \in Nat \ {0}, NEW i \in 1..L
    PROVE  Step(L, i) = IF i < L THEN i + 1 ELSE 1
<1>1. CASE i < L
  <2>1. i \in 0..(L - 1)
    BY <1>1
  <2>2. i % L = i
    BY <2>1
  <2> QED BY <1>1, <2>2 DEF Step
<1>2. CASE i = L
  <2>1. i % L = 0
    BY <1>2
  <2> QED BY <1>2, <2>1 DEF Step
<1> QED BY <1>1, <1>2

\* The place k of S is the first one from place j on, round the end.
FirstFrom(S, j, k) ==
    /\ k \in S
    /\ IF \E i \in S : i >= j THEN k >= j /\ \A i \in S : i >= j => k <= i
                              ELSE \A i \in S : k <= i

LEMMA FirstExists ==
    ASSUME NEW L \in Nat \ {0}, NEW S, S \subseteq 1..L, S # {}, NEW j \in 1..L
    PROVE  \E k : FirstFrom(S, j, k)
<1>1. CASE \E i \in S : i >= j
  <2> DEFINE T == {i \in S : i >= j}
  <2>1. S \subseteq Nat
    OBVIOUS
  <2>2. T \subseteq Nat /\ T # {}
    BY <1>1, <2>1
  <2>3. PICK k \in T : \A i \in T : k <= i
    BY <2>2, Least
  <2> QED BY <1>1, <2>3 DEF FirstFrom
<1>2. CASE ~ \E i \in S : i >= j
  <2>1. S \subseteq Nat
    OBVIOUS
  <2>2. PICK k \in S : \A i \in S : k <= i
    BY <2>1, Least
  <2> QED BY <1>2, <2>2 DEF FirstFrom
<1> QED BY <1>1, <1>2

LEMMA FirstUnique ==
    ASSUME NEW L \in Nat \ {0}, NEW S, S \subseteq 1..L, NEW j \in 1..L,
           NEW k, FirstFrom(S, j, k), NEW l, FirstFrom(S, j, l)
    PROVE  k = l
<1>1. k \in Int /\ l \in Int
  BY DEF FirstFrom
<1>2. k <= l /\ l <= k
  BY DEF FirstFrom
<1> QED BY <1>1, <1>2

\* From a place out of S the first one is also the first from the next place.
LEMMA FirstSteps ==
    ASSUME NEW L \in Nat \ {0}, NEW S, S \subseteq 1..L, NEW j \in 1..L, NEW k
    PROVE  FirstFrom(S, j, k) <=>
              IF j \in S THEN k = j ELSE FirstFrom(S, Step(L, j), k)
<1>1. CASE j \in S
  <2>1. S \subseteq Int /\ j >= j /\ \E i \in S : i >= j
    BY <1>1
  <2>2. FirstFrom(S, j, k) <=> k \in S /\ k >= j /\ \A i \in S : i >= j => k <= i
    BY <2>1 DEF FirstFrom
  <2>3. k \in S /\ k >= j /\ k <= j => k = j
    BY <2>1
  <2> QED BY <1>1, <2>1, <2>2, <2>3
<1>2. CASE j \notin S /\ j < L
  <2>1. Step(L, j) = j + 1
    BY <1>2, StepWraps
  <2>2. \A i \in S : i >= j <=> i >= j + 1
    BY <1>2
  <2>3. FirstFrom(S, j, k) <=> FirstFrom(S, j + 1, k)
    BY <2>2 DEF FirstFrom
  <2> QED BY <1>2, <2>1, <2>3
<1>3. CASE j \notin S /\ j = L
  <2>1. Step(L, j) = 1
    BY <1>3, StepWraps
  <2>2. \A i \in S : ~(i >= j) /\ i >= 1
    BY <1>3
  <2>3. FirstFrom(S, j, k) <=> FirstFrom(S, 1, k)
    BY <2>2 DEF FirstFrom
  <2> QED BY <1>3, <2>1, <2>3
<1> QED BY <1>1, <1>2, <1>3

\* The walk ends, and where the first of S is.
LEMMA WalkEnds ==
    ASSUME NEW L \in Nat \ {0}, NEW S, S \subseteq 1..L, S # {}
    PROVE  LET skip[i \in 1..L] == IF i \in S THEN i ELSE skip[Step(L, i)]
           IN  \A j \in 1..L : FirstFrom(S, j, skip[j])
<1> DEFINE E(f) == [i \in 1..L |-> IF i \in S THEN i ELSE f[Step(L, i)]]
           skip == CHOOSE f : f = E(f)
           g == [i \in 1..L |-> CHOOSE k : FirstFrom(S, i, k)]
<1>1. \A i \in 1..L : Step(L, i) \in 1..L
  BY StepWraps
<1>2. \A i \in 1..L : FirstFrom(S, i, g[i])
  BY FirstExists
<1>3. g = [i \in 1..L |-> g[i]]
  OBVIOUS
<1> HIDE DEF g
<1>4. ASSUME NEW i \in 1..L PROVE g[i] = IF i \in S THEN i ELSE g[Step(L, i)]
  <2>1. FirstFrom(S, i, g[i]) /\ FirstFrom(S, Step(L, i), g[Step(L, i)])
    BY <1>1, <1>2
  <2>2. CASE i \in S
    <3>1. g[i] = i
      BY ONLY L \in Nat \ {0}, S \subseteq 1..L, i \in 1..L, i \in S, <2>1, FirstSteps
    <3> QED BY <2>2, <3>1
  <2>3. CASE i \notin S
    <3>1. FirstFrom(S, Step(L, i), g[i])
      BY <2>1, <2>3, FirstSteps
    <3>2. Step(L, i) \in 1..L
      BY <1>1
    <3>3. g[i] = g[Step(L, i)]
      BY ONLY L \in Nat \ {0}, S \subseteq 1..L, <2>1, <3>1, <3>2, FirstUnique
    <3> QED BY <2>3, <3>3
  <2> QED BY <2>2, <2>3
<1>5. g = E(g)
  BY <1>4, <1>3
<1>6. skip = E(skip)
  <2> HIDE DEF E
  <2> QED BY <1>5
<1>7. \A i \in 1..L : skip[i] = IF i \in S THEN i ELSE skip[Step(L, i)]
  BY <1>6
<1> HIDE DEF skip
\* The last place from which the walk would go wrong, before the end of S and
\* after it.
<1>8. ASSUME NEW j \in 1..L, \E k \in S : k >= j PROVE FirstFrom(S, j, skip[j])
  <2> DEFINE Bad == {i \in 1..L : (\E k \in S : k >= i) /\ ~FirstFrom(S, i, skip[i])}
  <2>1. SUFFICES ASSUME Bad # {} PROVE FALSE
    BY <1>8
  <2>2. PICK m \in Bad : \A k \in Bad : k <= m
    <3>1. L \in Nat /\ Bad \subseteq 0..L
      OBVIOUS
    <3> HIDE DEF Bad
    <3> QED BY <2>1, <3>1, Greatest
  <2>3. m \in 1..L /\ m \notin S
    BY <1>7, FirstSteps
  <2>4. m < L /\ Step(L, m) = m + 1 /\ \E k \in S : k >= m + 1
    <3>1. PICK k \in S : k >= m
      BY <2>2
    <3>2. k >= m + 1 /\ k <= L
      BY <2>3, <3>1
    <3> QED BY <2>3, <3>2, StepWraps
  <2>5. FirstFrom(S, m + 1, skip[m + 1])
    BY <2>2, <2>3, <2>4
  <2>6. skip[m] = skip[m + 1]
    BY <1>7, <2>3, <2>4
  <2>7. FirstFrom(S, m, skip[m])
    <3>1. FirstFrom(S, Step(L, m), skip[m])
      BY <2>4, <2>5, <2>6
    <3> QED BY <2>3, <3>1, FirstSteps
  <2> QED BY <2>2, <2>7
<1>9. ASSUME NEW j \in 1..L PROVE FirstFrom(S, j, skip[j])
  <2> DEFINE Bad == {i \in 1..L : ~FirstFrom(S, i, skip[i])}
  <2>1. SUFFICES ASSUME Bad # {} PROVE FALSE
    OBVIOUS
  <2>2. PICK m \in Bad : \A k \in Bad : k <= m
    <3>1. L \in Nat /\ Bad \subseteq 0..L
      OBVIOUS
    <3> HIDE DEF Bad
    <3> QED BY <2>1, <3>1, Greatest
  <2>3. m \in 1..L /\ m \notin S /\ skip[m] = skip[Step(L, m)]
    BY <1>7, FirstSteps
  <2>4. FirstFrom(S, Step(L, m), skip[Step(L, m)])
    <3>1. CASE m < L
      <4>1. Step(L, m) = m + 1 /\ m + 1 \in 1..L /\ ~(m + 1 <= m)
        BY <2>3, <3>1, StepWraps
      <4> QED BY <2>2, <4>1
    <3>2. CASE m = L
      <4>1. Step(L, m) = 1 /\ 1 \in 1..L
        BY <2>3, <3>2, StepWraps
      <4>2. \E k \in S : k >= 1
        <5>1. \A k \in S : k >= 1
          OBVIOUS
        <5> QED BY <5>1
      <4> QED BY <1>8, <4>1, <4>2
    <3> QED BY <2>3, <3>1, <3>2
  <2>5. FirstFrom(S, m, skip[m])
    BY <2>3, <2>4, FirstSteps
  <2> QED BY <2>2, <2>5
<1> QED BY <1>9 DEF skip

-----------------------------------------------------------------------------
(* rand_select. *)

\* The places of the list rand_select may stop at.
Sel(o, st) == {i \in 1..Len(Ring(o)) : st[Ring(o)[i]] \in Selectable}

LEMMA RingPlaces ==
    ASSUME NEW o \in Seq(Cos)
    PROVE  /\ Len(Ring(o)) = Len(o) + 1 /\ Ring(o)[1] = Main
           /\ \A i \in 1..Len(o) : Ring(o)[i + 1] = o[i]
           /\ Ring(o) \in Seq(Everyone)
           /\ Range(Ring(o)) = {Main} \cup Range(o)
           /\ IsInjective(o) => IsInjective(Ring(o))
<1> DEFINE r == Ring(o)
<1>1. /\ r \in Seq(Everyone) /\ Len(r) = Len(o) + 1 /\ r[1] = Main
      /\ \A i \in 1..Len(o) : r[i + 1] = o[i]
  <2>1. o \in Seq(Everyone) /\ <<Main>> \in Seq(Everyone)
    BY DEF Everyone
  <2> QED BY <2>1, ConcatProperties DEF Ring
<1> HIDE DEF r
<1>2. /\ DOMAIN o = 1..Len(o) /\ DOMAIN r = 1..(Len(o) + 1) /\ Len(o) \in Nat
      /\ \A i \in 1..Len(o) : o[i] \in Cos /\ i + 1 \in 1..(Len(o) + 1)
      /\ \A i \in 1..(Len(o) + 1) : i = 1 \/ (i - 1 \in 1..Len(o) /\ (i - 1) + 1 = i)
  BY <1>1
<1>3. Range(r) = {Main} \cup Range(o)
  <2>1. ASSUME NEW x \in Range(r) PROVE x \in {Main} \cup Range(o)
    <3>1. PICK i \in 1..(Len(o) + 1) : x = r[i]
      BY <1>2 DEF Range
    <3>2. i = 1 \/ (i - 1 \in 1..Len(o) /\ r[i] = o[i - 1])
      BY <1>1, <1>2
    <3> QED BY <1>1, <1>2, <3>1, <3>2 DEF Range
  <2>2. Range(o) \subseteq Range(r)
    BY <1>1, <1>2 DEF Range
  <2>3. Main \in Range(r)
    BY <1>1, <1>2 DEF Range
  <2> QED BY <2>1, <2>2, <2>3
<1>4. ASSUME IsInjective(o) PROVE IsInjective(r)
  <2>1. ASSUME NEW i \in 1..(Len(o) + 1), NEW j \in 1..(Len(o) + 1), r[i] = r[j]
        PROVE  i = j
    <3>1. CASE i = 1 /\ j = 1
      BY <3>1
    <3>2. CASE i = 1 /\ j - 1 \in 1..Len(o)
      BY <1>1, <1>2, <2>1, <3>2, LibcoAssumption
    <3>3. CASE j = 1 /\ i - 1 \in 1..Len(o)
      BY <1>1, <1>2, <2>1, <3>3, LibcoAssumption
    <3>4. CASE i - 1 \in 1..Len(o) /\ j - 1 \in 1..Len(o)
      <4>1. o[i - 1] = o[j - 1]
        BY <1>1, <1>2, <2>1, <3>4
      <4>2. i - 1 = j - 1
        BY <1>2, <1>4, <3>4, <4>1 DEF IsInjective
      <4> QED BY <4>2
    <3> QED BY <1>2, <3>1, <3>2, <3>3, <3>4
  <2> QED BY <1>2, <2>1 DEF IsInjective
<1> QED BY <1>1, <1>3, <1>4 DEF r

LEMMA SkipFirst ==
    ASSUME NEW o \in Seq(Cos), NEW st, Sel(o, st) # {}, NEW j \in 1..Len(Ring(o))
    PROVE  FirstFrom(Sel(o, st), j, SkipBlocked(o, st, j))
<1> DEFINE L == Len(Ring(o))
           S == Sel(o, st)
           E(f) == [i \in 1..L |-> IF i \in S THEN i ELSE f[Step(L, i)]]
           D(f) == [i \in 1..L |-> IF st[Ring(o)[i]] \in Selectable THEN i
                                   ELSE f[After(o, i)]]
           f1 == CHOOSE f : f = E(f)
           f2 == CHOOSE f : f = D(f)
<1>1. L \in Nat \ {0} /\ S \subseteq 1..L
  BY RingPlaces DEF Sel
<1>2. FirstFrom(S, j, f1[j])
  <2> HIDE DEF L, S
  <2> QED BY <1>1, WalkEnds DEF S, L
<1>3. \A f : E(f) = D(f)
  BY DEF Sel, After, Step
<1>4. f1 = f2
  <2> HIDE DEF E, D
  <2> QED BY <1>3
<1>5. SkipBlocked(o, st, j) = f2[j]
  BY DEF SkipBlocked
<1> QED BY <1>2, <1>4, <1>5

\* One counted turn of the first loop, and where the walk is after n of them.
Turn(o, st, x) == After(o, SkipBlocked(o, st, x))

LEMMA TurnType ==
    ASSUME NEW o \in Seq(Cos), NEW st, Sel(o, st) # {}, NEW x \in 1..Len(Ring(o))
    PROVE  /\ SkipBlocked(o, st, x) \in Sel(o, st)
           /\ Turn(o, st, x) = Step(Len(Ring(o)), SkipBlocked(o, st, x))
           /\ Turn(o, st, x) \in 1..Len(Ring(o))
<1>1. SkipBlocked(o, st, x) \in Sel(o, st)
  BY SkipFirst DEF FirstFrom
<1>2. Turn(o, st, x) = Step(Len(Ring(o)), SkipBlocked(o, st, x))
  BY DEF Turn, After, Step
<1>3. SkipBlocked(o, st, x) \in 1..Len(Ring(o)) /\ Len(Ring(o)) \in Nat \ {0}
  BY <1>1, RingPlaces DEF Sel
<1>4. Step(Len(Ring(o)), SkipBlocked(o, st, x)) \in 1..Len(Ring(o))
  BY <1>3, StepWraps
<1> QED BY <1>1, <1>2, <1>4

IsWalk(o, st, w) ==
    /\ w \in [Nat -> 1..Len(Ring(o))]
    /\ w[0] = 1
    /\ \A n \in Nat : w[n + 1] = Turn(o, st, w[n])
    /\ \A n \in Nat : RandSelect(o, st, n) = Ring(o)[SkipBlocked(o, st, w[n])]

LEMMA Walk ==
    ASSUME NEW o \in Seq(Cos), NEW st, Sel(o, st) # {}
    PROVE  \E w : IsWalk(o, st, w)
<1> DEFINE L == Len(Ring(o))
           G(x) == Turn(o, st, x)
           E(r, f) == [n \in 0..r |-> IF n = 0 THEN 1 ELSE G(f[n - 1])]
           walk(r) == CHOOSE f : f = E(r, f)
           w == [n \in Nat |-> walk(n)[n]]
<1>1. 1 \in 1..L /\ \A x \in 1..L : G(x) \in 1..L
  BY TurnType, RingPlaces
<1>2. ASSUME NEW n \in Nat PROVE RandSelect(o, st, n) = Ring(o)[SkipBlocked(o, st, walk(n)[n])]
  BY DEF RandSelect, Turn
<1> HIDE DEF G, L
<1>3. ASSUME NEW r \in Nat PROVE \E f : f = E(r, f)
  <2> DEFINE P == {m \in Nat : \E f : f = E(m, f)}
  <2>1. 0 \in P
    <3> DEFINE f == [n \in 0..0 |-> 1]
    <3>1. f = E(0, f)
      OBVIOUS
    <3> QED BY <3>1
  <2>2. ASSUME NEW m \in Nat, m \in P PROVE m + 1 \in P
    <3>1. PICK f : f = E(m, f)
      BY <2>2
    <3>2. \A n \in 0..m : f[n] = IF n = 0 THEN 1 ELSE G(f[n - 1])
      BY <3>1
    <3> DEFINE g == [n \in 0..(m + 1) |-> IF n = m + 1 THEN G(f[m]) ELSE f[n]]
    <3>3. ASSUME NEW n \in 0..(m + 1) PROVE g[n] = IF n = 0 THEN 1 ELSE G(g[n - 1])
      <4>1. CASE n = 0
        BY <3>2, <4>1
      <4>2. CASE n \in 1..m
        <5>1. n \in 0..m /\ n - 1 \in 0..m /\ n - 1 \in 0..(m + 1) /\ n # m + 1 /\ n - 1 # m + 1
          BY <4>2
        <5>2. g[n] = f[n] /\ g[n - 1] = f[n - 1]
          BY <5>1
        <5>3. f[n] = G(f[n - 1])
          BY <3>2, <4>2, <5>1
        <5> QED BY <4>2, <5>2, <5>3
      <4>3. CASE n = m + 1
        <5>1. n - 1 = m /\ m \in 0..(m + 1) /\ m # m + 1 /\ n # 0
          BY <4>3
        <5>2. g[m] = f[m] /\ g[n] = G(f[m])
          BY <4>3, <5>1
        <5> QED BY <5>1, <5>2
      <4> QED BY <4>1, <4>2, <4>3
    <3>4. g = [n \in 0..(m + 1) |-> g[n]]
      OBVIOUS
    <3> HIDE DEF g
    <3>5. g = E(m + 1, g)
      BY <3>3, <3>4
    <3> HIDE DEF E
    <3> QED BY <3>5
  <2> HIDE DEF P
  <2>3. r \in P
    BY <2>1, <2>2, NatSet
  <2> QED BY <2>3 DEF P
<1>4. ASSUME NEW r \in Nat
      PROVE  \A n \in 0..r : walk(r)[n] = IF n = 0 THEN 1 ELSE G(walk(r)[n - 1])
  <2>1. walk(r) = E(r, walk(r))
    <3> HIDE DEF E
    <3> QED BY <1>3
  <2> HIDE DEF walk
  <2> QED BY <2>1
<1> HIDE DEF walk
<1>5. ASSUME NEW n \in Nat
      PROVE  \A r \in Nat : n <= r => walk(r)[n] = walk(n)[n] /\ walk(n)[n] \in 1..L
  <2> DEFINE P == {m \in Nat : \A r \in Nat : m <= r =>
                        walk(r)[m] = walk(m)[m] /\ walk(m)[m] \in 1..L}
  <2>1. 0 \in P
    <3>1. \A r \in Nat : walk(r)[0] = 1
      BY <1>4
    <3> QED BY <1>1, <3>1
  <2>2. ASSUME NEW m \in Nat, m \in P PROVE m + 1 \in P
    <3>1. ASSUME NEW r \in Nat, m + 1 <= r PROVE walk(r)[m + 1] = G(walk(m)[m])
      <4>1. m + 1 \in 0..r /\ m + 1 # 0 /\ (m + 1) - 1 = m /\ m <= r
        BY <3>1
      <4>2. walk(r)[m + 1] = G(walk(r)[m])
        BY <1>4, <4>1
      <4>3. walk(r)[m] = walk(m)[m]
        BY <2>2, <4>1
      <4> QED BY <4>2, <4>3
    <3>2. walk(m + 1)[m + 1] = G(walk(m)[m])
      BY <3>1
    <3>3. walk(m)[m] \in 1..L
      BY <2>2
    <3>4. walk(m + 1)[m + 1] \in 1..L
      BY <1>1, <3>2, <3>3
    <3> QED BY <3>1, <3>2, <3>4
  <2> HIDE DEF P
  <2>3. n \in P
    BY <2>1, <2>2, NatSet
  <2> QED BY <2>3 DEF P
<1>6. w \in [Nat -> 1..L]
  BY <1>5
<1>7. w[0] = 1
  BY <1>4
<1>8. ASSUME NEW n \in Nat PROVE w[n + 1] = G(w[n])
  <2>1. n + 1 \in 0..(n + 1) /\ n + 1 # 0 /\ (n + 1) - 1 = n /\ n <= n + 1 /\ n + 1 \in Nat
    OBVIOUS
  <2>2. walk(n + 1)[n + 1] = G(walk(n + 1)[n])
    BY <1>4, <2>1
  <2>3. walk(n + 1)[n] = walk(n)[n]
    BY <1>5, <2>1
  <2> QED BY <2>1, <2>2, <2>3
<1>9. \A n \in Nat : RandSelect(o, st, n) = Ring(o)[SkipBlocked(o, st, w[n])]
  BY <1>2
<1> HIDE DEF w
<1> QED BY <1>6, <1>7, <1>8, <1>9 DEF IsWalk, G, L

LEMMA ReadyPlaces ==
    ASSUME NEW o \in Seq(Cos), NEW st
    PROVE  Ready(o, st) = {Ring(o)[i] : i \in Sel(o, st)}
<1> DEFINE r == Ring(o)
<1>1. DOMAIN r = 1..Len(r)
  BY RingPlaces
<1> HIDE DEF r
<1>2. Range(r) = {r[i] : i \in 1..Len(r)}
  BY <1>1 DEF Range
<1>3. Ready(o, st) = {x \in Range(r) : st[x] \in Selectable}
  BY DEF Ready, r
<1>4. Sel(o, st) = {i \in 1..Len(r) : st[r[i]] \in Selectable}
  BY DEF Sel, r
<1>5. Ready(o, st) = {r[i] : i \in Sel(o, st)}
  BY <1>2, <1>3, <1>4
<1> QED BY <1>5 DEF r

\* rand_select finds one that is ready if there is one.
LEMMA PickedReady ==
    ASSUME NEW o \in Seq(Cos), NEW st, Ready(o, st) # {}, NEW n \in Nat
    PROVE  RandSelect(o, st, n) \in Ready(o, st)
<1>1. Ready(o, st) = {Ring(o)[i] : i \in Sel(o, st)}
  BY ReadyPlaces
<1>2. Sel(o, st) # {}
  BY <1>1
<1>3. PICK w : IsWalk(o, st, w)
  BY <1>2, Walk
<1>4. SkipBlocked(o, st, w[n]) \in Sel(o, st)
  BY <1>2, <1>3, TurnType DEF IsWalk
<1> QED BY <1>1, <1>3, <1>4 DEF IsWalk

\* A sequence of places of S, each the first one after the one before, from the
\* least on, has every place of S among as many as S has.
LEMMA RoundTrip ==
    ASSUME NEW L \in Nat \ {0}, NEW S, S \subseteq 1..L, S # {},
           NEW q \in [Nat -> S], FirstFrom(S, 1, q[0]),
           \A n \in Nat : FirstFrom(S, Step(L, q[n]), q[n + 1]),
           NEW s \in S
    PROVE  \E n \in 1..Cardinality(S) : q[n] = s
<1> DEFINE Below(x) == {i \in S : i < x}
           C(x) == Cardinality(Below(x))
<1>1. /\ IsFiniteSet(S) /\ Cardinality(S) \in Nat
      /\ \A x \in S : IsFiniteSet(Below(x)) /\ C(x) \in Nat
  <2>1. IsFiniteSet(1..L)
    BY FS_Interval
  <2>2. IsFiniteSet(S)
    BY <2>1, FS_Subset
  <2>3. ASSUME NEW x \in S PROVE IsFiniteSet(Below(x))
    BY <2>2, FS_Subset
  <2> QED BY <2>2, <2>3, FS_CardinalityType
<1>2. \A x \in S : x \in Nat /\ x >= 1 /\ x <= L
  OBVIOUS
<1>3. ASSUME NEW x \in S, NEW y \in S, x < y, \A i \in S : i < y => i <= x
      PROVE  C(y) = C(x) + 1
  <2>1. x \notin Below(x)
    BY <1>2
  <2>2. \A i \in S : i < y <=> i < x \/ i = x
    BY <1>2, <1>3
  <2>3. Below(y) = Below(x) \cup {x}
    BY <1>3, <2>2
  <2> HIDE DEF Below
  <2> QED BY <1>1, <2>1, <2>3, FS_AddElement
<1>4. ASSUME NEW x \in S, \A i \in S : i <= x PROVE Cardinality(S) = C(x) + 1
  <2>1. x \notin Below(x)
    BY <1>2
  <2>2. \A i \in S : i < x \/ i = x
    BY <1>2, <1>4
  <2>3. S = Below(x) \cup {x}
    BY <1>4, <2>2
  <2> HIDE DEF Below
  <2> QED BY <1>1, <2>1, <2>3, FS_AddElement
<1>5. ASSUME NEW x \in S, Below(x) = {} PROVE C(x) = 0 /\ q[0] = x
  <2>1. C(x) = 0
    BY <1>5, FS_EmptySet
  <2>2. \A i \in S : i >= 1 /\ x <= i
    BY <1>2, <1>5
  <2>3. FirstFrom(S, 1, x)
    BY <1>2, <2>2 DEF FirstFrom
  <2>4. 1 \in 1..L
    OBVIOUS
  <2>5. q[0] = x
    BY <2>3, <2>4, FirstUnique
  <2> QED BY <2>1, <2>5
<1>6. ASSUME NEW x \in S, Below(x) # {}
      PROVE  \E y \in S : /\ y < x /\ C(x) = C(y) + 1
                          /\ FirstFrom(S, Step(L, y), x)
  <2>1. Below(x) \subseteq 0..L
    <3>1. \A i \in S : i \in 0..L
      OBVIOUS
    <3> QED BY <3>1
  <2>2. PICK y \in Below(x) : \A i \in Below(x) : i <= y
    <3> HIDE DEF Below
    <3> QED BY <1>6, <2>1, Greatest
  <2>3. y \in S /\ y < x /\ \A i \in S : i < x => i <= y
    BY <2>2
  <2>4. Step(L, y) = y + 1
    BY <1>2, <2>3, StepWraps
  <2>5. FirstFrom(S, y + 1, x)
    <3>1. x >= y + 1 /\ \A i \in S : i >= y + 1 => x <= i
      BY <1>2, <2>3
    <3> QED BY <3>1 DEF FirstFrom
  <2> QED BY <1>3, <2>3, <2>4, <2>5
<1> HIDE DEF C, Below
\* Every place comes at its rank.
<1>7. ASSUME NEW x \in S PROVE q[C(x)] = x
  <2> DEFINE Bad == {i \in S : q[C(i)] # i}
  <2>1. SUFFICES ASSUME Bad # {} PROVE FALSE
    BY DEF Bad
  <2>2. PICK z \in Bad : \A i \in Bad : z <= i
    <3>1. Bad \subseteq Nat
      BY <1>2
    <3> HIDE DEF Bad
    <3> QED BY <2>1, <3>1, Least
  <2>3. Below(z) # {}
    BY <1>5
  <2>4. PICK y \in S : y < z /\ C(z) = C(y) + 1 /\ FirstFrom(S, Step(L, y), z)
    BY <1>6, <2>3
  <2>5. q[C(y)] = y
    BY <1>2, <2>2, <2>4
  <2>6. FirstFrom(S, Step(L, y), q[C(y) + 1])
    BY <1>1, <2>5
  <2>7. Step(L, y) \in 1..L
    BY <1>2, StepWraps
  <2>8. q[C(y) + 1] = z
    BY <2>4, <2>6, <2>7, FirstUnique
  <2> QED BY <2>2, <2>4, <2>8
<1>8. PICK m \in S : \A i \in S : i <= m
  <2>1. S \subseteq 0..L
    BY <1>2
  <2> QED BY <2>1, Greatest
<1>9. Cardinality(S) = C(m) + 1 /\ C(m) \in Nat /\ C(m) + 1 \in 1..Cardinality(S)
  BY <1>1, <1>4, <1>8
<1>10. CASE Below(s) = {}
  <2>1. FirstFrom(S, Step(L, m), q[C(m) + 1])
    BY <1>1, <1>7, <1>8
  <2>2. Step(L, m) = IF m < L THEN m + 1 ELSE 1
    BY <1>2, StepWraps
  <2>3. \A i \in S : s <= i
    BY <1>2, <1>10 DEF Below
  <2>4. FirstFrom(S, Step(L, m), s)
    <3>1. CASE m < L
      <4>1. \A i \in S : ~(i >= m + 1)
        BY <1>2, <1>8
      <4> QED BY <2>2, <2>3, <3>1, <4>1 DEF FirstFrom
    <3>2. CASE m = L
      <4>1. Step(L, m) = 1 /\ \A i \in S : i >= 1
        BY <1>2, <2>2, <3>2
      <4> QED BY <2>3, <4>1 DEF FirstFrom
    <3> QED BY <1>2, <3>1, <3>2
  <2>5. Step(L, m) \in 1..L
    BY <1>2, StepWraps
  <2>6. q[C(m) + 1] = s
    BY ONLY L \in Nat \ {0}, S \subseteq 1..L, <2>1, <2>4, <2>5, FirstUnique
  <2> QED BY <1>9, <2>6
<1>11. CASE Below(s) # {}
  <2>1. PICK y \in S : C(s) = C(y) + 1
    BY <1>6, <1>11
  <2>2. C(s) \in Nat /\ C(s) >= 1
    BY <1>1, <2>1
  <2>3. C(s) <= Cardinality(S)
    <3>1. Below(s) \in SUBSET S
      BY DEF Below
    <3> QED BY <1>1, <3>1, FS_Subset DEF C
  <2>4. C(s) \in 1..Cardinality(S)
    BY <1>1, <2>2, <2>3
  <2> QED BY <1>7, <2>4
<1> QED BY <1>10, <1>11

\* rand_select can pick whoever is ready, with a round not above their number.
LEMMA EachPicked ==
    ASSUME NEW o \in Seq(Cos), IsInjective(o), NEW st,
           Cardinality(Ready(o, st)) \in 1..MaxRound
    PROVE  {RandSelect(o, st, n) : n \in Rounds} = Ready(o, st)
<1> DEFINE S == Sel(o, st)
           L == Len(Ring(o))
<1>1. /\ L \in Nat \ {0} /\ S \subseteq 1..L /\ Ready(o, st) = {Ring(o)[i] : i \in S}
      /\ 1 \in 1..L
  BY RingPlaces, ReadyPlaces DEF Sel
<1>2. IsFiniteSet(S)
  <2>1. IsFiniteSet(1..L)
    BY <1>1, FS_Interval
  <2> QED BY <1>1, <2>1, FS_Subset
<1>3. Cardinality(S) = Cardinality(Ready(o, st))
  <2> DEFINE f == [i \in S |-> Ring(o)[i]]
  <2>1. f \in Surjection(S, Ready(o, st))
    <3>1. f \in [S -> Ready(o, st)] /\ \A x \in Ready(o, st) : \E i \in S : f[i] = x
      BY <1>1
    <3> HIDE DEF S
    <3> QED BY <3>1 DEF Surjection
  <2>2. IsInjective(Ring(o)) /\ DOMAIN Ring(o) = 1..L
    BY RingPlaces
  <2>3. \A i, j \in S : f[i] = f[j] => i = j
    BY <1>1, <2>2 DEF IsInjective
  <2>4. f \in Bijection(S, Ready(o, st))
    BY <2>1, <2>3 DEF Surjection, Injection, Bijection, IsInjective
  <2>5. ExistsBijection(S, Ready(o, st))
    BY <2>4 DEF ExistsBijection
  <2> QED BY <1>2, <2>5, FS_Bijection
<1>4. S # {} /\ Cardinality(S) \in 1..MaxRound
  <2> HIDE DEF S
  <2>1. Cardinality(S) \in 1..MaxRound
    BY <1>3
  <2>2. Cardinality(S) # 0
    BY <2>1
  <2> QED BY <2>1, <2>2, FS_EmptySet
<1>5. PICK w : IsWalk(o, st, w)
  BY <1>4, Walk
<1> DEFINE q == [n \in Nat |-> SkipBlocked(o, st, w[n])]
<1>6. ASSUME NEW n \in Nat
      PROVE  /\ SkipBlocked(o, st, w[n]) \in S
             /\ w[n + 1] = Step(L, SkipBlocked(o, st, w[n]))
             /\ FirstFrom(S, w[n], SkipBlocked(o, st, w[n]))
  BY <1>4, <1>5, TurnType, SkipFirst DEF IsWalk
<1>7. q \in [Nat -> S] /\ FirstFrom(S, 1, q[0])
  BY <1>5, <1>6 DEF IsWalk
<1>8. \A n \in Nat : FirstFrom(S, Step(L, q[n]), q[n + 1])
  <2> SUFFICES ASSUME NEW n \in Nat PROVE FirstFrom(S, Step(L, q[n]), q[n + 1])
    OBVIOUS
  <2>1. n + 1 \in Nat
    OBVIOUS
  <2>2. FirstFrom(S, w[n + 1], q[n + 1])
    BY <1>6, <2>1
  <2> QED BY <1>6, <2>2
<1>9. \A n \in Nat : RandSelect(o, st, n) = Ring(o)[q[n]]
  BY <1>5 DEF IsWalk
<1>10. MaxRound \in Nat /\ Rounds \subseteq Nat /\ 1..Cardinality(S) \subseteq Rounds
  <2>1. MaxRound \in Nat
    BY LibcoAssumption
  <2> DEFINE C == Cardinality(S)
  <2>2. C \in 1..MaxRound
    BY <1>4
  <2> HIDE DEF C
  <2>3. \A n \in 1..C : n \in 1..MaxRound
    BY <2>1, <2>2
  <2>4. \A n \in 1..MaxRound : n \in Nat
    OBVIOUS
  <2> QED BY <2>1, <2>3, <2>4 DEF Rounds, C
<1> HIDE DEF S, L, q
<1>11. ASSUME NEW x \in Ready(o, st) PROVE \E n \in Rounds : RandSelect(o, st, n) = x
  <2>1. PICK i \in S : x = Ring(o)[i]
    BY <1>1
  <2>2. L \in Nat \ {0} /\ S \subseteq 1..L /\ S # {}
    BY <1>1, <1>4
  <2>3. PICK n \in 1..Cardinality(S) : q[n] = i
    BY ONLY <2>2, i \in S, <1>7, <1>8, RoundTrip, ZenonT(40)
  <2> QED BY <1>9, <1>10, <2>1, <2>3
<1>12. ASSUME NEW n \in Rounds PROVE RandSelect(o, st, n) \in Ready(o, st)
  BY <1>1, <1>7, <1>9, <1>10
<1> QED BY <1>11, <1>12

-----------------------------------------------------------------------------
(* The inductive invariant.                                                *)

\* co_yield changes who executes; who waits and who is dead it leaves alone.
LEMMA SwitchStep ==
    ASSUME TypeOK, NEW o \in Seq(Cos), NEW st \in [Everyone -> Statuses],
           Switch(o, st)
    PROVE  /\ status' \in [Everyone -> Statuses]
           /\ current' \in Everyone /\ stuck' \in BOOLEAN
           /\ ~stuck' => status'[current'] = "running"
           /\ \A x \in Everyone :
                /\ status'[x] = "waiting" <=> st[x] = "waiting"
                /\ status'[x] = "dead" <=> st[x] = "dead"
                /\ status'[x] = "new" => st[x] = "new"
<1>1. CASE Ready(o, st) = {}
  BY <1>1 DEF Switch, TypeOK
<1>2. CASE Ready(o, st) # {}
  <2>1. PICK n \in Rounds :
          /\ current' = RandSelect(o, st, n)
          /\ status' = [st EXCEPT ![RandSelect(o, st, n)] = "running"]
          /\ UNCHANGED stuck
    BY <1>2 DEF Switch
  <2>2. n \in Nat
    BY LibcoAssumption DEF Rounds
  <2> DEFINE x == RandSelect(o, st, n)
  <2>3. x \in Ready(o, st)
    BY <1>2, <2>2, PickedReady
  <2>4. Range(Ring(o)) \subseteq Everyone
    <3>1. Range(o) \subseteq Cos
      BY DEF Range
    <3> QED BY <3>1, RingPlaces DEF Everyone
  <2>5. x \in Everyone /\ st[x] \in {"new", "running"}
    BY <2>3, <2>4 DEF Ready, Selectable
  <2> HIDE DEF x
  <2>6. current' = x /\ status' = [st EXCEPT ![x] = "running"] /\ stuck' = stuck
    BY <2>1 DEF x
  <2> QED BY <2>5, <2>6 DEF TypeOK, Statuses
<1> QED BY <1>1, <1>2

LEMMA CoInit == Init => CoInv
<1> SUFFICES ASSUME Init PROVE CoInv
  OBVIOUS
<1>1. TypeOK
  <2>1. <<>> \in Seq(Cos) /\ Main \in Everyone
    BY DEF Everyone
  <2>2. status \in [Everyone -> Statuses]
    BY DEF Init, Statuses
  <2> QED BY <2>1, <2>2 DEF Init, TypeOK
<1>2. ListInv
  BY LibcoAssumption DEF Init, ListInv, Everyone, IsInjective, Range
<1>3. StageInv /\ HoldInv /\ WaitInv
  BY LibcoAssumption DEF Init, StageInv, HoldInv, WaitInv, Everyone
<1> QED BY <1>1, <1>2, <1>3 DEF CoInv

\* The list without a coroutine that is in it.
LEMMA UnlinkedElems ==
    ASSUME CoInv, NEW t \in Range(order)
    PROVE  /\ Unlinked(t) \in Seq(Cos) /\ IsInjective(Unlinked(t))
           /\ Range(Unlinked(t)) = Range(order) \ {t}
<1> DEFINE k == CHOOSE i \in 1..Len(order) : order[i] = t
<1>1. order \in Seq(Cos) /\ IsInjective(order)
  BY DEF CoInv, TypeOK, ListInv
<1>2. \E i \in 1..Len(order) : order[i] = t
  BY <1>1 DEF Range
<1>3. k \in 1..Len(order) /\ order[k] = t
  BY <1>2
<1> HIDE DEF k
<1>4. Unlinked(t) = RemoveAt(order, k)
  BY DEF Unlinked, k
<1> QED BY <1>1, <1>3, <1>4, RemoveElems

LEMMA CoYieldInv ==
    ASSUME CoInv, NEW t \in Everyone, CoYield(t)
    PROVE  CoInv'
<1> USE DEF CoInv
<1>1. UNCHANGED <<order, heap, waiter, pc, target, parent>> /\ Switch(order, status)
  BY DEF CoYield, listVars
<1>2. order \in Seq(Cos) /\ status \in [Everyone -> Statuses]
  BY DEF TypeOK
<1>3. /\ status' \in [Everyone -> Statuses]
      /\ current' \in Everyone /\ stuck' \in BOOLEAN
      /\ ~stuck' => status'[current'] = "running"
      /\ \A x \in Everyone :
           /\ status'[x] = "waiting" <=> status[x] = "waiting"
           /\ status'[x] = "dead" <=> status[x] = "dead"
           /\ status'[x] = "new" => status[x] = "new"
  BY <1>1, <1>2, SwitchStep
<1>4. heap \subseteq Cos /\ Cos \subseteq Everyone /\ Main \in Everyone
  BY DEF TypeOK, Everyone
<1>5. TypeOK'
  BY <1>1, <1>3 DEF TypeOK
<1>6. ListInv'
  BY <1>1, <1>3, <1>4 DEF ListInv
<1>7. StageInv'
  BY <1>1, <1>3, <1>4 DEF StageInv
<1>8. HoldInv'
  BY <1>1, <1>3 DEF HoldInv
<1>9. WaitInv'
  <2>1. \A u \in Everyone : pc[u] = "free" => target[u] \in Everyone
    BY <1>4 DEF HoldInv
  <2>2. \A c \in heap : waiter[c] # None => waiter[c] \in Everyone
    BY <1>4 DEF TypeOK
  <2> QED BY <1>1, <1>3, <1>4, <2>1, <2>2 DEF WaitInv
<1> QED BY <1>5, <1>6, <1>7, <1>8, <1>9

LEMMA CoStartInv ==
    ASSUME CoInv, ~stuck, NEW t \in Everyone, NEW c \in Cos, CoStart(t, c)
    PROVE  CoInv'
<1> USE DEF CoInv
<1>1. /\ c \notin heap /\ heap' = heap \cup {c} /\ order' = Append(order, c)
      /\ status' = [status EXCEPT ![c] = "new"]
      /\ waiter' = [waiter EXCEPT ![c] = None]
      /\ pc' = [pc EXCEPT ![c] = "body"]
      /\ parent' = [parent EXCEPT ![c] = t]
      /\ current' = current /\ target' = target /\ stuck' = stuck
  BY DEF CoStart, WaiterAtStart
<1>2. status[c] = "dead" /\ c \notin Range(order)
  BY <1>1 DEF ListInv
<1>3. /\ Append(order, c) \in Seq(Cos) /\ IsInjective(Append(order, c))
      /\ Range(Append(order, c)) = Range(order) \cup {c}
  BY <1>2, AppendElems DEF TypeOK, ListInv
<1>4. heap \subseteq Cos /\ Cos \subseteq Everyone /\ Main \in Everyone /\ c # Main
  BY LibcoAssumption DEF TypeOK, Everyone
<1>5. TypeOK'
  BY <1>1, <1>3, <1>4 DEF TypeOK, Statuses
<1>6. ListInv'
  BY <1>1, <1>3, <1>4 DEF ListInv, TypeOK
<1>7. StageInv'
  BY <1>1, <1>2, <1>4 DEF StageInv, TypeOK
<1>8. HoldInv'
  BY <1>1, <1>4 DEF HoldInv, TypeOK
<1>9. WaitInv'
  <2>1. ASSUME NEW u \in Everyone, pc'[u] = "free"
        PROVE  u # c /\ pc[u] = "free" /\ target[u] \in heap /\ target[u] # c
    BY <1>1, <1>4, <2>1 DEF HoldInv, TypeOK
  <2>2. \A d \in heap : status[d] # "dead" /\ waiter[d] # None => waiter[d] # c
    BY <1>2 DEF WaitInv
  <2>3. ASSUME NEW u \in Everyone
        PROVE  /\ status'[u] = "waiting" => waiter'[target'[u]] = u
               /\ pc'[u] = "free" =>
                    (status'[u] = "waiting" <=> status'[target'[u]] # "dead")
    <3>1. status'[u] = "waiting" => u # c /\ status[u] = "waiting" /\ pc'[u] = "free"
      BY <1>1, <1>4 DEF StageInv, TypeOK
    <3> QED BY <1>1, <1>4, <2>1, <3>1 DEF WaitInv, TypeOK
  <2>4. ASSUME NEW d \in heap', status'[d] # "dead", waiter'[d] # None
        PROVE  status'[waiter'[d]] = "waiting" /\ target'[waiter'[d]] = d
    <3>1. d # c /\ d \in heap /\ waiter'[d] = waiter[d] /\ status'[d] = status[d]
      BY <1>1, <1>4, <2>4 DEF TypeOK
    <3> QED BY <1>1, <1>4, <2>2, <2>4, <3>1 DEF WaitInv, TypeOK
  <2> QED BY <2>3, <2>4 DEF WaitInv
<1> QED BY <1>5, <1>6, <1>7, <1>8, <1>9

LEMMA CoWaitDeadInv ==
    ASSUME CoInv, ~stuck, NEW t \in Everyone, NEW c \in Cos, CoWaitDead(t, c)
    PROVE  CoInv'
<1> USE DEF CoInv
<1>1. /\ parent[c] = t /\ status[c] = "dead"
      /\ heap' = heap \ {c} /\ parent' = [parent EXCEPT ![c] = None]
      /\ UNCHANGED <<order, status, waiter, current, pc, target, stuck>>
  BY DEF CoWaitDead, Finished
<1>2. t # None /\ heap \subseteq Cos
  BY LibcoAssumption DEF Everyone, TypeOK
<1>3. TypeOK'
  BY <1>1 DEF TypeOK
<1>4. ListInv'
  BY <1>1 DEF ListInv
<1>5. StageInv'
  BY <1>1 DEF StageInv
<1>6. HoldInv'
  BY <1>1, <1>2 DEF HoldInv, TypeOK
<1>7. WaitInv'
  BY <1>1 DEF WaitInv
<1> QED BY <1>3, <1>4, <1>5, <1>6, <1>7

LEMMA CoWaitFreeInv ==
    ASSUME CoInv, ~stuck, NEW t \in Everyone, CoWaitFree(t)
    PROVE  CoInv'
<1> USE DEF CoInv
<1>1. /\ current = t /\ pc[t] = "free" /\ heap' = heap \ {target[t]}
      /\ target' = [target EXCEPT ![t] = None]
      /\ pc' = [pc EXCEPT ![t] = "body"]
      /\ UNCHANGED <<order, status, waiter, current, parent, stuck>>
  BY DEF CoWaitFree
<1>2. status[t] = "running" /\ status[target[t]] = "dead"
  BY <1>1 DEF StageInv, WaitInv
<1>3. TypeOK'
  BY <1>1 DEF TypeOK
<1>4. ListInv'
  BY <1>1, <1>2 DEF ListInv
<1>5. StageInv'
  BY <1>1, <1>2 DEF StageInv, TypeOK
<1>6. HoldInv'
  BY <1>1 DEF HoldInv, TypeOK
<1>7. WaitInv'
  BY <1>1, <1>2 DEF WaitInv, TypeOK
<1> QED BY <1>3, <1>4, <1>5, <1>6, <1>7

LEMMA CoWaitInv ==
    ASSUME CoInv, ~stuck, NEW t \in Everyone, NEW c \in Cos, CoWait(t, c)
    PROVE  CoInv'
<1> USE DEF CoInv
<1> DEFINE st == [status EXCEPT ![t] = "waiting"]
<1>1. /\ current = t /\ parent[c] = t /\ status[c] # "dead"
      /\ waiter' = [waiter EXCEPT ![c] = t]
      /\ Switch(order, st)
      /\ pc' = [pc EXCEPT ![t] = "free"]
      /\ target' = [target EXCEPT ![t] = c]
      /\ parent' = [parent EXCEPT ![c] = None]
      /\ order' = order /\ heap' = heap
  BY DEF CoWait, Finished, listVars
<1>2. /\ heap \subseteq Cos /\ Cos \subseteq Everyone /\ Main \in Everyone
      /\ t # None /\ c \in heap /\ status[t] = "running"
  BY <1>1, LibcoAssumption DEF TypeOK, Everyone, HoldInv, StageInv
<1>3. /\ st \in [Everyone -> Statuses] /\ order \in Seq(Cos)
      /\ \A x \in Everyone : st[x] = IF x = t THEN "waiting" ELSE status[x]
  BY DEF TypeOK, Statuses
<1> HIDE DEF st
<1>4. /\ status' \in [Everyone -> Statuses]
      /\ current' \in Everyone /\ stuck' \in BOOLEAN
      /\ ~stuck' => status'[current'] = "running"
      /\ \A x \in Everyone :
           /\ status'[x] = "waiting" <=> x = t \/ status[x] = "waiting"
           /\ status'[x] = "dead" <=> status[x] = "dead"
           /\ status'[x] = "new" => status[x] = "new" /\ x # t
  BY <1>1, <1>2, <1>3, SwitchStep
<1>5. TypeOK'
  BY <1>1, <1>2, <1>4 DEF TypeOK
<1>6. ListInv'
  BY <1>1, <1>2, <1>4 DEF ListInv
<1>7. StageInv'
  BY <1>1, <1>2, <1>4 DEF StageInv, TypeOK
\* Nobody else holds c.
<1>8. \A u \in Everyone : pc[u] = "free" => target[u] # c /\ target[u] \in heap
  BY <1>1, <1>2 DEF HoldInv
<1>9. HoldInv'
  BY <1>1, <1>2, <1>8 DEF HoldInv, TypeOK
<1>10. WaitInv'
  <2>1. ASSUME NEW u \in Everyone
        PROVE  /\ status'[u] = "waiting" => waiter'[target'[u]] = u
               /\ pc'[u] = "free" =>
                    (status'[u] = "waiting" <=> status'[target'[u]] # "dead")
    <3>1. CASE u = t
      BY <1>1, <1>2, <1>4, <3>1 DEF TypeOK
    <3>2. CASE u # t
      <4>1. target'[u] = target[u] /\ pc'[u] = pc[u]
        BY <1>1, <3>2 DEF TypeOK
      <4>2. status'[u] = "waiting" => status[u] = "waiting" /\ pc[u] = "free"
        BY <1>4, <3>2 DEF StageInv
      <4>3. pc[u] = "free" => target[u] \in Everyone /\ waiter'[target[u]] = waiter[target[u]]
        BY <1>1, <1>2, <1>8 DEF TypeOK
      <4> QED BY <1>4, <3>2, <4>1, <4>2, <4>3 DEF WaitInv
    <3> QED BY <3>1, <3>2
  <2>2. ASSUME NEW d \in heap', status'[d] # "dead", waiter'[d] # None
        PROVE  status'[waiter'[d]] = "waiting" /\ target'[waiter'[d]] = d
    <3>1. CASE d = c
      BY <1>1, <1>2, <1>4, <3>1 DEF TypeOK
    <3>2. CASE d # c
      <4>1. d \in heap /\ d \in Everyone /\ waiter'[d] = waiter[d] /\ status[d] # "dead"
        BY <1>1, <1>2, <1>4, <2>2, <3>2 DEF TypeOK
      <4>2. waiter[d] \in Everyone /\ status[waiter[d]] = "waiting" /\ target[waiter[d]] = d
        BY <2>2, <4>1 DEF WaitInv, TypeOK
      <4>3. waiter[d] # t
        BY <1>2, <4>2
      <4> QED BY <1>1, <1>4, <4>1, <4>2, <4>3 DEF TypeOK
    <3> QED BY <3>1, <3>2
  <2> QED BY <2>1, <2>2 DEF WaitInv
<1> QED BY <1>5, <1>6, <1>7, <1>9, <1>10

LEMMA FinishInv ==
    ASSUME CoInv, ~stuck, NEW t \in Everyone, Finish(t)
    PROVE  CoInv'
<1> USE DEF CoInv
<1> DEFINE w == waiter[t]
           st == [x \in Everyone \cup Woken(t) |->
                    IF x \in Woken(t) THEN "running"
                    ELSE IF x = t THEN "dead" ELSE status[x]]
<1>1. /\ current = t /\ t # Main
      /\ order' = Unlinked(t) /\ Switch(Unlinked(t), st)
      /\ pc' = [pc EXCEPT ![t] = "end"]
      /\ parent' = [c \in Cos |-> IF parent[c] = t THEN None ELSE parent[c]]
      /\ UNCHANGED <<heap, waiter, target>>
  BY DEF Finish
<1>2. /\ heap \subseteq Cos /\ Cos \subseteq Everyone /\ Main \in Everyone
      /\ t \in Cos /\ t # None /\ status[t] = "running" /\ t \in heap
      /\ t \in Range(order)
  BY <1>1, LibcoAssumption DEF TypeOK, Everyone, StageInv, ListInv
\* The waiter, if there is one, waits for t.
<1>3. w # None => w \in Everyone /\ w # t /\ status[w] = "waiting" /\ target[w] = t
  BY <1>2 DEF WaitInv, TypeOK
<1>4. Woken(t) = IF w = None THEN {} ELSE {w}
  BY DEF Woken
<1>5. Everyone \cup Woken(t) = Everyone
  BY <1>3, <1>4
<1>6. st = [x \in Everyone |-> IF w # None /\ x = w THEN "running"
                               ELSE IF x = t THEN "dead" ELSE status[x]]
  BY <1>4, <1>5
<1> HIDE DEF st
<1>7. /\ st \in [Everyone -> Statuses]
      /\ \A x \in Everyone : st[x] = IF w # None /\ x = w THEN "running"
                                     ELSE IF x = t THEN "dead" ELSE status[x]
  BY <1>6 DEF TypeOK, Statuses
<1>8. /\ Unlinked(t) \in Seq(Cos) /\ IsInjective(Unlinked(t))
      /\ Range(Unlinked(t)) = Range(order) \ {t}
  BY <1>2, UnlinkedElems
<1>9. /\ status' \in [Everyone -> Statuses]
      /\ current' \in Everyone /\ stuck' \in BOOLEAN
      /\ ~stuck' => status'[current'] = "running"
      /\ \A x \in Everyone :
           /\ status'[x] = "waiting" <=> status[x] = "waiting" /\ (w = None \/ x # w)
           /\ status'[x] = "dead" <=> status[x] = "dead" \/ x = t
           /\ status'[x] = "new" => status[x] = "new"
  <2>1. /\ status' \in [Everyone -> Statuses]
        /\ current' \in Everyone /\ stuck' \in BOOLEAN
        /\ ~stuck' => status'[current'] = "running"
        /\ \A x \in Everyone :
             /\ status'[x] = "waiting" <=> st[x] = "waiting"
             /\ status'[x] = "dead" <=> st[x] = "dead"
             /\ status'[x] = "new" => st[x] = "new"
    BY <1>1, <1>7, <1>8, SwitchStep
  <2> QED BY <1>2, <1>3, <1>7, <2>1
<1>10. TypeOK'
  BY <1>1, <1>2, <1>8, <1>9 DEF TypeOK
<1>11. ListInv'
  BY <1>1, <1>2, <1>8, <1>9 DEF ListInv
<1>12. StageInv'
  BY <1>1, <1>2, <1>9 DEF StageInv, TypeOK
<1>13. HoldInv'
  BY <1>1, <1>2 DEF HoldInv, TypeOK
<1>14. WaitInv'
  <2>1. ASSUME NEW u \in Everyone
        PROVE  /\ status'[u] = "waiting" => waiter'[target'[u]] = u
               /\ pc'[u] = "free" =>
                    (status'[u] = "waiting" <=> status'[target'[u]] # "dead")
    <3>1. status'[u] = "waiting" => waiter'[target'[u]] = u
      BY <1>1, <1>9 DEF WaitInv
    <3>2. ASSUME pc'[u] = "free"
          PROVE  status'[u] = "waiting" <=> status'[target'[u]] # "dead"
      <4>1. u # t /\ pc[u] = "free"
        BY <1>1, <3>2 DEF TypeOK
      <4>2. target[u] \in Everyone /\ (status[u] = "waiting" <=> status[target[u]] # "dead")
        BY <1>2, <4>1 DEF HoldInv, WaitInv
      <4>3. target[u] = t => u = w
        <5>1. ASSUME target[u] = t PROVE u = w
          <6>1. status[u] = "waiting"
            BY <1>2, <4>2, <5>1
          <6> QED BY <5>1, <6>1 DEF WaitInv
        <5> QED BY <5>1
      <4>4. u = w => target[u] = t
        BY <1>3, LibcoAssumption DEF Everyone
      <4>5. w = None => u # w
        BY LibcoAssumption DEF Everyone
      <4> QED BY <1>1, <1>9, <4>2, <4>3, <4>4, <4>5
    <3> QED BY <3>1, <3>2
  <2>2. ASSUME NEW d \in heap', status'[d] # "dead", waiter'[d] # None
        PROVE  status'[waiter'[d]] = "waiting" /\ target'[waiter'[d]] = d
    <3>1. d \in heap /\ d \in Everyone /\ d # t /\ status[d] # "dead"
      BY <1>1, <1>2, <1>9, <2>2
    <3>2. waiter[d] \in Everyone /\ status[waiter[d]] = "waiting" /\ target[waiter[d]] = d
      BY <1>1, <2>2, <3>1 DEF WaitInv, TypeOK
    <3>3. w = None \/ waiter[d] # w
      BY <1>3, <3>1, <3>2
    <3> QED BY <1>1, <1>9, <3>2, <3>3
  <2> QED BY <2>1, <2>2 DEF WaitInv
<1> QED BY <1>10, <1>11, <1>12, <1>13, <1>14

LEMMA CoNext == CoInv /\ [Next]_vars => CoInv'
<1> SUFFICES ASSUME CoInv, [Next]_vars PROVE CoInv'
  OBVIOUS
<1>1. CASE UNCHANGED vars
  BY <1>1 DEF vars, listVars, CoInv, TypeOK, ListInv, StageInv, HoldInv, WaitInv
<1>2. ASSUME NEW t \in Everyone, CoYield(t) PROVE CoInv'
  BY <1>2, CoYieldInv
<1>3. ASSUME NEW t \in Everyone, ~stuck, NEW c \in Cos, CoStart(t, c) PROVE CoInv'
  BY <1>3, CoStartInv
<1>4. ASSUME NEW t \in Everyone, ~stuck, NEW c \in Cos, CoWaitDead(t, c) PROVE CoInv'
  BY <1>4, CoWaitDeadInv
<1>5. ASSUME NEW t \in Everyone, ~stuck, NEW c \in Cos, CoWait(t, c) PROVE CoInv'
  BY <1>5, CoWaitInv
<1>6. ASSUME NEW t \in Everyone, ~stuck, CoWaitFree(t) PROVE CoInv'
  BY <1>6, CoWaitFreeInv
<1>7. ASSUME NEW t \in Everyone, ~stuck, Finish(t) PROVE CoInv'
  BY <1>7, FinishInv
<1> QED BY <1>1, <1>2, <1>3, <1>4, <1>5, <1>6, <1>7 DEF Next

LEMMA CoInvariant == Spec => []CoInv
BY CoInit, CoNext, PTL DEF Spec

-----------------------------------------------------------------------------
(* The properties.                                                         *)

\* Every reachable state of the coroutine list is well typed.
THEOREM CoTypeCorrect == Spec => []TypeOK
<1>1. CoInv => TypeOK
  BY DEF CoInv
<1> QED BY <1>1, CoInvariant, PTL

\* Whatever is started, waited for and returns, in any order, the list of co.c
\* holds what has not returned, once, and nothing that was freed.
THEOREM CoListExact == Spec => []ListExact
<1>1. CoInv => ListExact
  <2> SUFFICES ASSUME CoInv PROVE ListExact
    OBVIOUS
  <2>1. Range(order) = {c \in heap : status[c] # "dead"}
    BY DEF CoInv, ListInv, TypeOK
  <2>2. Len(order) = Cardinality(Range(order))
    BY ListCard DEF CoInv, ListInv, TypeOK
  <2> QED BY <2>1, <2>2 DEF ListExact
<1> QED BY <1>1, CoInvariant, PTL

\* co_wait: no wakeup is lost and none is for somebody else.
THEOREM CoWaitersExact == Spec => []WaitersExact
<1>1. CoInv => WaitersExact
  BY DEF CoInv, StageInv, WaitInv, WaitersExact
<1> QED BY <1>1, CoInvariant, PTL

\* co_wait frees only what has returned, and never the stack it runs on.
THEOREM CoFreesOnlyDead == Spec => FreesOnlyDead
<1> DEFINE OnlyDead == \A c \in heap \ heap' : status[c] = "dead" /\ c # current
<1>1. CoInv /\ [Next]_vars => [OnlyDead]_vars
  <2> SUFFICES ASSUME CoInv, [Next]_vars PROVE OnlyDead
    OBVIOUS
  <2>1. ~stuck => status[current] = "running"
    BY DEF CoInv, StageInv
  <2>2. CASE heap \subseteq heap'
    BY <2>2
  <2>3. ASSUME NEW t \in Everyone, ~stuck, NEW c \in Cos, CoWaitDead(t, c) PROVE OnlyDead
    BY <2>1, <2>3 DEF CoWaitDead, Finished
  <2>4. ASSUME NEW t \in Everyone, ~stuck, CoWaitFree(t) PROVE OnlyDead
    <3>1. current = t /\ pc[t] = "free" /\ heap' = heap \ {target[t]}
      BY <2>4 DEF CoWaitFree
    <3>2. status[target[t]] = "dead"
      BY <2>1, <2>4, <3>1 DEF CoInv, WaitInv
    <3> QED BY <2>1, <2>4, <3>1, <3>2
  <2>5. \/ heap \subseteq heap'
        \/ \E t \in Everyone : ~stuck /\ CoWaitFree(t)
        \/ \E t \in Everyone, c \in Cos : ~stuck /\ CoWaitDead(t, c)
    BY DEF Next, vars, listVars, CoYield, CoStart, CoWait, Finish
  <2> QED BY <2>2, <2>3, <2>4, <2>5
<1> QED BY <1>1, CoInvariant, PTL DEF Spec, FreesOnlyDead

\* rand_select: whoever is ready is picked for one of the numbers that rand()
\* may give, for any list and any statuses.
THEOREM CoAllCanBePicked == Spec => []AllCanBePicked
<1>1. CoInv => AllCanBePicked
  BY EachPicked DEF CoInv, TypeOK, ListInv, AllCanBePicked
<1> QED BY <1>1, CoInvariant, PTL
=============================================================================
