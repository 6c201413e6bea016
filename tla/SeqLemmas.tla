----------------------------- MODULE SeqLemmas -----------------------------
(***************************************************************************)
(* What the list operations of the kernel (insert at the tail, take the    *)
(* head, take the tail, unlink) do to the set of elements of a list        *)
(* without repetitions, and induction over sets of numbers.                *)
(***************************************************************************)
EXTENDS Integers, Sequences, SequencesExt, SequenceTheorems,
        FunctionTheorems, FiniteSetTheorems, WellFoundedInduction, TLAPS

\* Inserting at the tail (tasks_enque_lk) adds one element, and repeats none
\* that was not there.
LEMMA AppendElems ==
    ASSUME NEW S, NEW q \in Seq(S), NEW x \in S
    PROVE  /\ Append(q, x) \in Seq(S)
           /\ Range(Append(q, x)) = Range(q) \cup {x}
           /\ IsInjective(q) /\ x \notin Range(q) => IsInjective(Append(q, x))
<1> DEFINE r == Append(q, x)
<1>1. /\ r \in Seq(S) /\ Len(r) = Len(q) + 1
      /\ \A i \in 1..Len(q) : r[i] = q[i]
      /\ r[Len(q) + 1] = x
  OBVIOUS
<1>2. Len(q) \in Nat /\ DOMAIN q = 1..Len(q) /\ DOMAIN r = 1..(Len(q) + 1)
  BY <1>1
<1>3. \A i \in 1..(Len(q) + 1) : i = Len(q) + 1 \/ i \in 1..Len(q)
  BY <1>2
<1>4. Range(r) = Range(q) \cup {x}
  <2>1. ASSUME NEW y \in Range(r) PROVE y \in Range(q) \cup {x}
    BY <1>1, <1>2, <1>3 DEF Range
  <2>2. ASSUME NEW y \in Range(q) PROVE y \in Range(r)
    BY <1>1, <1>2 DEF Range
  <2>3. x \in Range(r)
    BY <1>1, <1>2 DEF Range
  <2> QED BY <2>1, <2>2, <2>3
<1>5. IsInjective(q) /\ x \notin Range(q) => IsInjective(r)
  BY <1>1, <1>2, <1>3 DEF Range, IsInjective
<1> QED BY <1>1, <1>4, <1>5

\* Taking the head (tasks_deque_ulk) removes exactly the head.
LEMMA TailElems ==
    ASSUME NEW S, NEW q \in Seq(S), q # <<>>
    PROVE  /\ Head(q) \in Range(q) /\ Head(q) \in S
           /\ Tail(q) \in Seq(S)
           /\ IsInjective(q) => /\ Range(Tail(q)) = Range(q) \ {Head(q)}
                                /\ IsInjective(Tail(q))
<1> DEFINE r == Tail(q)
<1>1. /\ r \in Seq(S) /\ Len(r) = Len(q) - 1 /\ Len(q) \in Nat /\ Len(q) > 0
      /\ \A i \in 1..(Len(q) - 1) : r[i] = q[i + 1]
      /\ Head(q) = q[1]
  OBVIOUS
<1>2. DOMAIN q = 1..Len(q) /\ DOMAIN r = 1..(Len(q) - 1)
  BY <1>1
<1>3. \A i \in 1..Len(q) : i # 1 => i - 1 \in 1..(Len(q) - 1) /\ q[i] = r[i - 1]
  BY <1>1
<1>4. \A i \in 1..(Len(q) - 1) : i + 1 \in 1..Len(q)
  BY <1>1
<1>5. Head(q) \in Range(q) /\ Head(q) \in S
  BY <1>1, <1>2 DEF Range
<1>6. ASSUME IsInjective(q) PROVE Range(r) = Range(q) \ {Head(q)}
  <2>1. ASSUME NEW y \in Range(r) PROVE y \in Range(q) /\ y # Head(q)
    <3>1. PICK i \in 1..(Len(q) - 1) : y = r[i]
      BY <1>2 DEF Range
    <3>2. y = q[i + 1] /\ i + 1 \in 1..Len(q) /\ 1 \in 1..Len(q) /\ i + 1 # 1
      BY <1>1, <1>4, <3>1
    <3> QED BY <1>1, <1>2, <1>6, <3>2 DEF Range, IsInjective
  <2>2. ASSUME NEW y \in Range(q), y # Head(q) PROVE y \in Range(r)
    <3>1. PICK i \in 1..Len(q) : y = q[i]
      BY <1>2 DEF Range
    <3>2. i # 1
      BY <1>1, <2>2, <3>1
    <3> QED BY <1>2, <1>3, <3>1, <3>2 DEF Range
  <2> QED BY <2>1, <2>2
<1>7. ASSUME IsInjective(q) PROVE IsInjective(r)
  BY <1>1, <1>2, <1>4, <1>7 DEF IsInjective
<1> QED BY <1>1, <1>5, <1>6, <1>7

\* Taking the tail (kmt_sem_signal) removes exactly the last element.
LEMMA FrontElems ==
    ASSUME NEW S, NEW q \in Seq(S), q # <<>>
    PROVE  /\ Last(q) \in Range(q) /\ Last(q) \in S
           /\ Front(q) \in Seq(S) /\ Len(Front(q)) = Len(q) - 1
           /\ Range(Front(q)) \subseteq Range(q)
           /\ IsInjective(q) => /\ Range(Front(q)) = Range(q) \ {Last(q)}
                                /\ IsInjective(Front(q))
<1> DEFINE r == Front(q)
<1>1. Len(q) \in Nat /\ Len(q) > 0
  OBVIOUS
<1>2. DOMAIN q = 1..Len(q) /\ Len(q) \in 1..Len(q)
  BY <1>1
<1>3. /\ r \in Seq(S) /\ Len(r) = Len(q) - 1
      /\ \A i \in 1..(Len(q) - 1) : r[i] = q[i]
  <2>1. 1 \in Int /\ Len(q) - 1 \in Int /\ \A i \in 1..(Len(q) - 1) : q[i] \in S
    BY <1>1
  <2>2. /\ r \in Seq(S)
        /\ Len(r) = IF 1 <= Len(q) - 1 THEN (Len(q) - 1) - 1 + 1 ELSE 0
        /\ \A i \in 1..((Len(q) - 1) - 1 + 1) : r[i] = q[1 + i - 1]
    BY <2>1, SubSeqProperties DEF Front
  <2> HIDE DEF r
  <2>3. (IF 1 <= Len(q) - 1 THEN (Len(q) - 1) - 1 + 1 ELSE 0) = Len(q) - 1
    <3>1. \A n \in Nat : n > 0 => (IF 1 <= n - 1 THEN (n - 1) - 1 + 1 ELSE 0) = n - 1
      OBVIOUS
    <3> QED BY <1>1, <3>1
  <2>4. (Len(q) - 1) - 1 + 1 = Len(q) - 1
    BY <1>1
  <2>5. \A i \in 1..(Len(q) - 1) : 1 + i - 1 = i
    BY <1>1
  <2> QED BY <2>2, <2>3, <2>4, <2>5
<1>4. DOMAIN r = 1..(Len(q) - 1)
  BY <1>1, <1>3
<1>5. Last(q) \in Range(q) /\ Last(q) \in S /\ Last(q) = q[Len(q)]
  BY <1>2 DEF Last, Range
<1>6. \A i : i \in 1..(Len(q) - 1) <=> i \in 1..Len(q) /\ i # Len(q)
  BY <1>1
<1>9. Range(r) \subseteq Range(q)
  BY <1>2, <1>3, <1>4, <1>6 DEF Range
<1>7. ASSUME IsInjective(q) PROVE Range(r) = Range(q) \ {Last(q)}
  <2>1. ASSUME NEW y \in Range(r) PROVE y \in Range(q) /\ y # Last(q)
    <3>1. PICK i \in 1..(Len(q) - 1) : y = q[i]
      BY <1>3, <1>4 DEF Range
    <3> QED BY <1>2, <1>5, <1>6, <1>7, <3>1 DEF Range, IsInjective
  <2>2. ASSUME NEW y \in Range(q), y # Last(q) PROVE y \in Range(r)
    <3>1. PICK i \in 1..Len(q) : y = q[i]
      BY <1>2 DEF Range
    <3>2. i \in 1..(Len(q) - 1) /\ y = r[i]
      BY <1>3, <1>5, <1>6, <2>2, <3>1
    <3> QED BY <1>4, <3>2 DEF Range
  <2> QED BY <2>1, <2>2
<1>8. ASSUME IsInjective(q) PROVE IsInjective(r)
  BY <1>2, <1>3, <1>4, <1>6, <1>8 DEF IsInjective
<1> QED BY <1>3, <1>5, <1>7, <1>8, <1>9

\* What unlinking the k-th element leaves at every position.
LEMMA RemoveIndex ==
    ASSUME NEW S, NEW q \in Seq(S), NEW k \in 1..Len(q)
    PROVE  /\ RemoveAt(q, k) \in Seq(S) /\ Len(RemoveAt(q, k)) = Len(q) - 1
           /\ \A i \in 1..(Len(q) - 1) :
                RemoveAt(q, k)[i] = IF i < k THEN q[i] ELSE q[i + 1]
<1> DEFINE r == RemoveAt(q, k)
           a1 == SubSeq(q, 1, k - 1)
           a2 == SubSeq(q, k + 1, Len(q))
           L == Len(q)
<1>0. L \in Nat /\ L > 0 /\ k \in Nat /\ 1 <= k /\ k <= L
  OBVIOUS
<1>1. DOMAIN q = 1..L
  OBVIOUS
<1>2. /\ a1 \in Seq(S) /\ Len(a1) = k - 1
      /\ \A i \in 1..(k - 1) : a1[i] = q[i]
  BY <1>0
<1>2a. /\ a2 \in Seq(S) /\ Len(a2) = L - k
       /\ \A i \in 1..(L - k) : a2[i] = q[k + i]
  BY <1>0
<1>2b. r = a1 \o a2
  BY DEF RemoveAt
<1> HIDE DEF a1, a2, r
<1>2c. /\ r \in Seq(S) /\ Len(r) = Len(a1) + Len(a2)
       /\ \A i \in 1..(Len(a1) + Len(a2)) :
             r[i] = IF i <= Len(a1) THEN a1[i] ELSE a2[i - Len(a1)]
  BY <1>2, <1>2a, <1>2b, ConcatProperties
<1>3. /\ r \in Seq(S) /\ Len(r) = L - 1
      /\ \A i \in 1..(L - 1) : r[i] = IF i < k THEN q[i] ELSE q[i + 1]
  <2>1. r \in Seq(S) /\ Len(r) = L - 1
    BY <1>0, <1>2, <1>2a, <1>2c
  <2>2. ASSUME NEW i \in 1..(L - 1), i < k PROVE r[i] = q[i]
    <3>1. i \in 1..(k - 1) /\ i \in 1..(Len(a1) + Len(a2)) /\ i <= Len(a1)
      BY <1>0, <1>2, <1>2a, <2>2
    <3> QED BY <1>2, <1>2c, <3>1
  <2>3. ASSUME NEW i \in 1..(L - 1), ~(i < k) PROVE r[i] = q[i + 1]
    <3>1. r[i] = a2[i - (k - 1)]
      BY <1>0, <1>2, <1>2a, <1>2c, <2>3
    <3>2. i - (k - 1) \in 1..(L - k) /\ k + (i - (k - 1)) = i + 1
      BY <1>0, <2>3
    <3> QED BY <1>2a, <3>1, <3>2
  <2> QED BY <2>1, <2>2, <2>3
<1> QED BY <1>3 DEF r

\* Unlinking an element (tasks_throw_lk) removes exactly that element.
LEMMA RemoveElems ==
    ASSUME NEW S, NEW q \in Seq(S), NEW k \in 1..Len(q), IsInjective(q)
    PROVE  /\ RemoveAt(q, k) \in Seq(S)
           /\ Range(RemoveAt(q, k)) = Range(q) \ {q[k]}
           /\ IsInjective(RemoveAt(q, k))
<1> DEFINE r == RemoveAt(q, k)
           L == Len(q)
<1>0. L \in Nat /\ L > 0 /\ k \in Nat /\ 1 <= k /\ k <= L
  OBVIOUS
<1>1. DOMAIN q = 1..L
  OBVIOUS
<1>3. /\ r \in Seq(S) /\ Len(r) = L - 1
      /\ \A i \in 1..(L - 1) : r[i] = IF i < k THEN q[i] ELSE q[i + 1]
  BY RemoveIndex
<1> HIDE DEF r
<1>4. DOMAIN r = 1..(L - 1)
  BY <1>0, <1>3
<1>5. \A i \in 1..(L - 1) : /\ i < k => i \in 1..L /\ i # k
                            /\ ~(i < k) => i + 1 \in 1..L /\ i + 1 # k
  BY <1>0
<1>6. \A i \in 1..L : /\ i < k => i \in 1..(L - 1) /\ r[i] = q[i]
                      /\ i > k => i - 1 \in 1..(L - 1) /\ r[i - 1] = q[i]
  BY <1>0, <1>3
<1>7. Range(r) = Range(q) \ {q[k]}
  <2>1. ASSUME NEW y \in Range(r) PROVE y \in Range(q) /\ y # q[k]
    BY <1>1, <1>3, <1>4, <1>5 DEF Range, IsInjective
  <2>2. ASSUME NEW y \in Range(q), y # q[k] PROVE y \in Range(r)
    <3>1. PICK i \in 1..L : y = q[i] /\ i # k
      BY <1>1, <2>2 DEF Range
    <3>2. i < k \/ i > k
      BY <1>0, <3>1
    <3> QED BY <1>4, <1>6, <3>1, <3>2 DEF Range
  <2> QED BY <2>1, <2>2
<1>8. IsInjective(r)
  <2> SUFFICES ASSUME NEW a \in 1..(L - 1), NEW b \in 1..(L - 1), r[a] = r[b]
               PROVE  a = b
    BY <1>4 DEF IsInjective
  <2>1. CASE a < k /\ b < k
    BY <1>1, <1>3, <1>5, <2>1 DEF IsInjective
  <2>2. CASE a < k /\ ~(b < k)
    <3>1. q[a] = q[b + 1] /\ a \in 1..L /\ b + 1 \in 1..L
      BY <1>3, <1>5, <2>2
    <3>2. a # b + 1
      BY <1>0, <2>2
    <3> QED BY <1>1, <3>1, <3>2 DEF IsInjective
  <2>3. CASE ~(a < k) /\ b < k
    <3>1. q[a + 1] = q[b] /\ a + 1 \in 1..L /\ b \in 1..L
      BY <1>3, <1>5, <2>3
    <3>2. a + 1 # b
      BY <1>0, <2>3
    <3> QED BY <1>1, <3>1, <3>2 DEF IsInjective
  <2>4. CASE ~(a < k) /\ ~(b < k)
    <3>1. q[a + 1] = q[b + 1] /\ a + 1 \in 1..L /\ b + 1 \in 1..L
      BY <1>3, <1>5, <2>4
    <3>2. a + 1 = b + 1
      BY <1>1, <3>1 DEF IsInjective
    <3> QED BY <1>0, <3>2
  <2> QED BY <2>1, <2>2, <2>3, <2>4
<1>9. /\ r \in Seq(S)
      /\ Range(r) = Range(q) \ {q[k]}
      /\ IsInjective(r)
  BY <1>3, <1>7, <1>8
<1> QED BY <1>9 DEF r

\* What inserting x before the k-th element leaves at every position.
LEMMA InsertIndex ==
    ASSUME NEW S, NEW q \in Seq(S), NEW k \in 1..(Len(q) + 1), NEW x \in S
    PROVE  /\ InsertAt(q, k, x) \in Seq(S) /\ Len(InsertAt(q, k, x)) = Len(q) + 1
           /\ \A i \in 1..(Len(q) + 1) :
                InsertAt(q, k, x)[i] = IF i < k THEN q[i]
                                       ELSE IF i = k THEN x ELSE q[i - 1]
<1> DEFINE r == InsertAt(q, k, x)
           a1 == SubSeq(q, 1, k - 1)
           a2 == SubSeq(q, k, Len(q))
           b == a1 \o <<x>>
           L == Len(q)
<1>0. L \in Nat /\ k \in Nat /\ 1 <= k /\ k <= L + 1
  OBVIOUS
<1>1. /\ a1 \in Seq(S) /\ Len(a1) = k - 1
      /\ \A i \in 1..(k - 1) : a1[i] = q[i]
  BY <1>0
<1>2. /\ a2 \in Seq(S) /\ Len(a2) = L - k + 1
      /\ \A i \in 1..(L - k + 1) : a2[i] = q[k + i - 1]
  BY <1>0
<1>3. r = b \o a2
  BY DEF InsertAt
<1> HIDE DEF a1, a2
<1>4. b \in Seq(S) /\ Len(b) = k /\ b[k] = x /\ \A i \in 1..(k - 1) : b[i] = a1[i]
  BY <1>0, <1>1
<1> HIDE DEF b, r
<1>5. /\ r \in Seq(S) /\ Len(r) = Len(b) + Len(a2)
      /\ \A i \in 1..(Len(b) + Len(a2)) :
            r[i] = IF i <= Len(b) THEN b[i] ELSE a2[i - Len(b)]
  BY <1>2, <1>3, <1>4, ConcatProperties
<1>6. Len(r) = L + 1
  BY <1>0, <1>2, <1>4, <1>5
<1>7. ASSUME NEW i \in 1..(L + 1), i < k PROVE r[i] = q[i]
  BY <1>0, <1>1, <1>2, <1>4, <1>5, <1>7
<1>8. r[k] = x
  BY <1>0, <1>2, <1>4, <1>5
<1>9. ASSUME NEW i \in 1..(L + 1), i > k PROVE r[i] = q[i - 1]
  <2>1. r[i] = a2[i - k]
    BY <1>0, <1>2, <1>4, <1>5, <1>9
  <2>2. i - k \in 1..(L - k + 1) /\ k + (i - k) - 1 = i - 1
    BY <1>0, <1>9
  <2> QED BY <1>2, <2>1, <2>2
<1>10. \A i \in 1..(L + 1) : i < k \/ i = k \/ i > k
  BY <1>0
<1>11. /\ r \in Seq(S) /\ Len(r) = L + 1
       /\ \A i \in 1..(L + 1) :
             r[i] = IF i < k THEN q[i] ELSE IF i = k THEN x ELSE q[i - 1]
  BY <1>0, <1>5, <1>6, <1>7, <1>8, <1>9, <1>10
<1> QED BY <1>11 DEF r

\* Inserting an element (free_wp) adds exactly that element.
LEMMA InsertElems ==
    ASSUME NEW S, NEW q \in Seq(S), NEW k \in 1..(Len(q) + 1), NEW x \in S,
           IsInjective(q), x \notin Range(q)
    PROVE  /\ Range(InsertAt(q, k, x)) = Range(q) \cup {x}
           /\ IsInjective(InsertAt(q, k, x))
<1> DEFINE r == InsertAt(q, k, x)
           L == Len(q)
<1>0. L \in Nat /\ k \in Nat /\ 1 <= k /\ k <= L + 1
  OBVIOUS
<1>1. DOMAIN q = 1..L /\ \A i \in 1..L : q[i] # x
  BY DEF Range
<1>2. /\ r \in Seq(S) /\ Len(r) = L + 1
      /\ \A i \in 1..(L + 1) :
            r[i] = IF i < k THEN q[i] ELSE IF i = k THEN x ELSE q[i - 1]
  <2>1. \A j \in 1..(Len(q) + 1) :
           /\ InsertAt(q, j, x) \in Seq(S) /\ Len(InsertAt(q, j, x)) = Len(q) + 1
           /\ \A i \in 1..(Len(q) + 1) :
                InsertAt(q, j, x)[i] = IF i < j THEN q[i]
                                       ELSE IF i = j THEN x ELSE q[i - 1]
    BY InsertIndex
  <2> QED BY <2>1
<1> HIDE DEF r
<1>3. DOMAIN r = 1..(L + 1)
  BY <1>0, <1>2
<1>4. \A i \in 1..(L + 1) : /\ i < k => i \in 1..L
                            /\ i > k => i - 1 \in 1..L
  BY <1>0
<1>5. \A i \in 1..L : /\ i < k => i \in 1..(L + 1) /\ r[i] = q[i]
                      /\ ~(i < k) => i + 1 \in 1..(L + 1) /\ r[i + 1] = q[i]
  BY <1>0, <1>2
<1>6. Range(r) = Range(q) \cup {x}
  <2>1. ASSUME NEW y \in Range(r) PROVE y \in Range(q) \cup {x}
    <3>1. PICK i \in 1..(L + 1) : y = r[i]
      BY <1>3 DEF Range
    <3>2. i < k \/ i = k \/ i > k
      BY <1>0
    <3> QED BY <1>0, <1>1, <1>2, <1>4, <3>1, <3>2 DEF Range
  <2>2. ASSUME NEW y \in Range(q) PROVE y \in Range(r)
    BY <1>1, <1>3, <1>5 DEF Range
  <2>3. x \in Range(r)
    BY <1>0, <1>2, <1>3 DEF Range
  <2> QED BY <2>1, <2>2, <2>3
<1>7. IsInjective(r)
  <2> SUFFICES ASSUME NEW i \in 1..(L + 1), NEW j \in 1..(L + 1), r[i] = r[j]
               PROVE  i = j
    BY <1>3 DEF IsInjective
  <2>1. i = k => r[i] = x
    BY <1>2
  <2>2. j = k => r[j] = x
    BY <1>2
  <2>3. i < k => i \in 1..L /\ r[i] = q[i]
    BY <1>2, <1>4
  <2>4. i > k => i - 1 \in 1..L /\ r[i] = q[i - 1]
    BY <1>0, <1>2, <1>4
  <2>5. j < k => j \in 1..L /\ r[j] = q[j]
    BY <1>2, <1>4
  <2>6. j > k => j - 1 \in 1..L /\ r[j] = q[j - 1]
    BY <1>0, <1>2, <1>4
  <2>7. i = k <=> j = k
    BY <1>0, <1>1, <2>1, <2>2, <2>3, <2>4, <2>5, <2>6
  <2>8. \A a, b \in 1..L : q[a] = q[b] => a = b
    BY <1>1 DEF IsInjective
  <2> QED BY <1>0, <2>3, <2>4, <2>5, <2>6, <2>7, <2>8
<1> QED BY <1>6, <1>7 DEF r

\* A list that repeats nothing is as long as its set of elements.
LEMMA ListCard ==
    ASSUME NEW S, NEW s \in Seq(S), IsInjective(s)
    PROVE  IsFiniteSet(Range(s)) /\ Cardinality(Range(s)) = Len(s)
<1>1. Len(s) \in Nat /\ DOMAIN s = 1..Len(s) /\ s \in [1..Len(s) -> Range(s)]
  BY DEF Range
<1>2. \A a, b \in 1..Len(s) : s[a] = s[b] => a = b
  BY <1>1 DEF IsInjective
<1>3. \A y \in Range(s) : \E i \in 1..Len(s) : s[i] = y
  BY <1>1 DEF Range
<1>4. s \in Bijection(1..Len(s), Range(s))
  BY <1>1, <1>2, <1>3, Fun_IsBij
<1>5. ExistsBijection(1..Len(s), Range(s))
  BY <1>4, Fun_ExistsBij
<1>6. IsFiniteSet(1..Len(s))
  BY <1>1, FS_Interval
<1> QED BY <1>1, <1>5, <1>6, FS_CountingElements, FS_Bijection

-----------------------------------------------------------------------------
(* Numbers.  Induction is over a set of numbers, by its least element, as  *)
(* the provers have no use for a theorem with an operator as parameter.    *)

\* Every set of naturals that is not empty has a least element.
LEMMA Least ==
    ASSUME NEW S, S \subseteq Nat, S # {}
    PROVE  \E m \in S : \A k \in S : m <= k
<1> DEFINE R == OpToRel(<, Nat)
<1>1. IsWellFoundedOn(R, Nat)
  BY NatLessThanWellFounded
<1>2. PICK m \in S : \A k \in S : ~(<<k, m>> \in R)
  <2> HIDE DEF R
  <2> QED BY <1>1, WFMin
<1>3. ASSUME NEW k \in S PROVE m <= k
  <2>1. k \in Nat /\ m \in Nat
    OBVIOUS
  <2>2. ~(k < m)
    BY <1>2, <2>1 DEF OpToRel
  <2> QED BY <2>1, <2>2
<1> QED BY <1>3

\* A set of naturals up to n has a greatest one.
LEMMA Greatest ==
    ASSUME NEW n \in Nat, NEW S, S \subseteq 0..n, S # {}
    PROVE  \E m \in S : \A k \in S : k <= m
<1> DEFINE T == {n - k : k \in S}
<1>1. T \subseteq Nat /\ T # {}
  OBVIOUS
<1>2. PICK x \in T : \A y \in T : x <= y
  BY <1>1, Least
<1>3. PICK m \in S : x = n - m
  OBVIOUS
<1>4. ASSUME NEW k \in S PROVE k <= m
  <2>1. n - k \in T /\ k \in Int /\ m \in Int
    OBVIOUS
  <2>2. n - m <= n - k
    BY <1>2, <1>3, <2>1
  <2> QED BY <2>1, <2>2
<1> QED BY <1>4

\* Induction: a set that holds 0, and n + 1 with every n, holds the naturals.
LEMMA NatSet ==
    ASSUME NEW P, 0 \in P, \A n \in Nat : n \in P => n + 1 \in P
    PROVE  Nat \subseteq P
<1>1. SUFFICES ASSUME Nat \ P # {} PROVE FALSE
  OBVIOUS
<1>2. PICK m \in Nat \ P : \A k \in Nat \ P : m <= k
  BY <1>1, Least
<1>3. m # 0 /\ m - 1 \in Nat /\ ~(m <= m - 1)
  OBVIOUS
<1>4. m - 1 \in P
  BY <1>2, <1>3
<1>5. (m - 1) + 1 \in P
  BY <1>3, <1>4
<1> QED BY <1>3, <1>5
============================================================================
