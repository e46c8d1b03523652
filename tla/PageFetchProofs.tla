--------------------------- MODULE PageFetchProofs ---------------------------
(***************************************************************************)
(* Lemmas about what the pages are built from, for the proofs of their      *)
(* modules: sequences, the filter and the stable sort of Listing, and the   *)
(* steps of a fetch.                                                        *)
(***************************************************************************)
EXTENDS PageFetch, Listing, SequenceTheorems, FiniteSetTheorems,
        WellFoundedInduction, TLAPS

-----------------------------------------------------------------------------
(* Sequences.                                                              *)

\* What is in a sequence.
LEMMA Listed ==
  ASSUME NEW R, NEW s \in Seq(R), NEW i \in DOMAIN s
  PROVE  s[i] \in R
BY ElementOfSeq

\* A sequence whose elements are replaced.
LEMMA Replaced ==
  ASSUME NEW R, NEW s \in Seq(R), NEW t, t = [i \in DOMAIN s |-> t[i]],
         \A i \in DOMAIN s : t[i] \in R
  PROVE  t \in Seq(R) /\ DOMAIN t = DOMAIN s
<1>1. t \in [1..Len(s) -> R]
  OBVIOUS
<1> QED
  BY <1>1

\* The sequences of at most n elements.
LEMMA Bounded ==
  ASSUME NEW R, NEW n \in Nat
  PROVE  \A s : s \in BoundedSeq(R, n) <=> s \in Seq(R) /\ Len(s) <= n
<1> SUFFICES ASSUME NEW s PROVE s \in BoundedSeq(R, n) <=> s \in Seq(R) /\ Len(s) <= n
  OBVIOUS
<1>1. BoundedSeq(R, n) = UNION {[1..m -> R] : m \in 0..n}
  BY DEF BoundedSeq, SeqOf
<1>2. ASSUME s \in Seq(R), Len(s) <= n
      PROVE  s \in UNION {[1..m -> R] : m \in 0..n}
  <2>1. Len(s) \in 0..n /\ s \in [1..Len(s) -> R]
    BY <1>2, LenProperties
  <2> QED
    BY <2>1
<1>3. ASSUME s \in UNION {[1..m -> R] : m \in 0..n}
      PROVE  s \in Seq(R) /\ Len(s) <= n
  <2>1. PICK m \in 0..n : s \in [1..m -> R]
    BY <1>3
  <2> QED
    BY <2>1
<1> QED
  BY <1>1, <1>2, <1>3

\* A sequence without its element i.
LEMMA Removed ==
  ASSUME NEW R, NEW s \in Seq(R), NEW i \in DOMAIN s
  PROVE  /\ RemoveAt(s, i) \in Seq(R)
         /\ DOMAIN RemoveAt(s, i) = 1..(Len(s) - 1)
         /\ \A g \in 1..(Len(s) - 1) :
               /\ (IF g < i THEN g ELSE g + 1) \in DOMAIN s
               /\ RemoveAt(s, i)[g] = s[IF g < i THEN g ELSE g + 1]
<1> DEFINE a == SubSeq(s, 1, i - 1)
           b == SubSeq(s, i + 1, Len(s))
<1>1. RemoveAt(s, i) = a \o b
  BY DEF RemoveAt
<1>2. /\ i \in 1..Len(s) /\ Len(s) \in Nat /\ DOMAIN s = 1..Len(s)
      /\ a \in Seq(R) /\ Len(a) = i - 1 /\ \A g \in 1..Len(a) : a[g] = s[g]
      /\ b \in Seq(R) /\ Len(b) = Len(s) - i /\ \A g \in 1..Len(b) : b[g] = s[i + g]
  OBVIOUS
<1> HIDE DEF a, b
<1>3. /\ a \o b \in Seq(R) /\ Len(a \o b) = Len(a) + Len(b)
      /\ \A g \in 1..(Len(a) + Len(b)) :
            (a \o b)[g] = IF g <= Len(a) THEN a[g] ELSE b[g - Len(a)]
  BY <1>2, ConcatProperties
<1>4. Len(a) + Len(b) = Len(s) - 1 /\ DOMAIN (a \o b) = 1..(Len(s) - 1)
  <2>1. Len(a) + Len(b) = Len(s) - 1
    BY <1>2
  <2> QED
    BY <1>3, <2>1, LenProperties
<1>5. ASSUME NEW g \in 1..(Len(s) - 1)
      PROVE  /\ (IF g < i THEN g ELSE g + 1) \in DOMAIN s
             /\ (a \o b)[g] = s[IF g < i THEN g ELSE g + 1]
  <2>1. g \in Nat /\ 1 <= g /\ g <= Len(s) - 1 /\ i \in Nat /\ 1 <= i /\ i <= Len(s)
    BY <1>2
  <2>2. CASE g < i
    <3>1. g \in 1..Len(a) /\ g <= Len(a)
      BY <1>2, <2>1, <2>2
    <3>2. (a \o b)[g] = a[g]
      BY <1>3, <1>4, <3>1
    <3> QED
      BY <1>2, <2>1, <2>2, <3>1, <3>2
  <2>3. CASE ~(g < i)
    <3>1. ~(g <= Len(a)) /\ g - Len(a) \in 1..Len(b) /\ i + (g - Len(a)) = g + 1
      BY <1>2, <2>1, <2>3
    <3>2. (a \o b)[g] = b[g - Len(a)]
      BY <1>3, <1>4, <3>1
    <3>3. b[g - Len(a)] = s[g + 1]
      BY <1>2, <3>1
    <3> QED
      BY <1>2, <2>1, <2>3, <3>2, <3>3
  <2> QED
    BY <2>2, <2>3
<1> QED
  BY <1>1, <1>3, <1>4, <1>5

-----------------------------------------------------------------------------
(* Filter and sort.                                                        *)

\* Induction over the naturals, for sets.
LEMMA Induction ==
  ASSUME NEW X, 0 \in X, \A n \in Nat : n \in X => n + 1 \in X
  PROVE  Nat \subseteq X
<1> DEFINE T == Nat \ X
<1> SUFFICES ASSUME T # {} PROVE FALSE
  OBVIOUS
<1>1. \A k, m \in Nat : <<k, m>> \in OpToRel(<, Nat) <=> k < m
  BY Zenon DEF OpToRel
<1>2. PICK m \in T : \A k \in T : ~(k < m)
  <2>1. \E m \in T : \A k \in T : ~(<<k, m>> \in OpToRel(<, Nat))
    <3>1. T \subseteq Nat
      OBVIOUS
    <3> HIDE DEF T
    <3> QED
      BY <3>1, NatLessThanWellFounded, WFMin, Zenon
  <2> QED
    BY <1>1, <2>1, T \subseteq Nat, Zenon
<1>3. m \in Nat /\ m # 0
  OBVIOUS
<1>4. m - 1 \in Nat /\ m - 1 < m /\ (m - 1) + 1 = m
  BY <1>3
<1>5. m - 1 \in X
  BY <1>2, <1>4
<1> QED
  BY <1>3, <1>4, <1>5

\* There are n numbers up to n.
LEMMA UpTo ==
  ASSUME NEW n \in Nat
  PROVE  IsFiniteSet(1..n) /\ Cardinality(1..n) = n
<1>1. /\ IsFiniteSet(1..n)
      /\ Cardinality(1..n) = IF 1 > n THEN 0 ELSE n - 1 + 1
  BY FS_Interval
<1> QED
  BY <1>1

\* A stable sort puts every index in a place of its own.
LEMMA Places ==
  ASSUME NEW I \in SUBSET Nat, IsFiniteSet(I), NEW key \in [I -> Int]
  PROVE  LET place == [i \in I |-> Cardinality(Before(I, key, i)) + 1]
         IN  /\ Cardinality(I) \in Nat
             /\ place \in [I -> 1..Cardinality(I)]
             /\ \A i, j \in I : i \in Before(I, key, j) => place[i] < place[j]
             /\ \A i, j \in I : place[i] = place[j] => i = j
             /\ \A n \in 1..Cardinality(I) : \E i \in I : place[i] = n
<1> DEFINE B(i) == Before(I, key, i)
           place == [i \in I |-> Cardinality(B(i)) + 1]
<1>1. \A i \in I : B(i) \subseteq I /\ i \notin B(i)
  BY DEF Before
<1>2. Cardinality(I) \in Nat
  BY FS_CardinalityType
<1>3. ASSUME NEW i \in I
      PROVE  IsFiniteSet(B(i)) /\ Cardinality(B(i)) \in Nat /\ Cardinality(B(i)) < Cardinality(I)
  <2>1. B(i) \in SUBSET I /\ B(i) # I
    BY <1>1
  <2>2. IsFiniteSet(B(i)) /\ Cardinality(B(i)) <= Cardinality(I) /\ Cardinality(I) # Cardinality(B(i))
    BY <2>1, FS_Subset
  <2>3. Cardinality(B(i)) \in Nat
    BY <2>2, FS_CardinalityType
  <2> QED
    BY <2>2, <2>3, <1>2
<1>4. place \in [I -> 1..Cardinality(I)]
  <2>1. ASSUME NEW i \in I PROVE Cardinality(B(i)) + 1 \in 1..Cardinality(I)
    BY <1>2, <1>3
  <2> QED
    BY <2>1
<1>5. ASSUME NEW i \in I, NEW j \in I, i \in B(j)
      PROVE  place[i] < place[j]
  <2>1. B(i) \subseteq B(j)
    <3> SUFFICES ASSUME NEW k \in I, key[k] < key[i] \/ (key[k] = key[i] /\ k < i)
                 PROVE  key[k] < key[j] \/ (key[k] = key[j] /\ k < j)
      BY DEF Before
    <3>1. key[i] < key[j] \/ (key[i] = key[j] /\ i < j)
      BY <1>5 DEF Before
    <3>2. key[i] \in Int /\ key[j] \in Int /\ key[k] \in Int /\ i \in Int /\ j \in Int /\ k \in Int
      OBVIOUS
    <3> QED
      BY <3>1, <3>2
  <2>2. B(i) \in SUBSET B(j) /\ B(i) # B(j)
    BY <1>1, <1>5, <2>1
  <2>3. Cardinality(B(i)) <= Cardinality(B(j)) /\ Cardinality(B(j)) # Cardinality(B(i))
    <3> HIDE DEF B
    <3> QED
      BY <1>3, <2>2, FS_Subset
  <2>4. place[i] = Cardinality(B(i)) + 1 /\ place[j] = Cardinality(B(j)) + 1
    OBVIOUS
  <2> HIDE DEF B, place
  <2> QED
    BY <2>3, <2>4, <1>3
<1>6. ASSUME NEW i \in I, NEW j \in I, place[i] = place[j]
      PROVE  i = j
  <2> SUFFICES ASSUME i # j PROVE FALSE
    OBVIOUS
  <2>1. i \in B(j) \/ j \in B(i)
    <3>1. key[i] \in Int /\ key[j] \in Int /\ i \in Int /\ j \in Int
      OBVIOUS
    <3> QED
      BY <3>1 DEF Before
  <2>2. place[i] < place[j] \/ place[j] < place[i]
    BY <1>5, <2>1
  <2>3. place[i] \in Int
    BY <1>4, <1>2
  <2> HIDE DEF place
  <2> QED
    BY <2>2, <2>3, <1>6
<1>7. \A n \in 1..Cardinality(I) : \E i \in I : place[i] = n
  <2>1. place \in Injection(I, 1..Cardinality(I))
    BY <1>4, <1>6 DEF Injection, IsInjective
  <2>2. IsFiniteSet(1..Cardinality(I)) /\ Cardinality(1..Cardinality(I)) = Cardinality(I)
    BY <1>2, UpTo
  <2>3. place \in Surjection(I, 1..Cardinality(I))
    BY <2>1, <2>2, FS_Injection
  <2> QED
    BY <2>3 DEF Surjection
<1> QED
  BY <1>2, <1>4, <1>5, <1>6, <1>7

\* The indices I in the order of a stable sort by key.
Ordering(I, key) ==
    [n \in 1..Cardinality(I) |-> CHOOSE i \in I : Cardinality(Before(I, key, i)) = n - 1]

\* What a filter and a stable sort return: the chosen elements, each once, in
\* the order of the sort.
LEMMA Ordered ==
  ASSUME NEW R, NEW s \in Seq(R), NEW I \in SUBSET DOMAIN s, NEW key \in [I -> Int]
  PROVE  /\ Arranged(s, I, key) \in Seq(R)
         /\ Len(Arranged(s, I, key)) = Cardinality(I)
         /\ Ordering(I, key) \in [1..Cardinality(I) -> I]
         /\ \A n \in 1..Cardinality(I) : Arranged(s, I, key)[n] = s[Ordering(I, key)[n]]
         /\ {Ordering(I, key)[n] : n \in 1..Cardinality(I)} = I
         /\ \A m, n \in 1..Cardinality(I) :
               m < n => Ordering(I, key)[m] \in Before(I, key, Ordering(I, key)[n])
<1> DEFINE place == [i \in I |-> Cardinality(Before(I, key, i)) + 1]
           order == [n \in 1..Cardinality(I) |->
                        CHOOSE i \in I : Cardinality(Before(I, key, i)) = n - 1]
<1>0. Ordering(I, key) = order
  BY DEF Ordering
<1>1. I \in SUBSET Nat /\ IsFiniteSet(I)
  <2>1. DOMAIN s = 1..Len(s) /\ Len(s) \in Nat
    OBVIOUS
  <2>2. IsFiniteSet(1..Len(s))
    BY <2>1, FS_Interval
  <2> QED
    BY <2>1, <2>2, FS_Subset
<1>2. /\ Cardinality(I) \in Nat
      /\ place \in [I -> 1..Cardinality(I)]
      /\ \A i, j \in I : i \in Before(I, key, j) => place[i] < place[j]
      /\ \A i, j \in I : place[i] = place[j] => i = j
      /\ \A n \in 1..Cardinality(I) : \E i \in I : place[i] = n
  BY <1>1, Places
<1>3. ASSUME NEW n \in 1..Cardinality(I)
      PROVE  order[n] \in I /\ place[order[n]] = n
  <2>1. \E i \in I : Cardinality(Before(I, key, i)) = n - 1
    <3>1. PICK i \in I : place[i] = n
      BY <1>2
    <3>2. Cardinality(Before(I, key, i)) + 1 = n
      BY <3>1
    <3>3. Cardinality(Before(I, key, i)) \in Nat
      BY <1>1, FS_Subset, FS_CardinalityType DEF Before
    <3> QED
      BY <3>2, <3>3, <1>2
  <2>2. order[n] = CHOOSE i \in I : Cardinality(Before(I, key, i)) = n - 1
    OBVIOUS
  <2>3. order[n] \in I /\ Cardinality(Before(I, key, order[n])) = n - 1
    BY <2>1, <2>2
  <2>4. place[order[n]] = (n - 1) + 1
    BY <2>3
  <2> QED
    BY <2>3, <2>4, <1>2
<1>4. order \in [1..Cardinality(I) -> I]
  BY <1>3
<1>5. Arranged(s, I, key) = [n \in 1..Cardinality(I) |-> s[order[n]]]
  BY DEF Arranged
<1>6. \A i \in I : \E n \in 1..Cardinality(I) : order[n] = i
  <2> SUFFICES ASSUME NEW i \in I PROVE order[place[i]] = i
    BY <1>2
  <2>1. place[i] \in 1..Cardinality(I)
    BY <1>2
  <2> HIDE DEF place, order
  <2> QED
    BY <1>2, <1>3, <2>1
<1>7. ASSUME NEW m \in 1..Cardinality(I), NEW n \in 1..Cardinality(I), m < n
      PROVE  order[m] \in Before(I, key, order[n])
  <2> HIDE DEF place, order
  <2>1. order[m] \in I /\ order[n] \in I /\ order[m] # order[n]
    BY <1>2, <1>3, <1>7
  <2>2. order[m] \in Before(I, key, order[n]) \/ order[n] \in Before(I, key, order[m])
    <3>1. /\ key[order[m]] \in Int /\ key[order[n]] \in Int
          /\ order[m] \in Int /\ order[n] \in Int
      BY <1>1, <2>1
    <3> QED
      BY <2>1, <3>1 DEF Before
  <2>3. order[n] \notin Before(I, key, order[m])
    BY <1>2, <1>3, <1>7, <2>1
  <2> QED
    BY <2>2, <2>3
<1>8. Arranged(s, I, key) \in [1..Cardinality(I) -> R]
  <2>1. \A n \in 1..Cardinality(I) : s[order[n]] \in R
    <3> HIDE DEF order
    <3> QED
      BY <1>4, ElementOfSeq
  <2> QED
    BY <1>5, <2>1
<1>9. Arranged(s, I, key) \in Seq(R) /\ Len(Arranged(s, I, key)) = Cardinality(I)
  <2> HIDE DEF place, order
  <2> QED
    BY <1>2, <1>8
<1>10. \A n \in 1..Cardinality(I) : Arranged(s, I, key)[n] = s[order[n]]
  <2> HIDE DEF order
  <2> QED
    BY <1>5
<1> HIDE DEF place, order
<1>11. {order[n] : n \in 1..Cardinality(I)} = I
  BY <1>4, <1>6
<1> QED
  BY <1>0, <1>4, <1>7, <1>9, <1>10, <1>11

\* The same, of an order.
LEMMA ArrangedElements ==
  ASSUME NEW R, NEW s \in Seq(R), NEW I \in SUBSET DOMAIN s, NEW key \in [I -> Int]
  PROVE  /\ Arranged(s, I, key) \in Seq(R)
         /\ Len(Arranged(s, I, key)) = Cardinality(I)
         /\ \E order \in [1..Cardinality(I) -> I] :
               /\ \A n \in 1..Cardinality(I) : Arranged(s, I, key)[n] = s[order[n]]
               /\ \A i \in I : \E n \in 1..Cardinality(I) : order[n] = i
               /\ \A m, n \in 1..Cardinality(I) : m < n => order[m] \in Before(I, key, order[n])
<1> DEFINE order == Ordering(I, key)
<1>1. /\ Arranged(s, I, key) \in Seq(R)
      /\ Len(Arranged(s, I, key)) = Cardinality(I)
      /\ order \in [1..Cardinality(I) -> I]
      /\ \A n \in 1..Cardinality(I) : Arranged(s, I, key)[n] = s[order[n]]
      /\ {order[n] : n \in 1..Cardinality(I)} = I
      /\ \A m, n \in 1..Cardinality(I) : m < n => order[m] \in Before(I, key, order[n])
  BY Ordered
<1> HIDE DEF order
<1> QED
  BY <1>1

-----------------------------------------------------------------------------
(* Folds.                                                                  *)

\* g folds the subsets of S, an element picked at a time.
Folds(g, S, base, pick, h) ==
    \A s \in SUBSET S : g[s] = IF s = {} THEN base ELSE h[pick[s]][g[s \ {pick[s]}]]

\* What there is to fold: the elements of S, in the order of pick, with values in A.
Foldable(S, A, base, pick, h) ==
    /\ IsFiniteSet(S) /\ base \in A /\ h \in [S -> [A -> A]]
    /\ \A s \in SUBSET S : s # {} => pick[s] \in s

\* There is a function that folds a finite set, an element picked at a time.
LEMMA FoldsExist ==
  ASSUME NEW S, NEW A, NEW base, NEW pick, NEW h, Foldable(S, A, base, pick, h)
  PROVE  \E g \in [SUBSET S -> A] : Folds(g, S, base, pick, h)
<1> DEFINE Upto(n) == {s \in SUBSET S : Cardinality(s) <= n}
           Eq(g, s) == g[s] = IF s = {} THEN base ELSE h[pick[s]][g[s \ {pick[s]}]]
           X == {n \in Nat : \E g \in [Upto(n) -> A] : \A s \in Upto(n) : Eq(g, s)}
<1>0. /\ IsFiniteSet(S) /\ base \in A /\ h \in [S -> [A -> A]]
      /\ \A s \in SUBSET S : s # {} => pick[s] \in s
  BY DEF Foldable
<1>1. \A s \in SUBSET S : IsFiniteSet(s) /\ Cardinality(s) \in Nat /\ Cardinality(s) <= Cardinality(S)
  BY <1>0, FS_Subset, FS_CardinalityType
<1>2. \A s \in SUBSET S : s # {} => /\ s \ {pick[s]} \in SUBSET S
                                    /\ Cardinality(s \ {pick[s]}) = Cardinality(s) - 1
  BY <1>0, <1>1, FS_RemoveElement
<1>3. 0 \in X
  <2>1. ASSUME NEW s \in Upto(0) PROVE s = {}
    <3>1. Cardinality(s) = 0
      BY <1>1
    <3> QED
      BY <1>1, <3>1, FS_EmptySet
  <2>2. [s \in Upto(0) |-> base] \in [Upto(0) -> A]
    BY <1>0
  <2>3. \A s \in Upto(0) : Eq([r \in Upto(0) |-> base], s)
    BY <2>1
  <2> HIDE DEF Upto, Eq
  <2> QED
    BY <2>2, <2>3
<1>4. ASSUME NEW n \in Nat, n \in X PROVE n + 1 \in X
  <2>1. PICK g \in [Upto(n) -> A] : \A s \in Upto(n) : Eq(g, s)
    BY <1>4
  <2> DEFINE f == [s \in Upto(n + 1) |->
                      IF s = {} THEN base ELSE h[pick[s]][g[s \ {pick[s]}]]]
  <2>2. \A s \in Upto(n + 1) : s # {} => s \ {pick[s]} \in Upto(n) /\ pick[s] \in S
    BY <1>0, <1>1, <1>2
  <2>3. \A s \in Upto(n) : s \in Upto(n + 1)
    BY <1>1
  <2>4. f \in [Upto(n + 1) -> A]
    <3>1. \A s \in Upto(n + 1) :
             (IF s = {} THEN base ELSE h[pick[s]][g[s \ {pick[s]}]]) \in A
      <4> HIDE DEF Upto
      <4>1. \A s \in Upto(n + 1) : s # {} => g[s \ {pick[s]}] \in A
        BY <2>1, <2>2
      <4> QED
        BY <1>0, <2>2, <4>1
    <3> HIDE DEF Upto
    <3> QED
      BY <3>1
  <2>5. \A s \in Upto(n) : f[s] = g[s]
    <3> HIDE DEF Upto
    <3> QED
      BY <2>1, <2>3
  <2>6. \A s \in Upto(n + 1) : Eq(f, s)
    <3> SUFFICES ASSUME NEW s \in Upto(n + 1) PROVE Eq(f, s)
      OBVIOUS
    <3> HIDE DEF Upto
    <3>1. f[s] = IF s = {} THEN base ELSE h[pick[s]][g[s \ {pick[s]}]]
      OBVIOUS
    <3> HIDE DEF f
    <3>2. s # {} => f[s \ {pick[s]}] = g[s \ {pick[s]}]
      BY <2>2, <2>5
    <3> QED
      BY <3>1, <3>2
  <2>7. n + 1 \in Nat
    OBVIOUS
  <2> HIDE DEF Upto, Eq, f
  <2> QED
    BY <2>4, <2>6, <2>7
<1>5. Nat \subseteq X
  <2> HIDE DEF X
  <2> QED
    BY <1>3, <1>4, Induction
<1>6. Cardinality(S) \in X
  BY <1>0, <1>5, FS_CardinalityType
<1>7. Upto(Cardinality(S)) = SUBSET S
  BY <1>1
<1> HIDE DEF Upto, Eq
<1>8. PICK g \in [SUBSET S -> A] : \A s \in SUBSET S : Eq(g, s)
  BY <1>6, <1>7
<1> QED
  BY <1>8 DEF Eq, Folds

\* A finite set of numbers has a largest one, if it has any.
LEMMA Largest ==
  ASSUME NEW s, IsFiniteSet(s), s # {}, \A x \in s : x \in Nat
  PROVE  \E x \in s : \A y \in s : x >= y
<1> DEFINE X == {n \in Nat : \A r \in SUBSET s : r # {} /\ Cardinality(r) <= n =>
                                \E x \in r : \A y \in r : x >= y}
<1>1. \A r \in SUBSET s : IsFiniteSet(r) /\ Cardinality(r) \in Nat
  BY FS_Subset, FS_CardinalityType
<1>2. 0 \in X
  <2>1. \A r \in SUBSET s : Cardinality(r) <= 0 => r = {}
    BY <1>1, FS_EmptySet
  <2> QED
    BY <2>1
<1>3. ASSUME NEW n \in Nat, n \in X PROVE n + 1 \in X
  <2> SUFFICES ASSUME NEW r \in SUBSET s, r # {}, Cardinality(r) <= n + 1
               PROVE  \E x \in r : \A y \in r : x >= y
    OBVIOUS
  <2>1. PICK z \in r : TRUE
    OBVIOUS
  <2>2. r \ {z} \in SUBSET s /\ Cardinality(r \ {z}) <= n
    BY <1>1, FS_RemoveElement
  <2>3. CASE r \ {z} = {}
    BY <2>3
  <2>4. CASE r \ {z} # {}
    <3>1. PICK x \in r \ {z} : \A y \in r \ {z} : x >= y
      BY <1>3, <2>2, <2>4
    <3>2. x \in Nat /\ z \in Nat /\ \A y \in r : y \in Nat
      OBVIOUS
    <3>3. CASE x >= z
      BY <3>1, <3>3
    <3>4. CASE ~(x >= z)
      <4>1. \A y \in r : z >= y
        BY <3>1, <3>2, <3>4
      <4> QED
        BY <4>1
    <3> QED
      BY <3>3, <3>4
  <2> QED
    BY <2>3, <2>4
<1>4. Nat \subseteq X
  <2> HIDE DEF X
  <2> QED
    BY <1>2, <1>3, Induction
<1> QED
  BY <1>1, <1>4

-----------------------------------------------------------------------------
(* Pages.                                                                  *)

\* The pages of size z of a sequence, concatenated, are the sequence, if there
\* are enough of them and none is empty but a single one.
LEMMA PagesFlatten ==
  ASSUME NEW R, NEW s \in Seq(R), NEW z \in Nat \ {0}, NEW n \in Nat \ {0},
         Len(s) <= n * z, n = 1 \/ (n - 1) * z < Len(s),
         NEW p, p = [i \in 1..n |->
                        SubSeq(s, (i - 1) * z + 1,
                               IF i * z < Len(s) THEN i * z ELSE Len(s))]
  PROVE  FlattenSeq(p) = s
<1> DEFINE upto(i) == IF i * z < Len(s) THEN i * z ELSE Len(s)
           head == [i \in 1..n |-> SubSeq(s, 1, upto(i))]
           step(g) == [i \in 1..n |-> IF i = 1 THEN p[i] ELSE g[i - 1] \o p[i]]
           found == CHOOSE g : g = step(g)
<1>1. Len(s) \in Nat
  OBVIOUS
<1>2. \A a, b \in Nat : a <= b => a * z <= b * z /\ a * z \in Nat
  OBVIOUS
<1>3. ASSUME NEW i \in 1..n
      PROVE  /\ upto(i) \in 0..Len(s) /\ (i - 1) * z \in 0..upto(i)
             /\ i > 1 => upto(i - 1) = (i - 1) * z
             /\ p[i] = SubSeq(s, (i - 1) * z + 1, upto(i))
  <2>1. i * z \in Nat /\ (i - 1) * z \in Nat /\ (i - 1) * z <= i * z
    BY <1>2
  <2>2. (i - 1) * z <= Len(s) /\ (i > 1 => (i - 1) * z < Len(s))
    <3>1. CASE i = 1
      BY <1>1, <3>1
    <3>2. CASE i > 1
      <4>1. (i - 1) * z <= (n - 1) * z /\ n # 1
        BY <1>2, <3>2
      <4>2. (n - 1) * z \in Nat /\ (n - 1) * z < Len(s)
        BY <1>2, <4>1
      <4> QED
        BY <1>1, <2>1, <4>1, <4>2
    <3> QED
      BY <3>1, <3>2
  <2>3. upto(i) \in 0..Len(s) /\ (i - 1) * z \in 0..upto(i)
    BY <1>1, <2>1, <2>2
  <2>4. i > 1 => upto(i - 1) = (i - 1) * z
    BY <2>2
  <2>5. p[i] = SubSeq(s, (i - 1) * z + 1, upto(i))
    OBVIOUS
  <2> HIDE DEF upto
  <2> QED
    BY <2>3, <2>4, <2>5
<1>4. \A i \in 1..n : i # 1 => head[i - 1] \o p[i] = head[i]
  <2> SUFFICES ASSUME NEW i \in 1..n, i # 1 PROVE head[i - 1] \o p[i] = head[i]
    OBVIOUS
  <2>1. i - 1 \in 1..n /\ i > 1
    OBVIOUS
  <2>2. head[i - 1] = SubSeq(s, 1, (i - 1) * z) /\ head[i] = SubSeq(s, 1, upto(i))
    BY <1>3, <2>1
  <2>3. p[i] = SubSeq(s, (i - 1) * z + 1, upto(i))
    BY <1>3
  <2> DEFINE k == (i - 1) * z
             m == upto(i)
  <2>4. m \in 0..Len(s) /\ k \in 0..m
    BY <1>3
  <2> HIDE DEF k, m
  <2>5. 1 \in 1..Len(s) + 1 /\ k \in (1 - 1)..Len(s) /\ m \in k..Len(s)
    BY <1>1, <2>4
  <2>6. SubSeq(s, 1, k) \o SubSeq(s, k + 1, m) = SubSeq(s, 1, m)
    BY <2>5, ConcatAdjacentSubSeq
  <2> QED
    BY <2>2, <2>3, <2>6 DEF k, m
<1>5. p[1] = head[1]
  <2>1. 1 \in 1..n /\ (1 - 1) * z + 1 = 1
    OBVIOUS
  <2>2. p[1] = SubSeq(s, (1 - 1) * z + 1, upto(1)) /\ head[1] = SubSeq(s, 1, upto(1))
    <3> HIDE DEF upto
    <3> QED
      BY <1>3, <2>1
  <2> HIDE DEF upto, head
  <2> QED
    BY <2>1, <2>2
<1>6. head = step(head)
  <2> HIDE DEF upto
  <2>1. \A i \in 1..n : head[i] = IF i = 1 THEN p[i] ELSE head[i - 1] \o p[i]
    BY <1>4, <1>5
  <2>2. head = [i \in 1..n |-> head[i]]
    OBVIOUS
  <2> HIDE DEF head
  <2> QED
    BY <2>1, <2>2
<1>7. found = step(found)
  <2> HIDE DEF head, step
  <2> QED
    BY <1>6, Zenon
<1>8. found[n] = head[n]
  <2> HIDE DEF head, found, upto
  <2> DEFINE X == {i \in Nat : i + 1 \in 1..n => found[i + 1] = head[i + 1]}
  <2>0. \A i \in 1..n : found[i] = IF i = 1 THEN p[i] ELSE found[i - 1] \o p[i]
    BY <1>7
  <2>1. 0 \in X
    BY <1>5, <2>0
  <2>2. ASSUME NEW i \in Nat, i \in X PROVE i + 1 \in X
    <3> SUFFICES ASSUME (i + 1) + 1 \in 1..n
                 PROVE  found[(i + 1) + 1] = head[(i + 1) + 1]
      OBVIOUS
    <3>1. i + 1 \in 1..n /\ (i + 1) + 1 # 1 /\ ((i + 1) + 1) - 1 = i + 1
      OBVIOUS
    <3>2. found[(i + 1) + 1] = found[i + 1] \o p[(i + 1) + 1]
      BY <2>0, <3>1
    <3>3. head[(i + 1) + 1] = head[i + 1] \o p[(i + 1) + 1]
      BY <1>4, <3>1
    <3>4. found[i + 1] = head[i + 1]
      BY <2>2, <3>1
    <3> QED
      BY <3>2, <3>3, <3>4
  <2>3. Nat \subseteq X
    <3> HIDE DEF X
    <3> QED
      BY <2>1, <2>2, Induction
  <2>4. n - 1 \in X /\ (n - 1) + 1 = n
    BY <2>3
  <2> QED
    BY <2>4
<1>9. head[n] = s
  <2>1. upto(n) = Len(s)
    BY <1>1, <1>2
  <2>2. head[n] = SubSeq(s, 1, Len(s))
    BY <2>1
  <2> QED
    BY <2>2, SubSeqFull
<1>10. FlattenSeq(p) = found[n]
  <2>1. Len(p) = n /\ n # 0
    <3>1. DOMAIN p = 1..n /\ p = [i \in 1..n |-> p[i]]
      OBVIOUS
    <3> QED
      BY <3>1
  <2>2. FlattenSeq(p) = (CHOOSE g : g = [i \in 1..Len(p) |->
                           IF i = 1 THEN p[i] ELSE g[i - 1] \o p[i]])[Len(p)]
    BY <2>1, Zenon DEF FlattenSeq
  <2>3. (CHOOSE g : g = [i \in 1..Len(p) |-> IF i = 1 THEN p[i] ELSE g[i - 1] \o p[i]]) = found
    BY <2>1, Zenon
  <2> HIDE DEF found
  <2> QED
    BY <2>1, <2>2, <2>3, Zenon
<1> QED
  BY <1>8, <1>9, <1>10, Zenon

-----------------------------------------------------------------------------
(* The steps of a fetch.                                                   *)

Fetch(Tags) == [tag : Tags, answered : BOOLEAN, at : 0..version, late : BOOLEAN]

\* The place of a fetch before fetch f left.
PlaceBefore(f, g) == IF g < f THEN g ELSE g + 1

\* A fetch that is started.
LEMMA Started ==
  ASSUME NEW Tags, FetchTypeOK(Tags), NEW tag \in Tags, StartFetch(tag),
         UNCHANGED <<version, shown, stale>>
  PROVE  /\ FetchTypeOK(Tags)' /\ flight' # <<>>
         /\ DOMAIN flight' = 1..(Len(flight) + 1)
         /\ flight'[Len(flight) + 1].tag = tag
         /\ \A g \in DOMAIN flight : flight'[g] = flight[g]
         /\ \A v : Covered(flight', shown', stale', v)
<1>1. /\ flight \in Seq(Fetch(Tags)) /\ version \in Nat /\ DOMAIN flight = 1..Len(flight)
      /\ Len(flight) \in Nat
  BY BoundsAssumption DEF FetchTypeOK, Fetch
<1>2. NewFetch(tag) \in Fetch(Tags) /\ ~NewFetch(tag).answered /\ NewFetch(tag).tag = tag
  BY <1>1 DEF NewFetch, Fetch
<1>3. flight' = Append(flight, NewFetch(tag)) /\ loading' = TRUE
  BY DEF StartFetch
<1>4. /\ flight' \in Seq(Fetch(Tags)) /\ DOMAIN flight' = 1..(Len(flight) + 1)
      /\ flight'[Len(flight) + 1] = NewFetch(tag)
      /\ \A g \in DOMAIN flight : flight'[g] = flight[g]
      /\ flight' # <<>>
  BY <1>1, <1>2, <1>3
<1>5. FetchTypeOK(Tags)'
  BY <1>3, <1>4 DEF FetchTypeOK, Fetch
<1>6. ASSUME NEW v PROVE Covered(flight', shown', stale', v)
  <2>1. Len(flight) + 1 \in DOMAIN flight' /\ Brings(flight'[Len(flight) + 1], v)
    BY <1>1, <1>2, <1>4 DEF Brings
  <2>2. \A f \in DOMAIN flight' : f = Len(flight) + 1 \/ f < Len(flight) + 1
    BY <1>1, <1>4
  <2> QED
    BY <2>1, <2>2 DEF Covered
<1> QED
  BY <1>2, <1>4, <1>5, <1>6

\* A fetch that the server answers, with what it has then.
LEMMA Answered ==
  ASSUME NEW Tags, FetchTypeOK(Tags), NEW f \in DOMAIN flight, ServerAnswers(f),
         UNCHANGED <<version, loading, shown, stale>>
  PROVE  /\ FetchTypeOK(Tags)' /\ DOMAIN flight' = DOMAIN flight
         /\ \A g \in DOMAIN flight : flight'[g].tag = flight[g].tag
         /\ \A v \in 0..version : Covered(flight, shown, stale, v)
                                    => Covered(flight', shown', stale', v)
<1>1. flight \in Seq(Fetch(Tags)) /\ version \in Nat
  BY BoundsAssumption DEF FetchTypeOK, Fetch
<1>2. flight' = [flight EXCEPT ![f].answered = TRUE, ![f].at = version]
  BY DEF ServerAnswers
<1>3. \A g \in DOMAIN flight : flight[g] \in Fetch(Tags)
  BY <1>1, Listed
<1>4. ASSUME NEW g \in DOMAIN flight
      PROVE  /\ flight'[g] \in Fetch(Tags)
             /\ flight'[g].tag = flight[g].tag /\ flight'[g].late = flight[g].late
             /\ \A v \in 0..version : Brings(flight[g], v) => Brings(flight'[g], v)
  <2>1. CASE g = f
    <3>1. flight'[g] = [flight[g] EXCEPT !.answered = TRUE, !.at = version]
      BY <1>2, <2>1
    <3>2. version \in 0..version /\ \A v \in 0..version : version >= v
      BY <1>1
    <3>3. /\ flight'[g] \in Fetch(Tags) /\ flight'[g].at = version
          /\ flight'[g].tag = flight[g].tag /\ flight'[g].late = flight[g].late
      BY <1>3, <3>1, <3>2 DEF Fetch
    <3>4. \A v \in 0..version : Brings(flight'[g], v)
      BY <3>2, <3>3 DEF Brings
    <3> QED
      BY <3>3, <3>4
  <2>2. CASE g # f
    <3>1. flight'[g] = flight[g]
      BY <1>2, <2>2
    <3> QED
      BY <1>3, <3>1
  <2> QED
    BY <2>1, <2>2
<1>5. flight' \in Seq(Fetch(Tags)) /\ DOMAIN flight' = DOMAIN flight
  <2>1. DOMAIN flight' = DOMAIN flight /\ flight' = [g \in DOMAIN flight |-> flight'[g]]
    BY <1>2
  <2> QED
    BY <1>1, <1>4, <2>1, Replaced
<1>6. flight # <<>> /\ flight' # <<>>
  BY <1>1, <1>5
<1>7. FetchTypeOK(Tags)'
  BY <1>5 DEF FetchTypeOK, Fetch
<1>8. ASSUME NEW v \in 0..version, Covered(flight, shown, stale, v)
      PROVE  Covered(flight', shown', stale', v)
  <2>1. \A g \in DOMAIN flight : Brings(flight[g], v) => Brings(flight'[g], v)
    BY <1>4
  <2> QED
    BY <1>4, <1>5, <1>8, <2>1 DEF Covered
<1> QED
  BY <1>4, <1>5, <1>7, <1>8

\* A fetch that leaves: the others are as they were, but those before an answer
\* are late.
LEMMA Left ==
  ASSUME NEW Tags, FetchTypeOK(Tags), NEW f \in DOMAIN flight,
         NEW answers \in BOOLEAN, Leave(f, answers), version' = version
  PROVE  /\ flight' \in Seq(Fetch(Tags)) /\ loading' = FALSE
         /\ DOMAIN flight' = 1..(Len(flight) - 1)
         /\ \A g \in DOMAIN flight' :
               /\ PlaceBefore(f, g) \in DOMAIN flight
               /\ flight'[g].tag = flight[PlaceBefore(f, g)].tag
               /\ \A v : Brings(flight'[g], v) <=> Brings(flight[PlaceBefore(f, g)], v)
               /\ flight'[g].late = (flight[PlaceBefore(f, g)].late \/ (answers /\ g < f))
<1> DEFINE marked == [g \in DOMAIN flight |->
                        IF answers /\ g < f THEN [flight[g] EXCEPT !.late = TRUE]
                        ELSE flight[g]]
<1>1. flight' = RemoveAt(marked, f) /\ loading' = FALSE
  BY DEF Leave
<1>2. flight \in Seq(Fetch(Tags)) /\ DOMAIN flight = 1..Len(flight) /\ Len(flight) \in Nat
  BY DEF FetchTypeOK, Fetch
<1>3. \A g \in DOMAIN flight : flight[g] \in Fetch(Tags)
  BY <1>2, Listed
<1>4. ASSUME NEW g \in DOMAIN flight
      PROVE  /\ marked[g] \in Fetch(Tags) /\ marked[g].tag = flight[g].tag
             /\ \A v : Brings(marked[g], v) <=> Brings(flight[g], v)
             /\ marked[g].late = (flight[g].late \/ (answers /\ g < f))
  <2>1. CASE answers /\ g < f
    <3>1. marked[g] = [flight[g] EXCEPT !.late = TRUE]
      BY <2>1
    <3> HIDE DEF marked
    <3> QED
      BY <1>3, <2>1, <3>1 DEF Fetch, Brings
  <2>2. CASE ~(answers /\ g < f)
    <3>1. marked[g] = flight[g]
      BY <2>2
    <3>2. flight[g].late \in BOOLEAN
      BY <1>3 DEF Fetch
    <3> HIDE DEF marked
    <3> QED
      BY <1>3, <2>2, <3>1, <3>2
  <2> QED
    BY <2>1, <2>2
<1>5. marked = [g \in DOMAIN flight |-> marked[g]]
  OBVIOUS
<1> HIDE DEF marked
<1>6. marked \in Seq(Fetch(Tags)) /\ DOMAIN marked = DOMAIN flight /\ Len(marked) = Len(flight)
  <2>1. marked \in Seq(Fetch(Tags)) /\ DOMAIN marked = DOMAIN flight
    BY <1>2, <1>4, <1>5, Replaced
  <2> QED
    BY <1>2, <2>1
<1>7. /\ RemoveAt(marked, f) \in Seq(Fetch(Tags))
      /\ DOMAIN RemoveAt(marked, f) = 1..(Len(flight) - 1)
      /\ \A g \in 1..(Len(flight) - 1) :
            /\ PlaceBefore(f, g) \in DOMAIN flight
            /\ RemoveAt(marked, f)[g] = marked[PlaceBefore(f, g)]
  BY <1>6, Removed DEF PlaceBefore
<1>8. ASSUME NEW g \in 1..(Len(flight) - 1)
      PROVE  PlaceBefore(f, g) < f <=> g < f
  BY <1>2 DEF PlaceBefore
<1> QED
  BY <1>1, <1>4, <1>7, <1>8

\* An answer that is put in the page's state.
LEMMA Taken ==
  ASSUME NEW Tags, FetchTypeOK(Tags), NEW f \in DOMAIN flight, TakeAnswer(f),
         version' = version
  PROVE  /\ FetchTypeOK(Tags)' /\ ~loading'
         /\ DOMAIN flight' = 1..(Len(flight) - 1)
         /\ \A g \in DOMAIN flight' : /\ PlaceBefore(f, g) \in DOMAIN flight
                                      /\ flight'[g].tag = flight[PlaceBefore(f, g)].tag
         /\ flight[f].at \in 0..version
         /\ \A v : Covered(flight, shown, stale, v) => Covered(flight', shown', stale', v)
<1>1. /\ flight[f].answered /\ shown' = flight[f].at /\ stale' = flight[f].late
      /\ Leave(f, TRUE)
  BY DEF TakeAnswer
<1>2. /\ flight' \in Seq(Fetch(Tags)) /\ loading' = FALSE
      /\ DOMAIN flight' = 1..(Len(flight) - 1)
      /\ \A g \in DOMAIN flight' :
            /\ PlaceBefore(f, g) \in DOMAIN flight
            /\ flight'[g].tag = flight[PlaceBefore(f, g)].tag
            /\ \A v : Brings(flight'[g], v) <=> Brings(flight[PlaceBefore(f, g)], v)
            /\ flight'[g].late = (flight[PlaceBefore(f, g)].late \/ g < f)
  BY <1>1, Left
<1>3. /\ flight \in Seq(Fetch(Tags)) /\ DOMAIN flight = 1..Len(flight) /\ Len(flight) \in Nat
      /\ f \in Nat
  BY DEF FetchTypeOK, Fetch
<1>4. flight[f] \in Fetch(Tags)
  BY <1>3, Listed
<1>5. FetchTypeOK(Tags)'
  <2>1. shown' \in 0..version /\ stale' \in BOOLEAN
    BY <1>1, <1>4 DEF Fetch
  <2> QED
    BY <1>2, <2>1 DEF FetchTypeOK, Fetch
<1>6. ASSUME NEW v, Covered(flight, shown, stale, v)
      PROVE  Covered(flight', shown', stale', v)
  <2>1. \A h \in DOMAIN flight : h > f =>
          h - 1 \in DOMAIN flight' /\ PlaceBefore(f, h - 1) = h
    BY <1>2, <1>3 DEF PlaceBefore
  <2>2. ASSUME NEW g \in DOMAIN flight'
        PROVE  \/ flight'[g].late \/ Brings(flight'[g], v)
               \/ \E k \in DOMAIN flight' : g < k /\ Brings(flight'[k], v)
    <3>1. g \in Nat
      BY <1>2
    <3>2. CASE g < f
      BY <1>2, <3>2
    <3>3. CASE ~(g < f)
      <4>1. PlaceBefore(f, g) = g + 1 /\ g + 1 \in DOMAIN flight
        BY <1>2, <3>3 DEF PlaceBefore
      <4>2. CASE flight[g + 1].late \/ Brings(flight[g + 1], v)
        BY <1>2, <4>1, <4>2
      <4>3. CASE \E h \in DOMAIN flight : g + 1 < h /\ Brings(flight[h], v)
        <5>1. PICK h \in DOMAIN flight : g + 1 < h /\ Brings(flight[h], v)
          BY <4>3
        <5>2. h > f /\ g < h - 1
          BY <1>3, <3>1, <3>3, <5>1
        <5>3. h - 1 \in DOMAIN flight' /\ Brings(flight'[h - 1], v)
          BY <1>2, <2>1, <5>1, <5>2
        <5> QED
          BY <5>2, <5>3
      <4> QED
        BY <1>6, <4>1, <4>2, <4>3 DEF Covered
    <3> QED
      BY <3>2, <3>3
  <2>3. stale' \/ shown' >= v \/ \E k \in DOMAIN flight' : Brings(flight'[k], v)
    <3>1. CASE flight[f].late \/ Brings(flight[f], v)
      BY <1>1, <3>1 DEF Brings
    <3>2. CASE \E h \in DOMAIN flight : f < h /\ Brings(flight[h], v)
      <4>1. PICK h \in DOMAIN flight : f < h /\ Brings(flight[h], v)
        BY <3>2
      <4>2. h > f
        BY <1>3, <4>1
      <4>3. h - 1 \in DOMAIN flight' /\ Brings(flight'[h - 1], v)
        BY <1>2, <2>1, <4>1, <4>2
      <4> QED
        BY <4>3
    <3> QED
      BY <1>6, <3>1, <3>2 DEF Covered
  <2> QED
    BY <2>2, <2>3 DEF Covered
<1>7. flight[f].at \in 0..version
  BY <1>4 DEF Fetch
<1> QED
  BY <1>2, <1>5, <1>6, <1>7

\* A fetch that fails.
LEMMA Lost ==
  ASSUME NEW Tags, FetchTypeOK(Tags), NEW f \in DOMAIN flight, LoseAnswer(f),
         version' = version
  PROVE  /\ FetchTypeOK(Tags)' /\ ~loading'
         /\ DOMAIN flight' = 1..(Len(flight) - 1)
         /\ \A g \in DOMAIN flight' : /\ PlaceBefore(f, g) \in DOMAIN flight
                                      /\ flight'[g].tag = flight[PlaceBefore(f, g)].tag
<1>1. Leave(f, FALSE) /\ UNCHANGED <<shown, stale>>
  BY DEF LoseAnswer
<1>2. /\ flight' \in Seq(Fetch(Tags)) /\ loading' = FALSE
      /\ DOMAIN flight' = 1..(Len(flight) - 1)
      /\ \A g \in DOMAIN flight' :
            /\ PlaceBefore(f, g) \in DOMAIN flight
            /\ flight'[g].tag = flight[PlaceBefore(f, g)].tag
  BY <1>1, Left
<1>3. FetchTypeOK(Tags)'
  BY <1>1, <1>2 DEF FetchTypeOK, Fetch
<1> QED
  BY <1>2, <1>3

\* A page that has just been opened.
LEMMA Opened ==
  ASSUME NEW Tags, NEW fetches, version \in 0..MaxVersion, version' = version,
         \/ fetches = <<>>
         \/ \E tag \in Tags : fetches = <<NewFetch(tag)>>,
         OpenFetch(fetches)
  PROVE  /\ FetchTypeOK(Tags)' /\ (flight' = <<>> => ~loading')
         /\ Covered(flight', shown', stale', 0)
<1>1. loading' = (fetches # <<>>) /\ flight' = fetches /\ shown' = 0 /\ stale' = FALSE
  BY DEF OpenFetch
<1>2. version \in Nat
  BY BoundsAssumption
<1>3. fetches \in Seq(Fetch(Tags)) /\ \A f \in DOMAIN fetches : ~fetches[f].answered
  <2>1. CASE fetches = <<>>
    BY <2>1
  <2>2. CASE \E tag \in Tags : fetches = <<NewFetch(tag)>>
    <3>1. PICK tag \in Tags : fetches = <<NewFetch(tag)>>
      BY <2>2
    <3>2. NewFetch(tag) \in Fetch(Tags) /\ ~NewFetch(tag).answered
      BY <1>2 DEF NewFetch, Fetch
    <3> QED
      BY <3>1, <3>2
  <2> QED
    BY <2>1, <2>2
<1>4. FetchTypeOK(Tags)'
  <2>1. loading' \in BOOLEAN /\ stale' \in BOOLEAN
    BY <1>1
  <2>2. /\ flight' \in Seq([tag : Tags, answered : BOOLEAN, at : 0..version', late : BOOLEAN])
        /\ shown' \in 0..version' /\ version' \in 0..MaxVersion
    BY <1>1, <1>2, <1>3 DEF Fetch
  <2> QED
    BY <2>1, <2>2 DEF FetchTypeOK
<1>5. Covered(flight', shown', stale', 0)
  BY <1>1, <1>3 DEF Covered, Brings
<1> QED
  BY <1>1, <1>4, <1>5

\* The records change.
LEMMA Changed ==
  ASSUME NEW Tags, FetchTypeOK(Tags), version' \in version..MaxVersion,
         UNCHANGED <<loading, flight, shown, stale>>
  PROVE  FetchTypeOK(Tags)'
<1>1. version \in Nat /\ version' \in 0..MaxVersion /\ 0..version \subseteq 0..version'
  BY BoundsAssumption DEF FetchTypeOK
<1>2. Fetch(Tags) \subseteq Fetch(Tags)'
  BY <1>1 DEF Fetch
<1>3. flight \in Seq(Fetch(Tags))
  BY DEF FetchTypeOK, Fetch
<1>4. flight \in Seq(Fetch(Tags)')
  BY <1>2, <1>3, SeqMonotonic
<1>5. shown' \in 0..version' /\ loading' \in BOOLEAN /\ stale' \in BOOLEAN
  BY <1>1 DEF FetchTypeOK
<1>6. Fetch(Tags)' = [tag : Tags, answered : BOOLEAN, at : 0..version', late : BOOLEAN]
  BY DEF Fetch
<1> QED
  BY <1>1, <1>4, <1>5, <1>6 DEF FetchTypeOK

=============================================================================
