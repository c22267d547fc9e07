------------------------- MODULE SignedMoleculeProofs -------------------------
(***************************************************************************)
(* That normalize ends in symbols that sum to zero, that what sign made     *)
(* verifies, and that what verifies is what was signed: for hashes and keys *)
(* of any length and molecules of any number of atoms.                      *)
(***************************************************************************)
EXTENDS SignedMolecule, Sums, SequenceTheorems, TLAPS

(* A function may be defined by following steps that lower a measure until  *)
(* they stop.                                                               *)
Follow(D, stop, step, w) == [s \in D |-> IF s \in stop THEN s ELSE w[step[s]]]

LEMMA FollowDefines ==
    ASSUME NEW D, NEW stop, NEW step \in [D -> D], NEW m \in [D -> Nat],
           \A s \in D : s \notin stop => m[step[s]] < m[s]
    PROVE  \E w : w = Follow(D, stop, step, w)
<1> DEFINE Upto(n, g) == \A s \in D : m[s] <= n => g[s] = Follow(D, stop, step, g)[s]
           Known == {n \in Nat : \E g : Upto(n, g)}
           Same(n) == \A g, h : \A k \in Nat : \A l \in Nat : \A s \in D :
                        Upto(k, g) /\ Upto(l, h) /\ m[s] <= n /\ m[s] <= k /\ m[s] <= l
                           => g[s] = h[s]
           Agree == {n \in Nat : Same(n)}
<1>s. ASSUME NEW s \in D
      PROVE  /\ m[s] \in Nat /\ step[s] \in D /\ m[step[s]] \in Nat
             /\ s \notin stop => m[step[s]] < m[s]
             /\ \A g : Follow(D, stop, step, g)[s] = IF s \in stop THEN s ELSE g[step[s]]
  BY DEF Follow
<1>1. 0 \in Known
  <2> DEFINE g == [s \in D |-> s]
  <2>1. ASSUME NEW s \in D, m[s] <= 0 PROVE g[s] = Follow(D, stop, step, g)[s]
    <3>1. s \in stop
      BY <1>s, <2>1
    <3>2. QED BY <1>s, <3>1
  <2>2. QED BY <2>1
<1>2. ASSUME NEW n \in Nat, n \in Known PROVE n + 1 \in Known
  <2>1. PICK g : Upto(n, g)
    BY <1>2
  <2> DEFINE h == Follow(D, stop, step, g)
  <2>2. ASSUME NEW s \in D, m[s] <= n + 1 PROVE h[s] = Follow(D, stop, step, h)[s]
    <3>1. CASE s \in stop
      BY <1>s, <3>1
    <3>2. CASE s \notin stop
      <4>1. m[step[s]] <= n
        BY <1>s, <2>2, <3>2
      <4>2. g[step[s]] = h[step[s]]
        BY <1>s, <2>1, <4>1
      <4>3. h[s] = g[step[s]] /\ Follow(D, stop, step, h)[s] = h[step[s]]
        BY <1>s, <3>2
      <4>4. QED BY <4>2, <4>3
    <3>3. QED BY <3>1, <3>2
  <2>3. Upto(n + 1, h)
    BY <2>2
  <2>4. QED BY <2>3
<1>3. \A n \in Nat : n \in Known
  <2> HIDE DEF Known
  <2>1. QED BY <1>1, <1>2, Naturals0
<1>4. Same(0)
  <2> HIDE DEF Upto
  <2> SUFFICES ASSUME NEW g, NEW h, NEW k \in Nat, NEW l \in Nat, NEW s \in D,
                      Upto(k, g), Upto(l, h), m[s] <= 0, m[s] <= k, m[s] <= l
               PROVE  g[s] = h[s]
    OBVIOUS
  <2> USE DEF Upto
  <2>1. s \in stop
    BY <1>s
  <2>2. g[s] = Follow(D, stop, step, g)[s] /\ h[s] = Follow(D, stop, step, h)[s]
    OBVIOUS
  <2>3. QED BY <1>s, <2>1, <2>2
<1>5. ASSUME NEW n \in Nat, Same(n) PROVE Same(n + 1)
  <2> HIDE DEF Upto
  <2> SUFFICES ASSUME NEW g, NEW h, NEW k \in Nat, NEW l \in Nat, NEW s \in D,
                      Upto(k, g), Upto(l, h), m[s] <= n + 1, m[s] <= k, m[s] <= l
               PROVE  g[s] = h[s]
    OBVIOUS
  <2> USE DEF Upto
  <2>1. g[s] = Follow(D, stop, step, g)[s] /\ h[s] = Follow(D, stop, step, h)[s]
    OBVIOUS
  <2>2. CASE s \in stop
    BY <1>s, <2>1, <2>2
  <2>3. CASE s \notin stop
    <3>1. m[step[s]] <= n /\ m[step[s]] <= k /\ m[step[s]] <= l
      BY <1>s, <2>3
    <3>2. g[step[s]] = h[step[s]]
      BY <1>5, <1>s, <3>1
    <3>3. QED BY <1>s, <2>1, <2>3, <3>2
  <2>4. QED BY <2>2, <2>3
<1>6. \A n \in Nat : n \in Agree
  <2>1. 0 \in Agree /\ \A n \in Nat : n \in Agree => n + 1 \in Agree
    <3> HIDE DEF Same
    <3>1. QED BY <1>4, <1>5
  <2> HIDE DEF Agree
  <2>2. QED BY <2>1, Naturals0
<1> DEFINE G(n) == CHOOSE g : Upto(n, g)
           w == [s \in D |-> G(m[s])[s]]
<1>7. \A n \in Nat : Upto(n, G(n))
  <2> SUFFICES ASSUME NEW n \in Nat PROVE Upto(n, G(n))
    OBVIOUS
  <2>1. \E g : Upto(n, g)
    BY <1>3
  <2> HIDE DEF Upto
  <2>2. QED BY <2>1, Zenon
<1>8. ASSUME NEW s \in D PROVE w[s] = Follow(D, stop, step, w)[s]
  <2> DEFINE g == G(m[s])
  <2>1. w[s] = g[s] /\ Upto(m[s], g)
    BY <1>7, <1>s
  <2> HIDE DEF G
  <2>2. g[s] = Follow(D, stop, step, g)[s]
    BY <1>s, <2>1
  <2>3. CASE s \in stop
    BY <1>s, <2>1, <2>2, <2>3
  <2>4. CASE s \notin stop
    <3> DEFINE h == G(m[step[s]])
    <3>1. w[step[s]] = h[step[s]] /\ Upto(m[step[s]], h)
      BY <1>7, <1>s
    <3>2. m[step[s]] <= m[s] /\ m[step[s]] <= m[step[s]] /\ m[s] \in Nat /\ m[step[s]] \in Nat
          /\ step[s] \in D
      BY <1>s, <2>4
    <3>3. m[step[s]] \in Agree
      BY <1>6, <3>2
    <3>4. g[step[s]] = h[step[s]]
      <4> HIDE DEF g, h, Upto
      <4>1. QED BY <2>1, <3>1, <3>2, <3>3
    <3>5. QED BY <1>s, <2>1, <2>2, <2>4, <3>1, <3>4
  <2>5. QED BY <2>3, <2>4
<1>9. w = Follow(D, stop, step, w)
  BY <1>8 DEF Follow
<1>10. QED BY <1>9

-----------------------------------------------------------------------------
(* One walk of normalize.                                                   *)
Lists == [1..HashLength -> Int]

Off(s) == IF Total(s) < 0 THEN -Total(s) ELSE Total(s)

Moved(s) == {i \in 1..HashLength :
                Movable(s, i) /\ Cardinality({j \in 1..(i - 1) : Movable(s, j)}) < Off(s)}

LEMMA TotalIsSum == \A v : Total(v) = SumOf(v)
BY Zenon DEF Total, SumOf

LEMMA ListFacts ==
    ASSUME NEW s \in Lists
    PROVE  /\ IsFiniteSet(DOMAIN s) /\ DOMAIN s = 1..HashLength
           /\ \A i \in DOMAIN s : s[i] \in Int
           /\ Total(s) \in Int /\ Off(s) \in Nat
           /\ Off(s) = 0 <=> Total(s) = 0
<1>1. DOMAIN s = 1..HashLength /\ \A i \in DOMAIN s : s[i] \in Int
  BY DEF Lists
<1>2. IsFiniteSet(DOMAIN s)
  <2>1. HashLength \in Int
    BY SignAssumption
  <2>2. IsFiniteSet(1..HashLength)
    BY <2>1, FS_Interval
  <2>3. QED BY <1>1, <2>2, Zenon
<1>3. Total(s) \in Int
  BY <1>1, <1>2, SumType, TotalIsSum
<1>4. Off(s) \in Nat /\ (Off(s) = 0 <=> Total(s) = 0)
  BY <1>3 DEF Off
<1>5. QED BY <1>1, <1>2, <1>3, <1>4

LEMMA WalkMoves ==
    ASSUME NEW s \in Lists
    PROVE  /\ Walk(s) \in Lists
           /\ \A i \in 1..HashLength :
                 Walk(s)[i] = IF i \notin Moved(s) THEN s[i]
                              ELSE IF Total(s) < 0 THEN s[i] + 1 ELSE s[i] - 1
<1>1. Walk(s) = [i \in DOMAIN s |-> IF i \notin Moved(s) THEN s[i]
                                    ELSE IF Total(s) < 0 THEN s[i] + 1 ELSE s[i] - 1]
  <2>1. \A i \in DOMAIN s :
           (Movable(s, i) /\ Cardinality({j \in 1..(i - 1) : Movable(s, j)}) < Off(s))
              <=> i \in Moved(s)
    BY ListFacts DEF Moved
  <2>2. QED BY <2>1 DEF Walk, Off
<1>2. QED BY <1>1, ListFacts DEF Lists

(* Those that can move before i are counted, so that no more than need be   *)
(* are moved, and some one is.                                              *)
LEMMA MovedCount ==
    ASSUME NEW s \in Lists, Total(s) # 0
    PROVE  Cardinality(Moved(s)) \in 1..Off(s) /\ IsFiniteSet(Moved(s))
<1> DEFINE Before(i) == {j \in 1..(i - 1) : Movable(s, j)}
           rank == [i \in Moved(s) |-> Cardinality(Before(i))]
           T == {i \in 1..HashLength : Movable(s, i)}
<1>h. HashLength \in Nat
  BY SignAssumption
<1>b. ASSUME NEW i \in 1..HashLength
      PROVE  IsFiniteSet(Before(i)) /\ Cardinality(Before(i)) \in Nat
  <2>1. IsFiniteSet(1..(i - 1)) /\ Before(i) \in SUBSET (1..(i - 1))
    BY FS_Interval
  <2>2. QED BY <2>1, FS_Subset, FS_CardinalityType
<1>m. /\ Moved(s) \in SUBSET (1..HashLength)
      /\ \A i \in Moved(s) : Movable(s, i) /\ Cardinality(Before(i)) < Off(s)
  BY DEF Moved
<1>f. IsFiniteSet(Moved(s)) /\ Cardinality(Moved(s)) \in Nat
  <2>1. IsFiniteSet(1..HashLength)
    BY <1>h, FS_Interval
  <2>2. QED BY <1>m, <2>1, FS_Subset, FS_CardinalityType
<1>1. T # {}
  <2>1. CASE Total(s) < 0
    <3>1. PICK i \in DOMAIN s : s[i] < 0
      BY <2>1, ListFacts, TotalIsSum, SumSigns
    <3>2. Movable(s, i)
      BY <2>1, <3>1, ListFacts, SignAssumption DEF Movable
    <3>3. QED BY <3>1, <3>2, ListFacts
  <2>2. CASE Total(s) > 0
    <3>1. PICK i \in DOMAIN s : s[i] > 0
      BY <2>2, ListFacts, TotalIsSum, SumSigns
    <3>2. Movable(s, i)
      BY <2>2, <3>1, ListFacts, SignAssumption DEF Movable
    <3>3. QED BY <3>1, <3>2, ListFacts
  <2>3. QED BY <2>1, <2>2, ListFacts
<1>2. Moved(s) # {}
  <2>1. PICK i \in T : \A k \in T : i <= k
    <3>1. T \in SUBSET Nat
      OBVIOUS
    <3> HIDE DEF T
    <3>2. QED BY <1>1, <3>1, LeastNumber
  <2>2. Before(i) = {}
    <3> SUFFICES ASSUME NEW j \in 1..(i - 1), Movable(s, j) PROVE FALSE
      OBVIOUS
    <3>1. i \in 1..HashLength
      OBVIOUS
    <3>2. j \in 1..HashLength /\ j < i /\ i \in Int /\ j \in Int
      BY ONLY <1>h, <3>1, j \in 1..(i - 1)
    <3>3. i <= j
      BY <2>1, <3>2
    <3>4. QED BY <3>2, <3>3
  <2>3. Cardinality(Before(i)) < Off(s)
    <3>1. Off(s) > 0 /\ Cardinality({}) = 0
      BY FS_EmptySet, ListFacts
    <3> HIDE DEF Before
    <3>2. Cardinality(Before(i)) = 0
      BY <2>2, <3>1
    <3>3. QED BY <3>1, <3>2
  <2>4. i \in Moved(s)
    BY <2>3 DEF Moved
  <2>5. QED BY <2>4
<1>3. ASSUME NEW i \in Moved(s), NEW k \in Moved(s), i < k PROVE rank[i] < rank[k]
  <2>1. Before(i) \in SUBSET Before(k) /\ i \in Before(k) /\ i \notin Before(i)
    <3>1. i \in 1..HashLength /\ k \in 1..HashLength /\ Movable(s, i)
      BY <1>m
    <3>2. 1..(i - 1) \in SUBSET (1..(k - 1)) /\ i \in 1..(k - 1) /\ i \notin 1..(i - 1)
      BY ONLY <1>h, <1>3, <3>1
    <3>3. QED BY <3>1, <3>2
  <2>2. IsFiniteSet(Before(k)) /\ Cardinality(Before(i)) \in Nat /\ Cardinality(Before(k)) \in Nat
    BY <1>b, <1>m
  <2> HIDE DEF Before
  <2>3. Cardinality(Before(i)) <= Cardinality(Before(k)) /\ Before(i) # Before(k)
        /\ (Cardinality(Before(k)) = Cardinality(Before(i)) => Before(k) = Before(i))
    BY <2>1, <2>2, FS_Subset
  <2>4. QED BY <2>2, <2>3
<1>4. rank \in Injection(Moved(s), 0..(Off(s) - 1))
  <2>1. ASSUME NEW i \in Moved(s) PROVE rank[i] \in 0..(Off(s) - 1)
    <3>1. Cardinality(Before(i)) \in Nat /\ Cardinality(Before(i)) < Off(s) /\ Off(s) \in Nat
      BY <1>b, <1>m, ListFacts
    <3> HIDE DEF Before
    <3>2. QED BY <3>1
  <2>2. \A i, k \in Moved(s) : rank[i] = rank[k] => i = k
    <3> SUFFICES ASSUME NEW i \in Moved(s), NEW k \in Moved(s), rank[i] = rank[k], i # k
                 PROVE  FALSE
      OBVIOUS
    <3>1. rank[i] \in Int /\ rank[k] \in Int /\ i \in Int /\ k \in Int
      BY <1>m, <2>1
    <3> HIDE DEF rank
    <3>2. i < k \/ k < i
      BY <3>1
    <3>3. rank[i] < rank[k] \/ rank[k] < rank[i]
      BY <1>3, <3>2
    <3>4. QED BY <3>1, <3>3
  <2>3. rank = [i \in Moved(s) |-> rank[i]]
    OBVIOUS
  <2> HIDE DEF rank
  <2>4. QED BY <2>1, <2>2, <2>3 DEF Injection, IsInjective
<1>5. Cardinality(Moved(s)) <= Off(s)
  <2>1. Off(s) - 1 \in Int /\ Off(s) \in Nat /\ Off(s) # 0
    BY ListFacts
  <2>2. IsFiniteSet(0..(Off(s) - 1)) /\ Cardinality(0..(Off(s) - 1)) = Off(s)
    BY <2>1, FS_Interval
  <2> HIDE DEF rank
  <2>3. QED BY <1>4, <2>2, FS_Injection
<1>6. Cardinality(Moved(s)) # 0
  BY <1>2, <1>f, FS_EmptySet
<1>7. QED BY <1>f, <1>5, <1>6, ListFacts

(* A walk brings the sum nearer to zero, and never past it.                 *)
LEMMA WalkNears ==
    ASSUME NEW s \in Lists, Total(s) # 0
    PROVE  /\ Off(Walk(s)) < Off(s) /\ Total(Walk(s)) \in Int
           /\ Total(s) < 0 => Total(Walk(s)) <= 0
           /\ Total(s) > 0 => Total(Walk(s)) >= 0
<1> DEFINE w == Walk(s)
           n == Cardinality(Moved(s))
<1>n. n \in 1..Off(s)
  BY MovedCount
<1>w. /\ w \in Lists
      /\ \A i \in 1..HashLength :
            w[i] = IF i \notin Moved(s) THEN s[i]
                   ELSE IF Total(s) < 0 THEN s[i] + 1 ELSE s[i] - 1
  BY WalkMoves
<1> HIDE DEF w, n
<1>m. Moved(s) \in SUBSET (1..HashLength)
  BY DEF Moved
<1>t. Total(s) \in Int /\ Total(w) \in Int
  BY <1>w, ListFacts
<1>d. DOMAIN s = 1..HashLength /\ DOMAIN w = 1..HashLength
      /\ IsFiniteSet(DOMAIN s) /\ IsFiniteSet(DOMAIN w)
      /\ (\A i \in DOMAIN s : s[i] \in Int) /\ (\A i \in DOMAIN w : w[i] \in Int)
  BY <1>w, ListFacts
<1>1. CASE Total(s) < 0
  <2>1. \A i \in DOMAIN s : w[i] = IF i \in Moved(s) THEN s[i] + 1 ELSE s[i]
    BY <1>d, <1>w, <1>1
  <2>2. SumOf(w) = SumOf(s) + Cardinality(Moved(s))
    <3>1. Raised(s, w, Moved(s))
      BY <1>d, <1>m, <2>1, Zenon DEF Raised
    <3>2. QED BY <3>1, SumRaised
  <2>3. Total(w) = Total(s) + n
    BY <2>2, TotalIsSum DEF n
  <2>4. /\ Off(w) = IF Total(w) < 0 THEN -Total(w) ELSE Total(w)
        /\ Off(s) = IF Total(s) < 0 THEN -Total(s) ELSE Total(s)
    BY DEF Off
  <2>5. QED BY <1>1, <1>n, <1>t, <2>3, <2>4 DEF w
<1>2. CASE Total(s) > 0
  <2>1. \A i \in DOMAIN w : s[i] = IF i \in Moved(s) THEN w[i] + 1 ELSE w[i]
    BY <1>d, <1>t, <1>w, <1>2
  <2>2. SumOf(s) = SumOf(w) + Cardinality(Moved(s))
    <3>1. Raised(w, s, Moved(s))
      BY <1>d, <1>m, <2>1, Zenon DEF Raised
    <3>2. QED BY <3>1, SumRaised
  <2>3. Total(s) = Total(w) + n
    BY <2>2, TotalIsSum DEF n
  <2>4. /\ Off(w) = IF Total(w) < 0 THEN -Total(w) ELSE Total(w)
        /\ Off(s) = IF Total(s) < 0 THEN -Total(s) ELSE Total(s)
    BY DEF Off
  <2>5. QED BY <1>2, <1>n, <1>t, <2>3, <2>4 DEF w
<1>3. QED BY <1>1, <1>2, <1>t

LEMMA WalkKeepsSymbols ==
    ASSUME NEW s \in Hashes
    PROVE  /\ Walk(s) \in Hashes
           /\ Total(s) < 0 => \A i \in 1..HashLength : Walk(s)[i] >= s[i]
           /\ ~(Total(s) < 0) => \A i \in 1..HashLength : Walk(s)[i] <= s[i]
<1>1. Reach \in Nat /\ s \in Lists
  BY SignAssumption DEF Hashes, Lists
<1>2. ASSUME NEW i \in 1..HashLength
      PROVE  /\ Walk(s)[i] \in -Reach..Reach
             /\ Total(s) < 0 => Walk(s)[i] >= s[i]
             /\ ~(Total(s) < 0) => Walk(s)[i] <= s[i]
  <2>1. s[i] \in -Reach..Reach
    BY DEF Hashes
  <2>2. Walk(s)[i] = IF i \notin Moved(s) THEN s[i]
                     ELSE IF Total(s) < 0 THEN s[i] + 1 ELSE s[i] - 1
    BY <1>1, WalkMoves
  <2>3. i \in Moved(s) => Movable(s, i)
    BY DEF Moved
  <2>4. CASE i \notin Moved(s)
    BY <1>1, <2>1, <2>2, <2>4
  <2>5. CASE i \in Moved(s) /\ Total(s) < 0
    BY <1>1, <2>1, <2>2, <2>3, <2>5 DEF Movable
  <2>6. CASE i \in Moved(s) /\ ~(Total(s) < 0)
    BY <1>1, <2>1, <2>2, <2>3, <2>6 DEF Movable
  <2>7. QED BY <2>4, <2>5, <2>6
<1>3. Walk(s) \in [1..HashLength -> -Reach..Reach]
  <2>1. Walk(s) \in Lists
    BY <1>1, WalkMoves
  <2>2. QED BY <1>2, <2>1 DEF Lists
<1>4. QED BY <1>2, <1>3 DEF Hashes

-----------------------------------------------------------------------------
Balanced == {s \in Lists : Total(s) = 0}

walked == CHOOSE w : w = [s \in [1..HashLength -> Int] |->
                             IF Total(s) = 0 THEN s ELSE w[Walk(s)]]

LEMMA NormalizeIsWalked == ASSUME NEW s PROVE normalize(s) = walked[s]
BY Zenon DEF normalize, walked

(* The recursion of normalize ends, so that it defines what it says.        *)
LEMMA WalkedDefined ==
    ASSUME NEW s \in Lists
    PROVE  walked[s] = IF Total(s) = 0 THEN s ELSE walked[Walk(s)]
<1> DEFINE step == [t \in Lists |-> IF Total(t) = 0 THEN t ELSE Walk(t)]
           m == [t \in Lists |-> Off(t)]
           Unwound(w) == [t \in Lists |-> IF Total(t) = 0 THEN t ELSE w[Walk(t)]]
<1>1. step \in [Lists -> Lists] /\ m \in [Lists -> Nat]
  <2>1. \A t \in Lists : Walk(t) \in Lists /\ Off(t) \in Nat
    BY WalkMoves, ListFacts
  <2>2. QED BY <2>1
<1>2. \A t \in Lists : t \notin Balanced => m[step[t]] < m[t]
  <2> SUFFICES ASSUME NEW t \in Lists, Total(t) # 0 PROVE m[step[t]] < m[t]
    BY DEF Balanced
  <2>1. step[t] = Walk(t) /\ Walk(t) \in Lists
    BY WalkMoves
  <2>2. m[step[t]] = Off(Walk(t)) /\ m[t] = Off(t)
    BY <2>1
  <2>3. QED BY <2>2, WalkNears
<1>3. PICK w : w = Follow(Lists, Balanced, step, w)
  <2> HIDE DEF step, m
  <2>1. QED BY <1>1, <1>2, FollowDefines
<1>4. \A v : Follow(Lists, Balanced, step, v) = Unwound(v)
  BY DEF Follow, Balanced
<1>5. w = Unwound(w)
  BY <1>3, <1>4
<1>6. walked = CHOOSE v : v = Unwound(v)
  BY Zenon DEF walked, Lists
<1>7. walked = Unwound(walked)
  <2> HIDE DEF Unwound
  <2>1. QED BY <1>5, <1>6, Zenon
<1>8. walked[s] = Unwound(walked)[s]
  BY <1>7, Zenon
<1>9. QED BY <1>8

(* normalize ends in symbols that sum to zero, all moved the same way.      *)
LEMMA NormalizeBalances ==
    ASSUME NEW s \in Hashes
    PROVE  /\ normalize(s) \in Hashes /\ Total(normalize(s)) = 0
           /\ \/ \A i \in 1..HashLength : normalize(s)[i] >= s[i]
              \/ \A i \in 1..HashLength : normalize(s)[i] <= s[i]
<1> DEFINE Good(t) ==
             /\ walked[t] \in Hashes /\ Total(walked[t]) = 0
             /\ Total(t) <= 0 => \A i \in 1..HashLength : walked[t][i] >= t[i]
             /\ Total(t) >= 0 => \A i \in 1..HashLength : walked[t][i] <= t[i]
           Known == {n \in Nat : \A t \in Hashes : Off(t) <= n => Good(t)}
<1>h. ASSUME NEW t \in Hashes
      PROVE  /\ t \in Lists /\ Total(t) \in Int /\ Off(t) \in Nat
             /\ Off(t) = 0 <=> Total(t) = 0
             /\ \A i \in 1..HashLength : t[i] \in Int
  <2>1. t \in Lists
    BY SignAssumption DEF Hashes, Lists
  <2>2. QED BY <2>1, ListFacts DEF Lists
<1>0. ASSUME NEW t \in Hashes, Total(t) = 0 PROVE Good(t)
  <2>1. walked[t] = t
    BY <1>h, <1>0, WalkedDefined
  <2>2. QED BY <1>h, <1>0, <2>1
<1>1. 0 \in Known
  <2> SUFFICES ASSUME NEW t \in Hashes, Off(t) <= 0 PROVE Good(t)
    BY Zenon
  <2>1. Total(t) = 0
    BY <1>h
  <2>2. QED BY <1>0, <2>1
<1>2. ASSUME NEW n \in Nat, n \in Known PROVE n + 1 \in Known
  <2> SUFFICES ASSUME NEW t \in Hashes, Off(t) <= n + 1 PROVE Good(t)
    OBVIOUS
  <2>1. CASE Total(t) = 0
    BY <1>0, <2>1
  <2>2. CASE Total(t) # 0
    <3> DEFINE u == Walk(t)
    <3>1. /\ u \in Hashes /\ Off(u) <= n /\ Off(u) \in Nat
          /\ Total(t) < 0 => Total(u) <= 0 /\ \A i \in 1..HashLength : u[i] >= t[i]
          /\ Total(t) > 0 => Total(u) >= 0 /\ \A i \in 1..HashLength : u[i] <= t[i]
      <4>1. u \in Hashes /\ Off(u) < Off(t) /\ Off(u) \in Nat /\ Off(t) \in Nat
        BY <1>h, <2>2, WalkNears, WalkKeepsSymbols
      <4>2. Total(t) \in Int /\ Total(u) \in Int
        BY <1>h, <4>1
      <4>3. QED BY <1>h, <2>2, <4>1, <4>2, WalkNears, WalkKeepsSymbols
    <3>2. walked[t] = walked[u]
      BY <1>h, <2>2, WalkedDefined
    <3> HIDE DEF u
    <3>3. /\ walked[u] \in Hashes /\ Total(walked[u]) = 0
          /\ Total(u) <= 0 => \A i \in 1..HashLength : walked[u][i] >= u[i]
          /\ Total(u) >= 0 => \A i \in 1..HashLength : walked[u][i] <= u[i]
      BY <1>2, <3>1
    <3>4. ASSUME NEW i \in 1..HashLength
          PROVE t[i] \in Int /\ u[i] \in Int /\ walked[u][i] \in Int
      BY <1>h, <3>1, <3>3
    <3>5. CASE Total(t) < 0
      <4>1. ASSUME NEW i \in 1..HashLength PROVE walked[t][i] >= t[i]
        <5>1. u[i] >= t[i] /\ walked[u][i] >= u[i]
          BY <3>1, <3>3, <3>5
        <5>2. QED BY <3>2, <3>4, <5>1
      <4>2. QED BY <1>h, <3>2, <3>3, <3>5, <4>1
    <3>6. CASE Total(t) > 0
      <4>1. ASSUME NEW i \in 1..HashLength PROVE walked[t][i] <= t[i]
        <5>1. u[i] <= t[i] /\ walked[u][i] <= u[i]
          BY <3>1, <3>3, <3>6
        <5>2. QED BY <3>2, <3>4, <5>1
      <4>2. QED BY <1>h, <3>2, <3>3, <3>6, <4>1
    <3>7. QED BY <1>h, <2>2, <3>5, <3>6
  <2>3. QED BY <2>1, <2>2
<1>3. \A n \in Nat : n \in Known
  <2> HIDE DEF Known
  <2>1. QED BY <1>1, <1>2, Naturals0
<1>4. Good(s)
  <2>1. Off(s) \in Known /\ Off(s) \in Nat
    BY <1>3, <1>h
  <2>2. Off(s) <= Off(s)
    BY <2>1
  <2> HIDE DEF Good
  <2>3. QED BY <2>1, <2>2
<1>5. Total(s) <= 0 \/ Total(s) >= 0
  BY <1>h
<1>6. QED BY <1>4, <1>5, NormalizeIsWalked

-----------------------------------------------------------------------------
(* The inductive invariant.  What sign last made is the hash of a first     *)
(* part of the atoms, at the version of their maker; a chain for each chunk *)
(* of the key; and, when no atom was added since, a piece of the text on    *)
(* every atom a piece is left for, the others holding older ones at most.   *)
Characters == (Nat \ {0}) \X (Nat \ {0})
Atoms == [text : Nat, cut : {"made", "moved"}, index : Nat, version : Versions,
          fragment : Seq(Characters)]
Signatures ==
    [ver : {SigningOtsVersion}, compressed : BOOLEAN,
     steps : [1..Chains[SigningOtsVersion] -> Int]]

TypeOK ==
    /\ atoms \in Seq(Atoms) /\ Len(atoms) >= 1
    /\ address \in {1, 2} /\ source \in BOOLEAN /\ stamp \in Versions
    /\ symbols \in Hashes /\ sigs \in Seq(Signatures)

MadeAs(a, i) == a.text = i /\ a.cut = "made" /\ a.index = i /\ a.version = stamp

AsMade == \A i \in 1..Len(atoms) : MadeAs(atoms[i], i)

(* A changed text is none that was made.                                    *)
Placed == \A i \in 1..Len(atoms) : atoms[i].text \in {0, i}

NoneNewer == \A i \in 1..Len(atoms) : \A k \in 1..Len(atoms[i].fragment) :
    atoms[i].fragment[k][1] <= Len(sigs)

Phases ==
    /\ ~served => AsMade
    /\ served => sigs # << >>
    /\ sigs = << >> => hash = None
    /\ verified # None => served

(* What is hashed of n atoms as they were made.                             *)
Mark(i) == IF stamp # None THEN {<<i, "made", stamp>>} ELSE {<<i>>}
Marks(n) == [i \in 1..n |-> Mark(i)]

LastText == Text(Len(sigs), sigs[Len(sigs)])

Piece(text, size, i) ==
    SubSeq(text, (i - 1) * size + 1, IF i * size > Len(text) THEN Len(text) ELSE i * size)

Pieces(text, size) == \A i \in 1..Len(atoms) :
    IF (i - 1) * size >= Len(text)
    THEN \A k \in 1..Len(atoms[i].fragment) : atoms[i].fragment[k][1] < Len(sigs)
    ELSE atoms[i].fragment = Piece(text, size, i)

LastSigned ==
    sigs # << >> =>
        /\ \E m \in 1..Len(atoms) : hash = Marks(m)
        /\ \A i \in 1..Chains[SigningOtsVersion] :
              sigs[Len(sigs)].steps[i] = Reach - normalize(symbols)[i]
        /\ hash = Marks(Len(atoms)) =>
              Pieces(LastText, ChunkSize(Len(LastText), Len(atoms)))

Told ==
    /\ verified = TRUE => VerifyFromServerData
    /\ verified = FALSE => ~VerifyFromServerData

Inv == TypeOK /\ Placed /\ NoneNewer /\ Phases /\ LastSigned /\ Told

-----------------------------------------------------------------------------
(* The fragments put together: what FlattenSeq makes of them.               *)
Joined(q, f) == [i \in 1..Len(q) |-> IF i = 1 THEN q[i] ELSE f[i - 1] \o q[i]]

LEMMA FlattenJoins ==
    ASSUME NEW q, Len(q) \in Nat \ {0}
    PROVE  \E f : /\ f[1] = q[1] /\ FlattenSeq(q) = f[Len(q)]
                  /\ \A i, j \in 1..Len(q) : i = j + 1 => f[i] = f[j] \o q[i]
<1> DEFINE n == Len(q)
           Upto(k, g) == \A i \in 1..k : g[i] = IF i = 1 THEN q[i] ELSE g[i - 1] \o q[i]
           Known == {k \in Nat : \E g : Upto(k, g)}
<1>1. 0 \in Known
  OBVIOUS
<1>2. ASSUME NEW k \in Nat, k \in Known PROVE k + 1 \in Known
  <2>1. PICK g : Upto(k, g)
    BY <1>2
  <2> DEFINE h == [i \in 1..(k + 1) |-> IF i = 1 THEN q[i] ELSE g[i - 1] \o q[i]]
  <2>2. ASSUME NEW i \in 1..k PROVE h[i] = g[i]
    BY <2>1
  <2>3. ASSUME NEW i \in 1..(k + 1), i # 1 PROVE h[i] = h[i - 1] \o q[i]
    <3>1. i - 1 \in 1..k
      BY <2>3
    <3>2. h[i - 1] = g[i - 1]
      BY <2>2, <3>1
    <3>3. QED BY <2>3, <3>2
  <2>4. Upto(k + 1, h)
    <3>1. \A i \in 1..(k + 1) : i = 1 => h[i] = q[i]
      OBVIOUS
    <3> HIDE DEF h
    <3>2. QED BY <2>3, <3>1
  <2>5. k + 1 \in Nat
    OBVIOUS
  <2> HIDE DEF h, Upto
  <2>6. QED BY <2>4, <2>5
<1>3. \A k \in Nat : k \in Known
  <2> HIDE DEF Known
  <2>1. QED BY <1>1, <1>2, Naturals0
<1>4. PICK g : Upto(n, g)
  BY <1>3
<1> DEFINE f == [i \in 1..n |-> g[i]]
<1>5. f = Joined(q, f)
  <2>1. ASSUME NEW i \in 1..n PROVE f[i] = Joined(q, f)[i]
    <3>1. CASE i = 1
      BY <1>4, <3>1 DEF Joined
    <3>2. CASE i # 1
      <4>1. i - 1 \in 1..n
        BY <3>2
      <4>2. f[i - 1] = g[i - 1]
        BY <4>1
      <4>3. QED BY <1>4, <3>2, <4>2 DEF Joined
    <3>3. QED BY <3>1, <3>2
  <2>2. QED BY <2>1 DEF Joined
<1> DEFINE F == CHOOSE v : v = [i \in 1..Len(q) |-> IF i = 1 THEN q[i] ELSE v[i - 1] \o q[i]]
<1>6. F = Joined(q, F)
  <2>1. F = CHOOSE v : v = Joined(q, v)
    BY Zenon DEF Joined
  <2> HIDE DEF F
  <2>2. QED BY <1>5, <2>1, Zenon
<1>7. FlattenSeq(q) = F[Len(q)]
  <2>1. Len(q) # 0
    OBVIOUS
  <2>2. QED BY <2>1, Zenon DEF FlattenSeq
<1> HIDE DEF F
<1>8. F[1] = q[1]
  <2>1. 1 \in 1..Len(q)
    OBVIOUS
  <2>2. QED BY <1>6, <2>1 DEF Joined
<1>9. ASSUME NEW i \in 1..Len(q), NEW j \in 1..Len(q), i = j + 1
      PROVE  F[i] = F[j] \o q[i]
  <2>1. i # 1 /\ i - 1 = j
    BY <1>9
  <2>2. F[i] = Joined(q, F)[i]
    BY <1>6
  <2>3. QED BY <2>1, <2>2 DEF Joined
<1>10. QED BY <1>7, <1>8, <1>9

(* The pieces of a text, in order, are the text.                            *)
LEMMA FlattenPieces ==
    ASSUME NEW S, NEW text \in Seq(S), NEW q, NEW size \in Nat \ {0},
           Len(q) \in Nat \ {0}, Len(q) * size >= Len(text),
           \A i \in 1..Len(q) : q[i] = Piece(text, size, i)
    PROVE  FlattenSeq(q) = text
<1> DEFINE len == Len(text)
           upto(k) == IF k * size > len THEN len ELSE k * size
<1>1. PICK f : /\ f[1] = q[1] /\ FlattenSeq(q) = f[Len(q)]
               /\ \A m, l \in 1..Len(q) : m = l + 1 => f[m] = f[l] \o q[m]
  BY FlattenJoins
<1>2. ASSUME NEW i \in 1..Len(q), NEW j \in 1..Len(q), i = j + 1
      PROVE  /\ f[i] = f[j] \o Piece(text, size, i)
             /\ Piece(text, size, i) =
                  SubSeq(text, j * size + 1, IF i * size > Len(text) THEN Len(text) ELSE i * size)
  <2>1. i - 1 = j
    BY <1>2
  <2>2. QED BY <1>1, <1>2, <2>1 DEF Piece
<1> DEFINE Known == {k \in Nat : k + 1 \in 1..Len(q) => f[k + 1] = SubSeq(text, 1, upto(k + 1))}
<1>l. len \in Nat
  OBVIOUS
<1>3. 0 \in Known
  <2>1. ASSUME 1 \in 1..Len(q) PROVE f[1] = SubSeq(text, 1, upto(1))
    <3>1. f[1] = Piece(text, size, 1)
      BY <1>1, <2>1
    <3>2. (1 - 1) * size + 1 = 1
      OBVIOUS
    <3>3. QED BY <3>1, <3>2 DEF Piece
  <2>2. QED BY <2>1
<1>4. ASSUME NEW k \in Nat, k \in Known PROVE k + 1 \in Known
  <2> SUFFICES ASSUME k + 2 \in 1..Len(q) PROVE f[k + 2] = SubSeq(text, 1, upto(k + 2))
    OBVIOUS
  <2>1. /\ (k + 1) * size \in Nat /\ (k + 2) * size \in Nat
        /\ (k + 2) * size = (k + 1) * size + size
        /\ k + 2 = (k + 1) + 1 /\ k + 1 \in 1..Len(q)
    OBVIOUS
  <2>2. f[k + 1] = SubSeq(text, 1, upto(k + 1))
    <3> HIDE DEF upto
    <3>1. QED BY <1>4, <2>1
  <2>3. /\ f[k + 2] = f[k + 1] \o Piece(text, size, k + 2)
        /\ Piece(text, size, k + 2) = SubSeq(text, (k + 1) * size + 1, upto(k + 2))
    BY <1>2, <2>1
  <2> DEFINE a == (k + 1) * size
             b == (k + 2) * size
  <2>5. a \in Nat /\ b \in Nat /\ b = a + size /\ size \in Nat /\ a > 0
    BY <2>1
  <2> HIDE DEF a, b
  <2>6. CASE a > len
    <3>1. upto(k + 1) = len /\ upto(k + 2) = len
      BY <1>l, <2>5, <2>6 DEF a, b
    <3>2. SubSeq(text, a + 1, len) = << >>
      BY <1>l, <2>5, <2>6, SubSeqEmpty
    <3>3. SubSeq(text, 1, len) = text
      BY SubSeqFull
    <3>4. text \o << >> = text
      BY ConcatEmptySeq
    <3> HIDE DEF upto
    <3>5. QED BY <2>2, <2>3, <3>1, <3>2, <3>3, <3>4 DEF a
  <2>7. CASE a <= len
    <3>1. upto(k + 1) = a
      BY <1>l, <2>5, <2>7 DEF a
    <3>2. upto(k + 2) \in a..len
      BY <1>l, <2>5, <2>7 DEF b
    <3> HIDE DEF upto
    <3>3. SubSeq(text, 1, a) \o SubSeq(text, a + 1, upto(k + 2)) = SubSeq(text, 1, upto(k + 2))
      <4>1. 1 \in 1..(Len(text) + 1) /\ a \in (1 - 1)..Len(text) /\ upto(k + 2) \in a..Len(text)
        BY <1>l, <2>5, <2>7, <3>2
      <4>2. QED BY <4>1, ConcatAdjacentSubSeq
    <3>4. QED BY <2>2, <2>3, <3>1, <3>3 DEF a
  <2>8. QED BY <1>l, <2>5, <2>6, <2>7
<1>5. \A k \in Nat : k \in Known
  <2> HIDE DEF Known
  <2>1. QED BY <1>3, <1>4, Naturals0
<1>6. f[Len(q)] = SubSeq(text, 1, upto(Len(q)))
  <2>1. PICK k \in Nat : k + 1 = Len(q) /\ k + 1 \in 1..Len(q)
    <3>1. Len(q) - 1 \in Nat /\ Len(q) - 1 + 1 = Len(q) /\ Len(q) - 1 + 1 \in 1..Len(q)
      OBVIOUS
    <3>2. QED BY <3>1
  <2>2. k \in Known
    BY <1>5
  <2> HIDE DEF upto
  <2>3. QED BY <2>1, <2>2
<1>7. upto(Len(q)) = len
  BY <1>l
<1>8. QED BY <1>1, <1>6, <1>7, SubSeqFull

(* Whatever is put together is there in the whole.                          *)
LEMMA FlattenHolds ==
    ASSUME NEW S, NEW q, Len(q) \in Nat \ {0}, \A i \in 1..Len(q) : q[i] \in Seq(S),
           NEW i \in 1..Len(q), NEW k \in 1..Len(q[i])
    PROVE  \E j \in 1..Len(FlattenSeq(q)) : FlattenSeq(q)[j] = q[i][k]
<1>1. PICK f : /\ f[1] = q[1] /\ FlattenSeq(q) = f[Len(q)]
               /\ \A m, l \in 1..Len(q) : m = l + 1 => f[m] = f[l] \o q[m]
  BY FlattenJoins
<1> DEFINE Has(s) == \E j \in 1..Len(s) : s[j] = q[i][k]
           Good(l) == f[l] \in Seq(S) /\ (i <= l => Has(f[l]))
           Known == {n \in Nat : n + 1 \in 1..Len(q) => Good(n + 1)}
<1>3. ASSUME NEW l \in 1..Len(q), l = 1 PROVE Good(l)
  <2>1. f[l] = q[l] /\ q[l] \in Seq(S)
    BY <1>1, <1>3
  <2>2. i <= l => i = l
    BY <1>3
  <2>3. QED BY <2>1, <2>2
<1>4. 0 \in Known
  BY <1>3
<1>5. ASSUME NEW n \in Nat, n \in Known PROVE n + 1 \in Known
  <2> SUFFICES ASSUME n + 2 \in 1..Len(q) PROVE Good(n + 2)
    OBVIOUS
  <2> DEFINE s == f[n + 1]
             t == q[n + 2]
  <2>1. Good(n + 1)
    BY <1>5
  <2>2. n + 2 = (n + 1) + 1 /\ n + 1 \in 1..Len(q)
    OBVIOUS
  <2>3. f[n + 2] = s \o t
    BY <1>1, <2>2
  <2>4. s \in Seq(S) /\ t \in Seq(S)
    BY <2>1
  <2>5. i = n + 2 \/ (i <= n + 2 => i <= n + 1)
    OBVIOUS
  <2>6. /\ s \o t \in Seq(S) /\ Len(s \o t) = Len(s) + Len(t)
        /\ \A j \in 1..(Len(s) + Len(t)) :
              (s \o t)[j] = IF j <= Len(s) THEN s[j] ELSE t[j - Len(s)]
    <3> HIDE DEF s, t
    <3>1. QED BY <2>4, ConcatProperties
  <2>7. Len(s) \in Nat /\ Len(t) \in Nat
    <3> HIDE DEF s, t
    <3>1. QED BY <2>4, LenProperties
  <2>8. ASSUME i = n + 2 PROVE Has(s \o t)
    <3>1. k \in 1..Len(t) /\ t[k] = q[i][k]
      BY <2>8
    <3> HIDE DEF s, t
    <3>2. Len(s) + k \in 1..Len(s \o t) /\ (s \o t)[Len(s) + k] = t[k]
      BY <2>6, <2>7, <3>1
    <3>3. QED BY <3>1, <3>2
  <2>9. ASSUME i <= n + 1 PROVE Has(s \o t)
    <3>1. PICK j \in 1..Len(s) : s[j] = q[i][k]
      BY <2>1, <2>9
    <3> HIDE DEF s, t
    <3>2. j \in 1..Len(s \o t) /\ (s \o t)[j] = s[j]
      BY <2>6, <2>7, <3>1
    <3>3. QED BY <3>1, <3>2
  <2> HIDE DEF s, t, Has
  <2>10. QED BY <2>3, <2>5, <2>6, <2>8, <2>9
<1>6. \A n \in Nat : n \in Known
  <2> HIDE DEF Known
  <2>1. QED BY <1>4, <1>5, Naturals0
<1>7. Good(Len(q))
  <2>1. Len(q) - 1 \in Nat /\ (Len(q) - 1) + 1 = Len(q)
    OBVIOUS
  <2> HIDE DEF Good
  <2>2. QED BY <1>6, <2>1
<1>8. QED BY <1>1, <1>7

(* Enough whole pieces for the text, and none of them empty.                *)
LEMMA ChunksSuffice ==
    ASSUME NEW length \in Nat \ {0}, NEW n \in Nat \ {0}
    PROVE  ChunkSize(length, n) \in Nat \ {0} /\ n * ChunkSize(length, n) >= length
<1> DEFINE a == length + n - 1
           d == a \div n
<1>1. a \in Nat /\ a >= n
  OBVIOUS
<1>2. d \in Int /\ n * d <= a /\ a < n * d + n
  OBVIOUS
<1>3. n * d \in Int
  BY <1>2
<1>4. n * d >= length
  BY <1>2, <1>3
<1> HIDE DEF d
<1>5. d > 0
  <2>1. SUFFICES ASSUME d <= 0 PROVE FALSE
    BY <1>2
  <2>2. n * d <= 0
    BY <1>2, <2>1
  <2>3. QED BY <1>3, <1>4, <2>2
<1>6. QED BY <1>2, <1>4, <1>5 DEF d, ChunkSize

-----------------------------------------------------------------------------
(* What the parts of a state are.                                           *)
LEMMA AtomFacts ==
    ASSUME TypeOK
    PROVE  /\ Len(atoms) \in Nat \ {0} /\ DOMAIN atoms = 1..Len(atoms)
           /\ \A i \in 1..Len(atoms) :
                /\ atoms[i] \in Atoms /\ atoms[i].version \in Versions
                /\ atoms[i].fragment \in Seq(Characters)
                /\ Len(atoms[i].fragment) \in Nat
                /\ \A k \in 1..Len(atoms[i].fragment) : atoms[i].fragment[k] \in Characters
<1>1. Len(atoms) \in Nat \ {0} /\ DOMAIN atoms = 1..Len(atoms)
  BY DEF TypeOK
<1>2. ASSUME NEW i \in 1..Len(atoms) PROVE atoms[i] \in Atoms
  BY DEF TypeOK
<1>3. ASSUME NEW a \in Atoms
      PROVE  /\ a.version \in Versions /\ a.fragment \in Seq(Characters)
             /\ Len(a.fragment) \in Nat
             /\ \A k \in 1..Len(a.fragment) : a.fragment[k] \in Characters
  <2>1. a.version \in Versions /\ a.fragment \in Seq(Characters)
    BY DEF Atoms
  <2>2. QED BY <2>1, LenProperties, ElementOfSeq
<1>4. QED BY <1>1, <1>2, <1>3

LEMMA KeyFacts ==
    ASSUME address \in {1, 2}, source \in BOOLEAN
    PROVE  /\ SigningOtsVersion \in {1, 2}
           /\ Chains[SigningOtsVersion] \in 1..HashLength
           /\ 1..Chains[SigningOtsVersion] \subseteq 1..HashLength
<1>1. SigningOtsVersion \in {1, 2}
  BY DEF SigningOtsVersion
<1>2. Chains[SigningOtsVersion] \in 1..HashLength /\ HashLength \in Nat
  BY <1>1, SignAssumption
<1>3. QED BY <1>1, <1>2

LEMMA SymbolFacts ==
    ASSUME NEW s \in Hashes, NEW i \in 1..HashLength
    PROVE  normalize(s)[i] \in Int /\ normalize(s)[i] \in -Reach..Reach
<1>1. normalize(s) \in Hashes
  BY NormalizeBalances
<1>2. \A r \in -Reach..Reach : r \in Int
  OBVIOUS
<1>3. normalize(s)[i] \in -Reach..Reach
  BY <1>1, Zenon DEF Hashes
<1>4. QED BY <1>2, <1>3, Zenon

LEMMA TextFacts ==
    ASSUME NEW n \in Nat \ {0}, NEW sig, sig.ver \in {1, 2}, sig.compressed \in BOOLEAN
    PROVE  /\ Text(n, sig) \in Seq(Characters) /\ Len(Text(n, sig)) \in Nat \ {0}
           /\ \A k \in 1..Len(Text(n, sig)) : Text(n, sig)[k] = <<n, k>>
<1> DEFINE length == TextLength[sig.ver, sig.compressed]
<1>1. length \in Nat \ {0}
  <2>1. \A v \in {1, 2}, c \in BOOLEAN : TextLength[v, c] \in Nat \ {0}
    <3> DEFINE D == {1, 2} \X BOOLEAN
    <3>1. \A d \in D : TextLength[d] \in Nat \ {0}
      BY SignAssumption, Zenon
    <3>2. \A v \in {1, 2}, c \in BOOLEAN : <<v, c>> \in D
      OBVIOUS
    <3> HIDE DEF D
    <3>3. QED BY <3>1, <3>2, Zenon
  <2>2. QED BY <2>1, Zenon
<1>2. Text(n, sig) = [k \in 1..length |-> <<n, k>>]
  BY DEF Text
<1> HIDE DEF length
<1>3. Text(n, sig) \in [1..length -> Characters]
  BY <1>1, <1>2 DEF Characters
<1>4. Text(n, sig) \in Seq(Characters) /\ Len(Text(n, sig)) = length
  BY <1>1, <1>2, <1>3
<1>5. QED BY <1>1, <1>2, <1>4

SameFields(a, b) ==
    a.text = b.text /\ a.cut = b.cut /\ a.index = b.index /\ a.version = b.version

LEMMA SpreadFacts ==
    ASSUME TypeOK, NEW text \in Seq(Characters), Len(text) \in Nat \ {0}
    PROVE  /\ Spread(text) \in Seq(Atoms) /\ Len(Spread(text)) = Len(atoms)
           /\ \A i \in 1..Len(atoms) :
                /\ SameFields(Spread(text)[i], atoms[i])
                /\ Spread(text)[i].fragment =
                      IF (i - 1) * ChunkSize(Len(text), Len(atoms)) >= Len(text)
                      THEN atoms[i].fragment
                      ELSE Piece(text, ChunkSize(Len(text), Len(atoms)), i)
<1> DEFINE size == ChunkSize(Len(text), Len(atoms))
<1>1. size \in Nat \ {0}
  BY AtomFacts, ChunksSuffice
<1>2. DOMAIN atoms = 1..Len(atoms) /\ Len(atoms) \in Nat
  BY AtomFacts
<1>3. Spread(text) = [i \in 1..Len(atoms) |->
          IF (i - 1) * size >= Len(text) THEN atoms[i]
          ELSE [atoms[i] EXCEPT !.fragment = Piece(text, size, i)]]
  BY <1>2 DEF Spread, Piece
<1> HIDE DEF size
<1>4. ASSUME NEW i \in 1..Len(atoms) PROVE Piece(text, size, i) \in Seq(Characters)
  <2> DEFINE a == (i - 1) * size + 1
             b == IF i * size > Len(text) THEN Len(text) ELSE i * size
  <2>1. a \in Nat /\ a >= 1 /\ b \in Int /\ b <= Len(text)
    <3>1. (i - 1) * size \in Nat /\ i * size \in Nat
      BY <1>1, <1>2
    <3>2. QED BY <3>1
  <2>2. \A j \in a..b : text[j] \in Characters
    <3> HIDE DEF a, b
    <3>1. QED BY <2>1
  <2> HIDE DEF a, b
  <2>3. SubSeq(text, a, b) \in Seq(Characters)
    BY <2>1, <2>2, SubSeqProperties
  <2>4. QED BY <2>3 DEF Piece, a, b
<1>5. ASSUME NEW i \in 1..Len(atoms), NEW f \in Seq(Characters)
      PROVE  /\ [atoms[i] EXCEPT !.fragment = f] \in Atoms
             /\ SameFields([atoms[i] EXCEPT !.fragment = f], atoms[i])
             /\ [atoms[i] EXCEPT !.fragment = f].fragment = f
  BY AtomFacts DEF Atoms, SameFields
<1>6. ASSUME NEW i \in 1..Len(atoms)
      PROVE  /\ Spread(text)[i] \in Atoms
             /\ SameFields(Spread(text)[i], atoms[i])
             /\ Spread(text)[i].fragment =
                   IF (i - 1) * size >= Len(text) THEN atoms[i].fragment
                   ELSE Piece(text, size, i)
  <2>1. CASE (i - 1) * size >= Len(text)
    <3>1. Spread(text)[i] = atoms[i]
      BY <1>3, <2>1
    <3>2. QED BY <2>1, <3>1, AtomFacts DEF SameFields
  <2>2. CASE ~((i - 1) * size >= Len(text))
    <3>1. Spread(text)[i] = [atoms[i] EXCEPT !.fragment = Piece(text, size, i)]
      BY <1>3, <2>2
    <3>2. QED BY <1>4, <1>5, <2>2, <3>1
  <2>3. QED BY <2>1, <2>2
<1>7. Spread(text) \in [1..Len(atoms) -> Atoms]
  BY <1>3, <1>6
<1>8. Spread(text) \in Seq(Atoms) /\ Len(Spread(text)) = Len(atoms)
  <2> DEFINE spread == Spread(text)
  <2>1. spread \in [1..Len(atoms) -> Atoms] /\ DOMAIN spread = 1..Len(atoms)
    BY <1>7
  <2> HIDE DEF spread
  <2>2. QED BY <1>2, <2>1 DEF spread
<1>9. QED BY <1>6, <1>8 DEF size

LEMMA SameUpTo == ASSUME NEW m \in Nat, NEW n \in Nat, 1..m = 1..n PROVE m = n
<1>1. \A i \in Nat : i \in 1..m <=> i \in 1..n
  BY Zenon
<1>2. m \in 1..m \/ m = 0
  OBVIOUS
<1>3. n \in 1..n \/ n = 0
  OBVIOUS
<1>4. QED BY <1>1, <1>2, <1>3

LEMMA MarksFacts ==
    ASSUME NEW m \in Nat
    PROVE  /\ Len(Marks(m)) = m /\ DOMAIN Marks(m) = 1..m
           /\ \A i \in 1..m : Marks(m)[i] = Mark(i)
           /\ \A n \in Nat : Marks(n) = Marks(m) => n = m
<1>1. ASSUME NEW n \in Nat PROVE Len(Marks(n)) = n
  BY DEF Marks
<1>2. QED BY <1>1 DEF Marks

LEMMA Entries ==
    /\ \A a, b, c, d, e, f : {<<a, b, c>>} = {<<d, e, f>>} => a = d /\ b = e /\ c = f
    /\ \A a, b : {<<a>>} = {<<b>>} => a = b
    /\ \A a, b, c, d : <<a, b, c>> # <<d>>
<1>1. \A x, y : {x} = {y} => x = y
  OBVIOUS
<1>2. \A a, b, c, d, e, f : <<a, b, c>> = <<d, e, f>> => a = d /\ b = e /\ c = f
  OBVIOUS
<1>3. \A a, b : <<a>> = <<b>> => a = b
  OBVIOUS
<1>4. ASSUME NEW a, NEW b, NEW c, NEW d PROVE <<a, b, c>> # <<d>>
  <2>1. Len(<<a, b, c>>) = 3 /\ Len(<<d>>) = 1
    OBVIOUS
  <2>2. QED BY <2>1
<1>5. QED BY <1>1, <1>2, <1>3, <1>4

(* hashAtoms of atoms with the texts and cuts, and where it is looked at    *)
(* the index, they were made with.                                          *)
LEMMA ViewMade ==
    ASSUME stamp \in Versions, NEW n \in Nat, NEW as, DOMAIN as = 1..n, n > 0,
           \A i \in 1..n : /\ as[i].text = i /\ as[i].cut = "made" /\ as[i].version = stamp
                           /\ stamp # None => as[i].index = i
    PROVE  View(as) = Marks(n)
<1>1. CASE stamp # None
  <2> DEFINE E(k) == {<<as[i].text, as[i].cut, as[i].version>> :
                         i \in {j \in DOMAIN as : as[j].index = k}}
  <2>1. {as[i].index : i \in DOMAIN as} = 1..n
    BY <1>1
  <2>2. ASSUME NEW k \in 1..n PROVE E(k) = Mark(k)
    <3>1. {j \in DOMAIN as : as[j].index = k} = {k}
      BY <1>1
    <3>2. E(k) = {<<as[k].text, as[k].cut, as[k].version>>}
      BY <3>1
    <3>3. QED BY <1>1, <3>2 DEF Mark
  <2>3. View(as) = [k \in {as[i].index : i \in DOMAIN as} |-> E(k)]
    BY <1>1 DEF View
  <2> HIDE DEF E
  <2>4. QED BY <2>1, <2>2, <2>3 DEF Marks
<1>2. CASE stamp = None
  <2>1. 1 \in DOMAIN as /\ as[1].version = None
    <3>1. 1 \in 1..n
      OBVIOUS
    <3>2. QED BY <1>2, <3>1, Zenon
  <2>2. View(as) = [i \in DOMAIN as |-> {<<as[i].text>>}]
    BY <2>1 DEF View
  <2>3. QED BY <1>2, <2>2 DEF Marks, Mark
<1>3. QED BY <1>1, <1>2

(* What atoms hashed alike have of the ones that were made.                 *)
LEMMA ViewTells ==
    ASSUME stamp \in Versions, NEW n \in Nat, NEW m \in Nat, n > 0, m > 0,
           NEW as, DOMAIN as = 1..n, \A i \in 1..n : as[i].text \in {0, i},
           View(as) = Marks(m)
    PROVE  /\ m = n /\ \A i \in 1..n : as[i].text = i
           /\ stamp # None => \A i \in 1..n : MadeAs(as[i], i)
           /\ stamp = None => \E i \in 1..n : as[i].version = None
<1>m. DOMAIN View(as) = 1..m /\ \A k \in 1..m : View(as)[k] = Mark(k)
  BY MarksFacts
<1>1. CASE \A i \in DOMAIN as : as[i].version # None
  <2> DEFINE E(k) == {<<as[i].text, as[i].cut, as[i].version>> :
                         i \in {j \in DOMAIN as : as[j].index = k}}
  <2>1. View(as) = [k \in {as[i].index : i \in DOMAIN as} |-> E(k)]
    BY <1>1 DEF View
  <2>2. ASSUME NEW i \in 1..n
        PROVE  /\ as[i].index \in 1..m
               /\ <<as[i].text, as[i].cut, as[i].version>> \in Mark(as[i].index)
    <3>1. as[i].index \in DOMAIN View(as) /\ View(as)[as[i].index] = E(as[i].index)
      <4> HIDE DEF E
      <4>1. QED BY <2>1
    <3>2. <<as[i].text, as[i].cut, as[i].version>> \in E(as[i].index)
      OBVIOUS
    <3> HIDE DEF E
    <3>3. QED BY <1>m, <3>1, <3>2
  <2>3. stamp # None
    <3>1. 1 \in 1..n
      OBVIOUS
    <3>2. ASSUME stamp = None PROVE FALSE
      <4>1. <<as[1].text, as[1].cut, as[1].version>> = <<as[1].index>>
        BY <2>2, <3>1, <3>2 DEF Mark
      <4>2. QED BY <4>1, Entries
    <3>3. QED BY <3>2
  <2>4. ASSUME NEW i \in 1..n PROVE MadeAs(as[i], i)
    <3>1. <<as[i].text, as[i].cut, as[i].version>> = <<as[i].index, "made", stamp>>
      BY <2>2, <2>3 DEF Mark
    <3>2. as[i].text = as[i].index /\ as[i].cut = "made" /\ as[i].version = stamp
      BY <3>1, Entries
    <3>3. as[i].index \in 1..m /\ as[i].text \in {0, i}
      BY <2>2
    <3>4. as[i].text = i
      <4> DEFINE t == as[i].text
      <4>1. t \in 1..m /\ t \in {0, i}
        BY <3>2, <3>3, Zenon
      <4> HIDE DEF t
      <4>2. t = i
        BY <4>1
      <4>3. QED BY <4>2 DEF t
    <3>5. QED BY <3>2, <3>4 DEF MadeAs
  <2>5. {as[i].index : i \in DOMAIN as} = 1..n
    BY <2>4 DEF MadeAs
  <2>6. 1..m = 1..n
    <3> HIDE DEF E
    <3>1. QED BY <1>m, <2>1, <2>5
  <2>7. m = n
    BY <2>6, SameUpTo
  <2>8. \A i \in 1..n : as[i].text = i
    BY <2>4 DEF MadeAs
  <2>9. QED BY <2>3, <2>4, <2>7, <2>8
<1>2. CASE \E i \in DOMAIN as : as[i].version = None
  <2>1. View(as) = [i \in DOMAIN as |-> {<<as[i].text>>}]
    BY <1>2 DEF View
  <2>2. 1..m = 1..n
    BY <1>m, <2>1
  <2>3. m = n
    BY <2>2, SameUpTo
  <2>4. ASSUME NEW i \in 1..n PROVE {<<as[i].text>>} = Mark(i)
    BY <1>m, <2>1, <2>3
  <2>5. stamp = None
    <3>1. 1 \in 1..n
      OBVIOUS
    <3>2. ASSUME stamp # None PROVE FALSE
      <4>1. {<<as[1].text>>} = {<<1, "made", stamp>>}
        BY <2>4, <3>1, <3>2 DEF Mark
      <4>2. <<as[1].text>> = <<1, "made", stamp>>
        BY <4>1
      <4>3. QED BY <4>2, Entries
    <3>3. QED BY <3>2
  <2>6. ASSUME NEW i \in 1..n PROVE as[i].text = i
    <3>1. {<<as[i].text>>} = {<<i>>}
      BY <2>4, <2>5 DEF Mark
    <3>2. QED BY <3>1, Entries, Zenon
  <2>7. QED BY <1>2, <2>3, <2>5, <2>6
<1>3. QED BY <1>1, <1>2

(* Nobody looked at a molecule that was not served yet.                     *)
LEMMA NotTold == Phases /\ ~served => verified # TRUE /\ verified # FALSE
BY SignAssumption DEF Phases

LEMMA InvStarts == Init => Inv
<1> SUFFICES ASSUME Init PROVE Inv
  OBVIOUS
<1> USE DEF Init
<1>1. NewAtom(1, stamp) \in Atoms
  <2>1. << >> \in Seq(Characters)
    OBVIOUS
  <2>2. QED BY <2>1 DEF NewAtom, Atoms
<1>2. Len(atoms) = 1 /\ atoms[1] = NewAtom(1, stamp) /\ atoms \in Seq(Atoms)
  BY <1>1
<1>3. symbols \in Hashes /\ sigs \in Seq(Signatures)
  <2>1. 0 \in -Reach..Reach
    BY SignAssumption
  <2>2. QED BY <2>1 DEF Hashes
<1>4. TypeOK
  BY <1>2, <1>3 DEF TypeOK
<1>5. NoneNewer /\ AsMade /\ Placed
  <2>1. MadeAs(NewAtom(1, stamp), 1) /\ NewAtom(1, stamp).fragment = << >>
    BY DEF NewAtom, MadeAs
  <2>2. \A i \in 1..Len(atoms) : i = 1
    BY <1>2
  <2>3. QED BY <1>2, <2>1, <2>2 DEF NoneNewer, AsMade, Placed, MadeAs
<1>6. Phases /\ LastSigned
  BY <1>5 DEF Phases, LastSigned
<1>7. Told
  BY <1>6, NotTold DEF Told
<1>8. QED BY <1>4, <1>5, <1>6, <1>7 DEF Inv

LEMMA AddAtomKeeps == Inv /\ AddAtom => Inv'
<1> SUFFICES ASSUME Inv, AddAtom PROVE Inv'
  OBVIOUS
<1> DEFINE n == Len(atoms)
           new == NewAtom(n + 1, stamp)
<1>1. /\ TypeOK /\ NoneNewer /\ Phases /\ LastSigned /\ Told
      /\ ~served /\ AsMade
  BY DEF Inv, AddAtom, Phases
<1>2. /\ atoms' = Append(atoms, new)
      /\ UNCHANGED <<address, source, stamp, hash, symbols, sigs, served, verified>>
  BY DEF AddAtom
<1>3. new \in Atoms /\ stamp \in Versions
  <2>1. << >> \in Seq(Characters) /\ stamp \in Versions
    BY <1>1 DEF TypeOK
  <2>2. n \in Nat
    BY <1>1, AtomFacts
  <2> HIDE DEF n
  <2>3. QED BY <2>1, <2>2 DEF NewAtom, Atoms
<1>4. n \in Nat \ {0}
  BY <1>1, AtomFacts
<1> HIDE DEF new
<1>5. /\ atoms' \in Seq(Atoms) /\ Len(atoms') = n + 1
      /\ \A i \in 1..n : atoms'[i] = atoms[i]
      /\ atoms'[n + 1] = new
  BY <1>1, <1>2, <1>3 DEF TypeOK
<1>6. ASSUME NEW i \in 1..Len(atoms')
      PROVE  i \in 1..n \/ (i = n + 1 /\ atoms'[i] = new)
  BY <1>4, <1>5
<1>7. Signatures' = Signatures
  BY <1>2 DEF Signatures, SigningOtsVersion
<1>8. TypeOK'
  BY <1>1, <1>2, <1>4, <1>5, <1>7 DEF TypeOK
<1>f. MadeAs(new, n + 1) /\ new.fragment = << >> /\ Len(new.fragment) = 0
  BY DEF NewAtom, MadeAs, new
<1>9. NoneNewer'
  <2>1. ASSUME NEW i \in 1..Len(atoms'), NEW k \in 1..Len(atoms'[i].fragment)
        PROVE  atoms'[i].fragment[k][1] <= Len(sigs)
    <3>1. CASE i \in 1..n
      BY <1>1, <1>5, <2>1, <3>1 DEF NoneNewer
    <3>2. CASE atoms'[i] = new
      BY <1>f, <2>1, <3>2
    <3>3. QED BY <1>6, <3>1, <3>2
  <2>2. QED BY <1>2, <2>1 DEF NoneNewer
<1>10. AsMade'
  <2>1. ASSUME NEW i \in 1..Len(atoms') PROVE MadeAs(atoms'[i], i)
    <3>1. CASE i \in 1..n
      BY <1>1, <1>5, <3>1 DEF AsMade
    <3>2. CASE i = n + 1 /\ atoms'[i] = new
      BY <1>f, <3>2
    <3>3. QED BY <1>6, <3>1, <3>2
  <2>2. QED BY <1>2, <2>1 DEF AsMade, MadeAs
<1>p. Placed'
  BY <1>10 DEF AsMade, Placed, MadeAs
<1>11. Phases'
  BY <1>1, <1>2, <1>10 DEF Phases
<1>12. LastSigned'
  <2> SUFFICES ASSUME sigs' # << >> PROVE LastSigned'
    BY DEF LastSigned
  <2>1. PICK m \in 1..n : hash = Marks(m)
    BY <1>1, <1>2 DEF LastSigned
  <2>2. m \in 1..Len(atoms') /\ m \in Nat /\ Len(atoms') \in Nat /\ m # Len(atoms')
    BY <1>4, <1>5, <2>1
  <2>3. hash' = Marks(m)' /\ hash' # Marks(Len(atoms'))
    <3>1. Marks(m)' = Marks(m) /\ hash' = hash
      BY <1>2 DEF Marks, Mark
    <3>2. QED BY <2>1, <2>2, <3>1, MarksFacts
  <2>4. Marks(Len(atoms))' = Marks(Len(atoms'))
    BY <1>2 DEF Marks, Mark
  <2>5. SigningOtsVersion' = SigningOtsVersion
    BY <1>2 DEF SigningOtsVersion
  <2>6. \A i \in 1..Chains[SigningOtsVersion] :
              sigs[Len(sigs)].steps[i] = Reach - normalize(symbols)[i]
    BY <1>1, <1>2 DEF LastSigned
  <2>7. normalize(symbols)' = normalize(symbols)
    BY <1>2
  <2>8. \A i \in 1..Chains[SigningOtsVersion'] :
              sigs'[Len(sigs')].steps[i] = Reach - normalize(symbols')[i]
    BY <1>2, <2>5, <2>6
  <2>9. QED BY <2>2, <2>3, <2>4, <2>8 DEF LastSigned
<1>13. Told'
  BY <1>1, <1>2, NotTold DEF Told
<1>14. QED BY <1>8, <1>9, <1>p, <1>11, <1>12, <1>13 DEF Inv

LEMMA ChangesFacts ==
    ASSUME Inv, NEW changed \in Changes(atoms), NEW i \in 1..Len(atoms)
    PROVE  /\ changed[i] \in Atoms /\ changed[i].fragment = atoms[i].fragment
           /\ changed[i].text \in {0, i}
<1>1. /\ DOMAIN atoms = 1..Len(atoms) /\ \A j \in 1..Len(atoms) : atoms[j] \in Atoms
      /\ atoms[i].text \in {0, i}
  BY AtomFacts DEF Inv, Placed
<1>2. CASE changed = atoms
  BY <1>1, <1>2
<1>3. ASSUME NEW j \in DOMAIN atoms, changed = [atoms EXCEPT ![j].text = 0]
      PROVE  /\ changed[i] \in Atoms /\ changed[i].fragment = atoms[i].fragment
             /\ changed[i].text \in {0, i}
  <2>1. changed[i] = IF i = j THEN [atoms[i] EXCEPT !.text = 0] ELSE atoms[i]
    BY <1>1, <1>3
  <2>2. QED BY <1>1, <2>1 DEF Atoms
<1>4. ASSUME NEW j \in DOMAIN atoms, changed = [atoms EXCEPT ![j].cut = "moved"]
      PROVE  /\ changed[i] \in Atoms /\ changed[i].fragment = atoms[i].fragment
             /\ changed[i].text \in {0, i}
  <2>1. changed[i] = IF i = j THEN [atoms[i] EXCEPT !.cut = "moved"] ELSE atoms[i]
    BY <1>1, <1>4
  <2>2. QED BY <1>1, <2>1 DEF Atoms
<1>5. ASSUME NEW j \in DOMAIN atoms, NEW k \in DOMAIN atoms,
             changed = Exchanged(atoms, j, k)
      PROVE  /\ changed[i] \in Atoms /\ changed[i].fragment = atoms[i].fragment
             /\ changed[i].text \in {0, i}
  <2>1. atoms[j].index \in Nat /\ atoms[k].index \in Nat
    BY <1>1 DEF Atoms
  <2> DEFINE to(x) == [atoms[i] EXCEPT !.index = x]
  <2>2. ASSUME NEW x \in Nat
        PROVE  /\ to(x) \in Atoms /\ to(x).fragment = atoms[i].fragment
               /\ to(x).text \in {0, i}
    BY <1>1 DEF Atoms
  <2>3. \/ changed[i] = atoms[i]
        \/ changed[i] = to(atoms[k].index)
        \/ changed[i] = to(atoms[j].index)
    <3> DEFINE once == [atoms EXCEPT ![j].index = atoms[k].index]
    <3>1. changed = [once EXCEPT ![k].index = atoms[j].index]
      BY <1>5 DEF Exchanged
    <3>2. DOMAIN once = DOMAIN atoms
          /\ once[i] = IF i = j THEN to(atoms[k].index) ELSE atoms[i]
      BY <1>1
    <3>3. changed[i] = IF i = k THEN [once[i] EXCEPT !.index = atoms[j].index] ELSE once[i]
      <4> HIDE DEF once
      <4>1. QED BY <1>1, <3>1, <3>2
    <3>4. [to(atoms[k].index) EXCEPT !.index = atoms[j].index] = to(atoms[j].index)
      BY <1>1, <2>1 DEF Atoms
    <3>5. [atoms[i] EXCEPT !.index = atoms[j].index] = to(atoms[j].index)
      OBVIOUS
    <3> HIDE DEF once, to
    <3>6. CASE i = k
      <4>1. changed[i] = [once[i] EXCEPT !.index = atoms[j].index]
        BY <3>3, <3>6
      <4>2. QED BY <3>2, <3>4, <3>5, <4>1
    <3>7. CASE i # k
      BY <3>2, <3>3, <3>7
    <3>8. QED BY <3>6, <3>7
  <2> HIDE DEF to
  <2>4. QED BY <1>1, <2>1, <2>2, <2>3
<1>6. ASSUME changed = Unindexed(atoms)
      PROVE  /\ changed[i] \in Atoms /\ changed[i].fragment = atoms[i].fragment
             /\ changed[i].text \in {0, i}
  <2>1. changed[i] = [atoms[i] EXCEPT !.index = 1]
    BY <1>1, <1>6 DEF Unindexed
  <2>2. QED BY <1>1, <2>1 DEF Atoms
<1>7. \/ changed = atoms
      \/ \E j \in DOMAIN atoms : changed = [atoms EXCEPT ![j].text = 0]
      \/ \E j \in DOMAIN atoms : changed = [atoms EXCEPT ![j].cut = "moved"]
      \/ \E j, k \in DOMAIN atoms : changed = Exchanged(atoms, j, k)
      \/ changed = Unindexed(atoms)
  BY DEF Changes
<1>8. QED BY <1>2, <1>3, <1>4, <1>5, <1>6, <1>7, Zenon

LEMMA ServeKeeps == Inv /\ Serve => Inv'
<1> SUFFICES ASSUME Inv, Serve PROVE Inv'
  OBVIOUS
<1>1. TypeOK /\ NoneNewer /\ Phases /\ LastSigned /\ Told
  BY DEF Inv
<1>2. /\ ~served /\ hash # None /\ served'
      /\ UNCHANGED <<address, source, stamp, hash, symbols, sigs, verified>>
  BY DEF Serve
<1>3. PICK versions \in [DOMAIN atoms -> Versions], changed \in Changes(atoms) :
        atoms' = [i \in DOMAIN atoms |-> [changed[i] EXCEPT !.version = versions[i]]]
  BY DEF Serve
<1>4. Len(atoms) \in Nat \ {0} /\ DOMAIN atoms = 1..Len(atoms)
  BY <1>1, AtomFacts
<1>c. ASSUME NEW i \in 1..Len(atoms)
      PROVE  /\ changed[i] \in Atoms /\ changed[i].fragment = atoms[i].fragment
             /\ changed[i].text \in {0, i}
  BY ChangesFacts
<1>5. ASSUME NEW i \in 1..Len(atoms)
      PROVE  /\ atoms'[i] \in Atoms /\ atoms'[i].fragment = atoms[i].fragment
             /\ atoms'[i].text \in {0, i}
  <2>1. versions[i] \in Versions
    BY <1>3, <1>4
  <2>2. atoms'[i] = [changed[i] EXCEPT !.version = versions[i]]
    BY <1>3, <1>4
  <2>3. QED BY <1>c, <2>1, <2>2 DEF Atoms
<1>6. atoms' \in [1..Len(atoms) -> Atoms] /\ DOMAIN atoms' = 1..Len(atoms)
  BY <1>3, <1>4, <1>5
<1>7. atoms' \in Seq(Atoms) /\ Len(atoms') = Len(atoms)
  BY <1>4, <1>6
<1>8. Signatures' = Signatures /\ SigningOtsVersion' = SigningOtsVersion
  BY <1>2 DEF Signatures, SigningOtsVersion
<1>9. TypeOK'
  BY <1>1, <1>2, <1>4, <1>7, <1>8 DEF TypeOK
<1>10. NoneNewer'
  BY <1>1, <1>2, <1>5, <1>7 DEF NoneNewer
<1>p. Placed'
  BY <1>5, <1>7 DEF Placed
<1>11. Phases'
  BY <1>1, <1>2 DEF Phases
<1>12. LastSigned'
  <2> SUFFICES ASSUME sigs # << >>
               PROVE  LastSigned'
    BY <1>2 DEF LastSigned
  <2>1. \E m \in 1..Len(atoms) : hash = Marks(m)
    BY <1>1 DEF LastSigned
  <2>2. \A i \in 1..Chains[SigningOtsVersion] :
              sigs[Len(sigs)].steps[i] = Reach - normalize(symbols)[i]
    BY <1>1 DEF LastSigned
  <2>3. hash = Marks(Len(atoms)) => Pieces(LastText, ChunkSize(Len(LastText), Len(atoms)))
    BY <1>1 DEF LastSigned
  <2>4. \A m : Marks(m)' = Marks(m')
    BY <1>2 DEF Marks, Mark
  <2>5. LastText' = LastText
    BY <1>2 DEF LastText
  <2>6. \A text, size : Pieces(text, size) =>
            \A i \in 1..Len(atoms') :
               IF (i - 1) * size >= Len(text)
               THEN \A k \in 1..Len(atoms'[i].fragment) : atoms'[i].fragment[k][1] < Len(sigs')
               ELSE atoms'[i].fragment = Piece(text, size, i)
    BY <1>2, <1>5, <1>7 DEF Pieces
  <2>7. \E m \in 1..Len(atoms') : hash' = Marks(m)'
    BY <1>2, <1>7, <2>1 DEF Marks, Mark
  <2>8. \A i \in 1..Chains[SigningOtsVersion'] :
              sigs'[Len(sigs')].steps[i] = Reach - normalize(symbols')[i]
    BY <1>2, <1>8, <2>2
  <2>9. hash' = Marks(Len(atoms))' => Pieces(LastText, ChunkSize(Len(LastText), Len(atoms)))'
    <3>1. Marks(Len(atoms))' = Marks(Len(atoms))
      BY <1>2, <1>7 DEF Marks, Mark
    <3>2. QED BY <1>2, <1>7, <2>3, <2>5, <2>6, <3>1 DEF Pieces
  <2>10. QED BY <2>7, <2>8, <2>9 DEF LastSigned
<1>13. Told'
  BY <1>1, <1>2, NotTold DEF Told
<1>14. QED BY <1>9, <1>10, <1>p, <1>11, <1>12, <1>13 DEF Inv

LEMMA VerifyKeeps == Inv /\ Verify => Inv'
<1> SUFFICES ASSUME Inv, Verify PROVE Inv'
  OBVIOUS
<1>1. TypeOK /\ Placed /\ NoneNewer /\ Phases /\ LastSigned
  BY DEF Inv
<1>2. /\ served /\ verified' = VerifyFromServerData
      /\ UNCHANGED <<atoms, address, source, stamp, hash, symbols, sigs, served>>
  BY DEF Verify
<1>3. TypeOK' /\ Placed' /\ NoneNewer' /\ LastSigned'
  <2>1. TypeOK'
    BY <1>1, <1>2 DEF TypeOK, Signatures, SigningOtsVersion
  <2>2. NoneNewer'
    BY <1>1, <1>2 DEF NoneNewer
  <2>3. LastSigned'
    BY <1>1, <1>2 DEF LastSigned, Marks, Mark, SigningOtsVersion, Pieces, LastText
  <2>4. QED BY <1>1, <1>2, <2>1, <2>2, <2>3 DEF Placed
<1>4. Phases'
  BY <1>1, <1>2 DEF Phases
<1>5. VerifyFromServerData' = VerifyFromServerData
  BY <1>2 DEF VerifyFromServerData, VerifyClient, VerifyMolecularHash, VerifyOts, Assembled,
              Retryable, Forced, View
<1>6. Told'
  BY <1>2, <1>5, Zenon DEF Told
<1>7. QED BY <1>3, <1>4, <1>6 DEF Inv

LEMMA SignKeeps == ASSUME Inv, NEW compressed \in BOOLEAN, Sign(compressed) PROVE Inv'
<1> DEFINE n == Len(atoms)
           last == Signature(symbols', compressed)
           number == Len(sigs) + 1
           text == Text(number, last)
           size == ChunkSize(Len(text), n)
<1>1. TypeOK /\ NoneNewer /\ Phases /\ ~served /\ AsMade
  BY DEF Inv, Sign, Phases
<1>2. n \in Nat \ {0} /\ DOMAIN atoms = 1..n
  BY <1>1, AtomFacts
<1>3. View(atoms) = Marks(n)
  <2>1. stamp \in Versions /\ \A i \in 1..n : MadeAs(atoms[i], i)
    BY <1>1 DEF AsMade, TypeOK
  <2>2. QED BY <1>2, <2>1, ViewMade DEF MadeAs
<1>4. /\ hash' = Marks(n) /\ sigs' = Append(sigs, last)
      /\ UNCHANGED <<address, source, stamp, served, verified>>
      /\ atoms' = Spread(Text(Len(sigs'), sigs'[Len(sigs')]))
  BY <1>3 DEF Sign
<1>5. symbols' \in Hashes
  <2>1. symbols \in Hashes /\ Symbols \subseteq Hashes
    BY <1>1, SignAssumption DEF TypeOK, Hashes
  <2>2. symbols' = symbols \/ symbols' \in Symbols
    BY DEF Sign
  <2>3. QED BY <2>1, <2>2
<1>6. /\ address \in {1, 2} /\ source \in BOOLEAN /\ sigs \in Seq(Signatures)
      /\ SigningOtsVersion \in {1, 2} /\ 1..Chains[SigningOtsVersion] \subseteq 1..HashLength
  BY <1>1, KeyFacts DEF TypeOK
<1>7. /\ last \in Signatures /\ last.ver \in {1, 2} /\ last.compressed \in BOOLEAN
      /\ last.steps = [i \in 1..Chains[SigningOtsVersion] |-> Reach - normalize(symbols')[i]]
  <2> DEFINE steps == [i \in 1..Chains[SigningOtsVersion] |-> Reach - normalize(symbols')[i]]
  <2>1. ASSUME NEW i \in 1..Chains[SigningOtsVersion]
        PROVE  Reach - normalize(symbols')[i] \in Int
    <3>1. normalize(symbols')[i] \in Int
      BY <1>5, <1>6, SymbolFacts
    <3>2. QED BY <3>1, SignAssumption
  <2>2. steps \in [1..Chains[SigningOtsVersion] -> Int]
    BY <2>1
  <2>3. last = [ver |-> SigningOtsVersion, compressed |-> compressed, steps |-> steps]
    BY DEF Signature
  <2> HIDE DEF steps, last
  <2>4. QED BY <1>6, <2>2, <2>3 DEF Signatures, steps
<1> HIDE DEF last
<1>8. /\ Len(sigs) \in Nat /\ Len(sigs') = number /\ number \in Nat \ {0}
      /\ sigs'[number] = last /\ sigs' \in Seq(Signatures)
  BY <1>4, <1>6, <1>7
<1>9. /\ text \in Seq(Characters) /\ Len(text) \in Nat \ {0}
      /\ \A k \in 1..Len(text) : text[k] = <<number, k>>
  BY <1>7, <1>8, TextFacts
<1>10. atoms' = Spread(text)
  BY <1>4, <1>8
<1> HIDE DEF text
<1>11. /\ atoms' \in Seq(Atoms) /\ Len(atoms') = n
       /\ \A i \in 1..n :
            /\ SameFields(atoms'[i], atoms[i])
            /\ atoms'[i].fragment = IF (i - 1) * size >= Len(text) THEN atoms[i].fragment
                                    ELSE Piece(text, size, i)
  BY <1>1, <1>9, <1>10, SpreadFacts
<1>12. size \in Nat \ {0}
  BY <1>2, <1>9, ChunksSuffice
<1> HIDE DEF size, number
<1>13. Signatures' = Signatures /\ SigningOtsVersion' = SigningOtsVersion
  BY <1>4 DEF Signatures, SigningOtsVersion
<1>14. TypeOK'
  BY <1>1, <1>2, <1>4, <1>5, <1>8, <1>11, <1>13 DEF TypeOK
<1>15. AsMade' /\ Placed'
  <2>1. ASSUME NEW i \in 1..n PROVE MadeAs(atoms'[i], i)
    BY <1>1, <1>11 DEF AsMade, MadeAs, SameFields, n
  <2>2. AsMade'
    BY <1>4, <1>11, <2>1 DEF AsMade, MadeAs
  <2>3. Placed'
    BY <2>2 DEF AsMade, Placed, MadeAs
  <2>4. QED BY <2>2, <2>3
<1>16. ASSUME NEW i \in 1..n, NEW k \in 1..Len(atoms[i].fragment)
       PROVE  atoms[i].fragment[k][1] < number
  <2>1. atoms[i].fragment[k][1] <= Len(sigs)
    BY <1>1, <1>16 DEF NoneNewer
  <2>2. atoms[i].fragment[k] \in Characters
    BY <1>1, <1>16, AtomFacts
  <2>3. atoms[i].fragment[k][1] \in Nat
    BY <2>2 DEF Characters
  <2>4. QED BY <1>8, <2>1, <2>3 DEF number
<1>17. ASSUME NEW i \in 1..n, ~((i - 1) * size >= Len(text)), NEW k \in 1..Len(Piece(text, size, i))
       PROVE  Piece(text, size, i)[k][1] = number
  <2> DEFINE a == (i - 1) * size + 1
             b == IF i * size > Len(text) THEN Len(text) ELSE i * size
  <2>1. a \in Nat /\ a >= 1 /\ b \in Int /\ b <= Len(text)
    <3>1. (i - 1) * size \in Nat /\ i * size \in Nat
      BY <1>2, <1>12
    <3>2. QED BY <1>9, <3>1
  <2>2. \A j \in a..b : text[j] = <<number, j>> /\ text[j] \in Characters
    <3> HIDE DEF a, b
    <3>1. QED BY <1>9, <2>1
  <2>3. Piece(text, size, i) = SubSeq(text, a, b)
    BY DEF Piece
  <2> HIDE DEF a, b
  <2>4. /\ Len(SubSeq(text, a, b)) = IF a <= b THEN b - a + 1 ELSE 0
        /\ \A j \in 1..(b - a + 1) : SubSeq(text, a, b)[j] = text[a + j - 1]
    BY <2>1, <2>2, SubSeqProperties
  <2>5. k \in 1..(b - a + 1) /\ a + k - 1 \in a..b
    BY <1>17, <2>1, <2>3, <2>4
  <2>6. Piece(text, size, i)[k] = text[a + k - 1]
    BY <2>3, <2>4, <2>5
  <2>7. QED BY <2>2, <2>5, <2>6
<1>18. NoneNewer'
  <2>1. ASSUME NEW i \in 1..n, NEW k \in 1..Len(atoms'[i].fragment)
        PROVE  atoms'[i].fragment[k][1] <= number
    <3>1. CASE (i - 1) * size >= Len(text)
      <4>1. atoms'[i].fragment = atoms[i].fragment
        BY <1>11, <3>1
      <4>2. atoms[i].fragment[k] \in Characters
        BY <1>1, <2>1, <4>1, AtomFacts
      <4>3. atoms[i].fragment[k][1] \in Nat
        BY <4>2 DEF Characters
      <4>4. atoms[i].fragment[k][1] < number
        BY <1>16, <2>1, <4>1
      <4>5. QED BY <1>8, <4>1, <4>3, <4>4
    <3>2. CASE ~((i - 1) * size >= Len(text))
      <4>1. atoms'[i].fragment = Piece(text, size, i)
        BY <1>11, <3>2
      <4>2. Piece(text, size, i)[k][1] = number
        BY <1>17, <2>1, <3>2, <4>1
      <4>3. QED BY <1>8, <4>1, <4>2
    <3>3. QED BY <3>1, <3>2
  <2>2. QED BY <1>8, <1>11, <2>1 DEF NoneNewer
<1>19. sigs' # << >>
  BY <1>8
<1>20. Phases'
  BY <1>1, <1>4, <1>15, <1>19 DEF Phases
<1>21. LastSigned'
  <2>1. \A m : Marks(m)' = Marks(m')
    BY <1>4 DEF Marks, Mark
  <2>2. \E m \in 1..Len(atoms') : hash' = Marks(m)'
    <3>1. n \in 1..Len(atoms') /\ hash' = Marks(n)
      BY <1>2, <1>4, <1>11
    <3>2. QED BY <1>4, <3>1 DEF Marks, Mark
  <2>3. \A i \in 1..Chains[SigningOtsVersion'] :
              sigs'[Len(sigs')].steps[i] = Reach - normalize(symbols')[i]
    BY <1>7, <1>8, <1>13
  <2>4. LastText' = text
    BY <1>8 DEF LastText, text
  <2>5. ChunkSize(Len(LastText), Len(atoms))' = size
    BY <1>11, <2>4 DEF size, ChunkSize
  <2>6. \A i \in 1..Len(atoms') :
            IF (i - 1) * size >= Len(text)
            THEN \A k \in 1..Len(atoms'[i].fragment) : atoms'[i].fragment[k][1] < Len(sigs')
            ELSE atoms'[i].fragment = Piece(text, size, i)
    BY <1>8, <1>11, <1>16
  <2>7. Pieces(LastText, ChunkSize(Len(LastText), Len(atoms)))'
    BY <2>4, <2>5, <2>6 DEF Pieces
  <2>8. QED BY <2>2, <2>3, <2>7 DEF LastSigned
<1>22. Told'
  BY <1>1, <1>4, NotTold DEF Told
<1>23. QED BY <1>14, <1>15, <1>18, <1>20, <1>21, <1>22 DEF Inv

LEMMA Invariance == Spec => []Inv
<1>1. Inv /\ [Next]_vars => Inv'
  <2> SUFFICES ASSUME Inv, [Next]_vars PROVE Inv'
    OBVIOUS
  <2>1. CASE AddAtom
    BY <2>1, AddAtomKeeps
  <2>2. CASE Serve
    BY <2>2, ServeKeeps
  <2>3. CASE Verify
    BY <2>3, VerifyKeeps
  <2>4. ASSUME NEW compressed \in BOOLEAN, Sign(compressed) PROVE Inv'
    BY <2>4, SignKeeps
  <2>5. CASE UNCHANGED vars
    <3> USE <2>5 DEF vars
    <3>1. TypeOK' /\ Placed' /\ NoneNewer' /\ Phases'
      BY DEF Inv, TypeOK, Signatures, SigningOtsVersion, Placed, NoneNewer, Phases, AsMade, MadeAs
    <3>2. LastSigned'
      BY DEF Inv, LastSigned, Marks, Mark, LastText, Pieces, SigningOtsVersion
    <3>3. VerifyFromServerData' = VerifyFromServerData
      BY DEF VerifyFromServerData, VerifyClient, VerifyMolecularHash, VerifyOts, Assembled,
             Retryable, Forced, View
    <3>4. Told'
      BY <3>3 DEF Inv, Told
    <3>5. QED BY <3>1, <3>2, <3>4 DEF Inv
  <2>6. QED BY <2>1, <2>2, <2>3, <2>4, <2>5 DEF Next
<1>2. QED BY <1>1, InvStarts, PTL DEF Spec

-----------------------------------------------------------------------------
(* What a state of Inv tells of a signed molecule no atom was added to.     *)
LEMMA SignedFacts ==
    ASSUME Inv, sigs # << >>
    PROVE  /\ Len(sigs) \in Nat \ {0} /\ DOMAIN sigs = 1..Len(sigs)
           /\ \A n \in 1..Len(sigs) :
                /\ sigs[n].ver = SigningOtsVersion /\ sigs[n].ver \in {1, 2}
                /\ sigs[n].compressed \in BOOLEAN
                /\ DOMAIN sigs[n].steps = 1..Chains[SigningOtsVersion]
           /\ LastText \in Seq(Characters) /\ Len(LastText) \in Nat \ {0}
           /\ \A k \in 1..Len(LastText) : LastText[k] = <<Len(sigs), k>>
           /\ \E m \in 1..Len(atoms) : hash = Marks(m) /\ Len(hash) = m /\ m \in Nat \ {0}
<1>1. Len(sigs) \in Nat \ {0} /\ DOMAIN sigs = 1..Len(sigs)
  BY DEF Inv, TypeOK
<1>2. ASSUME NEW n \in 1..Len(sigs)
      PROVE  /\ sigs[n].ver = SigningOtsVersion /\ sigs[n].ver \in {1, 2}
             /\ sigs[n].compressed \in BOOLEAN
             /\ DOMAIN sigs[n].steps = 1..Chains[SigningOtsVersion]
  <2>1. sigs[n] \in Signatures
    BY DEF Inv, TypeOK
  <2>2. SigningOtsVersion \in {1, 2}
    BY KeyFacts DEF Inv, TypeOK
  <2>3. QED BY <2>1, <2>2 DEF Signatures
<1>3. /\ LastText \in Seq(Characters) /\ Len(LastText) \in Nat \ {0}
      /\ \A k \in 1..Len(LastText) : LastText[k] = <<Len(sigs), k>>
  <2>1. sigs[Len(sigs)].ver \in {1, 2} /\ sigs[Len(sigs)].compressed \in BOOLEAN
    BY <1>1, <1>2
  <2>2. QED BY <1>1, <2>1, TextFacts DEF LastText
<1>4. PICK m \in 1..Len(atoms) : hash = Marks(m)
  BY DEF Inv, LastSigned
<1>5. m \in Nat \ {0} /\ Len(hash) = m
  <2>1. m \in Nat \ {0}
    BY AtomFacts DEF Inv
  <2>2. QED BY <1>4, <2>1, MarksFacts
<1>6. QED BY <1>1, <1>2, <1>3, <1>4, <1>5

LEMMA AssembledFacts ==
    ASSUME Inv
    PROVE  /\ Len([i \in DOMAIN atoms |-> atoms[i].fragment]) = Len(atoms)
           /\ \A i \in 1..Len(atoms) :
                [j \in DOMAIN atoms |-> atoms[j].fragment][i] = atoms[i].fragment
<1>1. DOMAIN atoms = 1..Len(atoms) /\ Len(atoms) \in Nat
  BY AtomFacts DEF Inv
<1>2. [i \in DOMAIN atoms |-> atoms[i].fragment] = [i \in 1..Len(atoms) |-> atoms[i].fragment]
  BY <1>1
<1>3. Len([i \in 1..Len(atoms) |-> atoms[i].fragment]) = Len(atoms)
  BY <1>1
<1>4. QED BY <1>1, <1>2, <1>3

(* The pieces of the last signature are put together and its chains end     *)
(* where the address says.                                                  *)
LEMMA WholeAccepted ==
    ASSUME Inv, sigs # << >>, Len(atoms) = Len(hash), WellSigned
    PROVE  VerifyOts
<1> DEFINE n == Len(sigs)
           size == ChunkSize(Len(LastText), Len(atoms))
           q == [i \in DOMAIN atoms |-> atoms[i].fragment]
<1>1. /\ n \in Nat \ {0} /\ n \in DOMAIN sigs
      /\ LastText \in Seq(Characters) /\ Len(LastText) \in Nat \ {0}
  BY SignedFacts
<1>2. hash = Marks(Len(atoms))
  BY SignedFacts
<1>3. Pieces(LastText, size)
  BY <1>2 DEF Inv, LastSigned
<1>4. Len(atoms) \in Nat \ {0} /\ DOMAIN atoms = 1..Len(atoms)
  BY AtomFacts DEF Inv
<1>5. size \in Nat \ {0} /\ Len(atoms) * size >= Len(LastText)
  BY <1>1, <1>4, ChunksSuffice
<1> HIDE DEF size
<1>6. ASSUME NEW i \in 1..Len(atoms) PROVE atoms[i].fragment = Piece(LastText, size, i)
  <2>1. CASE ~((i - 1) * size >= Len(LastText))
    BY <1>3, <2>1 DEF Pieces
  <2>2. CASE (i - 1) * size >= Len(LastText)
    <3> DEFINE b == IF i * size > Len(LastText) THEN Len(LastText) ELSE i * size
    <3>1. (i - 1) * size \in Nat /\ i * size \in Nat
      BY <1>4, <1>5
    <3>2. (i - 1) * size + 1 \in Int /\ b \in Int /\ b < (i - 1) * size + 1
      BY <1>1, <2>2, <3>1
    <3>3. Piece(LastText, size, i) = SubSeq(LastText, (i - 1) * size + 1, b)
      BY DEF Piece
    <3> HIDE DEF b
    <3>4. Piece(LastText, size, i) = << >>
      BY <3>2, <3>3, SubSeqEmpty
    <3>5. atoms[i].fragment \in Seq(Characters)
      BY AtomFacts DEF Inv
    <3>6. ASSUME NEW k \in 1..Len(atoms[i].fragment) PROVE FALSE
      <4>1. atoms[i].fragment[k][1] < n
        BY <1>3, <2>2, <3>6 DEF Pieces
      <4>2. atoms[i].fragment[k] \in Range(atoms[i].fragment)
        BY <3>5, <3>6 DEF Range
      <4>3. atoms[i].fragment[k][1] = n
        BY <1>4, <4>2 DEF WellSigned
      <4>4. QED BY <1>1, <4>1, <4>3
    <3>7. Len(atoms[i].fragment) \in Nat
      BY <3>5
    <3>8. Len(atoms[i].fragment) = 0
      BY <3>6, <3>7
    <3>9. atoms[i].fragment = << >>
      BY <3>5, <3>8, EmptySeq
    <3>10. QED BY <3>4, <3>9
  <2>3. QED BY <2>1, <2>2
<1>7. FlattenSeq(q) = LastText
  <2>1. Len(q) = Len(atoms) /\ \A i \in 1..Len(q) : q[i] = Piece(LastText, size, i)
    BY <1>6, AssembledFacts
  <2> HIDE DEF q
  <2>2. QED BY <1>1, <1>4, <1>5, <2>1, FlattenPieces
<1>8. Assembled = Text(n, sigs[n]) /\ sigs[n].ver = address
  BY <1>7 DEF Assembled, LastText, WellSigned
<1>9. ASSUME NEW i \in DOMAIN sigs[n].steps
      PROVE  sigs[n].steps[i] + Reach + normalize(symbols)[i] = 2 * Reach
  <2>1. i \in 1..Chains[SigningOtsVersion]
    BY <1>1, SignedFacts
  <2>2. sigs[n].steps[i] = Reach - normalize(symbols)[i]
    BY <2>1 DEF Inv, LastSigned
  <2>3. normalize(symbols)[i] \in Int
    <3>1. symbols \in Hashes /\ address \in {1, 2} /\ source \in BOOLEAN
      BY DEF Inv, TypeOK
    <3>2. i \in 1..HashLength
      BY <2>1, <3>1, KeyFacts, Zenon
    <3>3. QED BY <3>1, <3>2, SymbolFacts, Zenon
  <2>4. Reach \in Int
    BY SignAssumption
  <2>5. QED BY <2>2, <2>3, <2>4
<1>10. QED BY <1>1, <1>8, <1>9 DEF VerifyOts

(* A whole signature on as many atoms as were hashed is the one made last,  *)
(* and nothing but it.                                                      *)
LEMMA AcceptedWhole ==
    ASSUME Inv, sigs # << >>, Len(atoms) = Len(hash), VerifyOts
    PROVE  WellSigned
<1> DEFINE size == ChunkSize(Len(LastText), Len(atoms))
           q == [i \in DOMAIN atoms |-> atoms[i].fragment]
           last == Len(sigs)
<1>1. PICK n \in DOMAIN sigs : Assembled = Text(n, sigs[n]) /\ sigs[n].ver = address
  BY DEF VerifyOts
<1>2. /\ last \in Nat \ {0} /\ DOMAIN sigs = 1..last /\ n \in 1..last
      /\ sigs[n].ver = sigs[last].ver /\ sigs[n].ver \in {1, 2} /\ sigs[n].compressed \in BOOLEAN
      /\ LastText \in Seq(Characters) /\ Len(LastText) \in Nat \ {0}
      /\ \A k \in 1..Len(LastText) : LastText[k] = <<last, k>>
  BY <1>1, SignedFacts
<1>3. /\ Len(Text(n, sigs[n])) \in Nat
      /\ \A k \in 1..Len(Text(n, sigs[n])) : Text(n, sigs[n])[k] = <<n, k>>
  <2>1. n \in Nat \ {0}
    BY <1>2
  <2>2. QED BY <1>2, <2>1, TextFacts
<1>4. Len(atoms) \in Nat \ {0} /\ DOMAIN atoms = 1..Len(atoms)
  BY AtomFacts DEF Inv
<1>5. /\ Len(q) = Len(atoms) /\ Len(q) \in Nat \ {0}
      /\ \A i \in 1..Len(q) : q[i] = atoms[i].fragment /\ q[i] \in Seq(Characters)
  BY <1>4, AssembledFacts, AtomFacts DEF Inv
<1>6. Assembled = FlattenSeq(q)
  BY DEF Assembled
<1> HIDE DEF q
<1>7. ASSUME NEW i \in 1..Len(atoms), NEW k \in 1..Len(atoms[i].fragment)
      PROVE  atoms[i].fragment[k][1] = n
  <2>1. i \in 1..Len(q) /\ k \in 1..Len(q[i])
    BY <1>5, <1>7
  <2>2. PICK j \in 1..Len(FlattenSeq(q)) : FlattenSeq(q)[j] = q[i][k]
    BY <1>5, <2>1, FlattenHolds
  <2>3. q[i][k] = <<n, j>>
    BY <1>1, <1>3, <1>6, <2>2
  <2>4. QED BY <1>5, <2>1, <2>3
<1>8. atoms[1].fragment = Piece(LastText, size, 1) /\ size \in Nat \ {0}
  <2>1. size \in Nat \ {0}
    BY <1>2, <1>4, ChunksSuffice
  <2>2. hash = Marks(Len(atoms))
    BY SignedFacts
  <2>3. Pieces(LastText, size)
    BY <2>2 DEF Inv, LastSigned
  <2> HIDE DEF size
  <2>4. ~((1 - 1) * size >= Len(LastText)) /\ 1 \in 1..Len(atoms)
    BY <1>2, <1>4, <2>1
  <2>5. QED BY <2>1, <2>3, <2>4 DEF Pieces
<1>9. 1 \in 1..Len(atoms[1].fragment) /\ atoms[1].fragment[1] = LastText[1]
  <2> DEFINE b == IF 1 * size > Len(LastText) THEN Len(LastText) ELSE 1 * size
  <2> HIDE DEF size
  <2>1. b \in Int /\ b >= 1 /\ b <= Len(LastText)
    BY <1>2, <1>8
  <2>2. (1 - 1) * size + 1 = 1
    BY <1>8
  <2>3. atoms[1].fragment = SubSeq(LastText, 1, b)
    BY <1>8, <2>2 DEF Piece
  <2> HIDE DEF b
  <2>4. \A j \in 1..b : LastText[j] \in Characters
    BY <1>2, <2>1
  <2>5. /\ Len(SubSeq(LastText, 1, b)) = IF 1 <= b THEN b - 1 + 1 ELSE 0
        /\ \A j \in 1..(b - 1 + 1) : SubSeq(LastText, 1, b)[j] = LastText[1 + j - 1]
    BY <2>1, <2>4, SubSeqProperties
  <2>6. QED BY <2>1, <2>3, <2>5
<1>10. n = last
  <2>1. atoms[1].fragment[1][1] = n
    BY <1>4, <1>7, <1>9
  <2>2. LastText[1] = <<last, 1>>
    BY <1>2
  <2>3. QED BY <1>9, <2>1, <2>2
<1>11. ASSUME NEW i \in DOMAIN atoms, NEW char \in Range(atoms[i].fragment)
       PROVE  char[1] = last
  <2>1. atoms[i].fragment \in Seq(Characters)
    BY <1>4, AtomFacts DEF Inv
  <2>2. PICK k \in 1..Len(atoms[i].fragment) : char = atoms[i].fragment[k]
    BY <2>1 DEF Range
  <2>3. QED BY <1>4, <1>7, <1>10, <2>2
<1>12. QED BY <1>1, <1>2, <1>11 DEF WellSigned

(* The symbols a signature is made from sum to zero, are symbols again and  *)
(* were all moved one way, for hashes of any length: normalize.             *)
THEOREM Balances == Spec => []NormalizedBalanced
<1>1. Inv => NormalizedBalanced
  <2> SUFFICES ASSUME Inv PROVE NormalizedBalanced
    OBVIOUS
  <2>1. symbols \in Hashes
    BY DEF Inv, TypeOK
  <2>2. DOMAIN normalize(symbols) = 1..HashLength
    BY <2>1, NormalizeBalances DEF Hashes
  <2>3. QED BY <2>1, <2>2, NormalizeBalances DEF NormalizedBalanced
<1>2. QED BY <1>1, Invariance, PTL

(* The signature made last is accepted when no piece of an earlier one is   *)
(* left, for every number of atoms, length of the text and of the key: sign *)
(* spreads it so that verifyOts puts it together again.                     *)
THEOREM LastAccepted == Spec => []SignatureAccepted
<1>1. Inv => SignatureAccepted
  <2> SUFFICES ASSUME Inv, hash = View(atoms), WellSigned PROVE VerifyOts
    BY DEF SignatureAccepted
  <2>1. sigs # << >>
    BY DEF WellSigned
  <2>2. PICK m \in 1..Len(atoms) : hash = Marks(m) /\ m \in Nat
    BY <2>1, SignedFacts
  <2>3. /\ Len(atoms) \in Nat /\ Len(atoms) > 0 /\ DOMAIN atoms = 1..Len(atoms)
        /\ \A i \in 1..Len(atoms) : atoms[i].text \in {0, i}
        /\ stamp \in Versions /\ Len(hash) = m /\ m > 0
    BY <2>2, AtomFacts, MarksFacts DEF Inv, Placed, TypeOK
  <2>4. Len(atoms) = Len(hash)
    BY <2>2, <2>3, ViewTells
  <2>5. QED BY <2>1, <2>4, WholeAccepted
<1>2. QED BY <1>1, Invariance, PTL

LEMMA ForcedFacts ==
    ASSUME Inv, NEW v
    PROVE  /\ DOMAIN Forced(v) = 1..Len(atoms)
           /\ \A i \in 1..Len(atoms) :
                /\ Forced(v)[i].text = atoms[i].text /\ Forced(v)[i].cut = atoms[i].cut
                /\ Forced(v)[i].index = atoms[i].index /\ Forced(v)[i].version = v
<1>1. DOMAIN atoms = 1..Len(atoms) /\ \A i \in 1..Len(atoms) : atoms[i] \in Atoms
  BY AtomFacts DEF Inv
<1>2. ASSUME NEW i \in 1..Len(atoms)
      PROVE  /\ Forced(v)[i].text = atoms[i].text /\ Forced(v)[i].cut = atoms[i].cut
             /\ Forced(v)[i].index = atoms[i].index /\ Forced(v)[i].version = v
  <2>1. Forced(v)[i] = [atoms[i] EXCEPT !.version = v]
    BY <1>1 DEF Forced
  <2>2. QED BY <1>1, <2>1 DEF Atoms
<1>3. QED BY <1>1, <1>2 DEF Forced

LEMMA StateFacts ==
    ASSUME Inv
    PROVE  /\ Len(atoms) \in Nat /\ Len(atoms) > 0 /\ DOMAIN atoms = 1..Len(atoms)
           /\ \A i \in 1..Len(atoms) : atoms[i].text \in {0, i}
           /\ stamp \in Versions
<1>1. Len(atoms) \in Nat \ {0} /\ DOMAIN atoms = 1..Len(atoms)
  BY AtomFacts DEF Inv
<1>2. QED BY <1>1 DEF Inv, Placed, TypeOK

(* A molecule nobody changed verifies, served with the versions its maker   *)
(* hashed or with none, and without its indices when the hash covers none:  *)
(* verifyFromServerData forces each version in turn.                        *)
THEOREM Genuine == Spec => []GenuineVerifies
<1>1. Inv => GenuineVerifies
  <2> SUFFICES ASSUME Inv, WellSigned, Texts, Cuts, stamp # None => Indexed,
                      Len(atoms) = Len(hash), AllVersions(stamp) \/ AllVersions(None)
               PROVE  VerifyFromServerData
    BY Zenon DEF GenuineVerifies, Inv, Told
  <2>1. sigs # << >>
    BY DEF WellSigned
  <2>2. VerifyOts
    BY <2>1, WholeAccepted
  <2>3. /\ Len(atoms) \in Nat /\ Len(atoms) > 0 /\ DOMAIN atoms = 1..Len(atoms)
        /\ stamp \in Versions
    BY StateFacts
  <2>4. hash = Marks(Len(atoms))
    BY <2>1, SignedFacts
  <2>5. \A i \in 1..Len(atoms) : /\ atoms[i].text = i /\ atoms[i].cut = "made"
                                 /\ stamp # None => atoms[i].index = i
    BY <2>3 DEF Texts, Cuts, Indexed
  <2>6. CASE AllVersions(stamp)
    <3>1. \A i \in 1..Len(atoms) : atoms[i].version = stamp
      BY <2>3, <2>6 DEF AllVersions
    <3>2. View(atoms) = hash
      <4>1. stamp # None => \A i \in 1..Len(atoms) : atoms[i].index = i
        BY <2>5
      <4>2. \A i \in 1..Len(atoms) :
               /\ atoms[i].text = i /\ atoms[i].cut = "made" /\ atoms[i].version = stamp
               /\ stamp # None => atoms[i].index = i
        BY <2>5, <3>1, <4>1, Zenon
      <4>3. View(atoms) = Marks(Len(atoms))
        BY <2>3, <4>2, ViewMade, Zenon
      <4>4. QED BY <2>4, <4>3
    <3>3. QED BY <2>2, <3>2 DEF VerifyFromServerData, VerifyClient, VerifyMolecularHash
  <2>7. CASE AllVersions(None) /\ stamp # None
    <3>1. stamp \in {"3", "4"}
      BY <2>3, <2>7 DEF Versions
    <3>2. \A i \in 1..Len(atoms) : atoms[i].version = None
      BY <2>3, <2>7 DEF AllVersions
    <3>3. Retryable
      BY <2>3, <3>2 DEF Retryable
    <3>4. ~VerifyMolecularHash(atoms)
      <4>1. 1 \in 1..Len(atoms)
        BY <2>3
      <4>2. ASSUME View(atoms) = Marks(Len(atoms)) PROVE FALSE
        <5>1. MadeAs(atoms[1], 1)
          <6>1. \A i \in 1..Len(atoms) : atoms[i].text \in {0, i}
            BY StateFacts
          <6>2. \A i \in 1..Len(atoms) : MadeAs(atoms[i], i)
            BY <2>3, <2>7, <4>2, <6>1, ViewTells, Zenon
          <6>3. QED BY <4>1, <6>2
        <5>2. QED BY <2>7, <3>2, <4>1, <5>1 DEF MadeAs
      <4>3. QED BY <2>4, <4>2 DEF VerifyMolecularHash
    <3>5. ASSUME NEW v \in {"3", "4"}, v = stamp PROVE VerifyClient(Forced(v))
      <4> DEFINE as == Forced(v)
      <4>1. /\ DOMAIN as = 1..Len(atoms)
            /\ \A i \in 1..Len(atoms) :
                  /\ as[i].text = i /\ as[i].cut = "made" /\ as[i].version = stamp
                  /\ stamp # None => as[i].index = i
        <5>1. \A i \in 1..Len(atoms) : /\ as[i].text = atoms[i].text
                                        /\ as[i].cut = atoms[i].cut
                                        /\ as[i].index = atoms[i].index
                                        /\ as[i].version = v
          BY ForcedFacts
        <5>2. DOMAIN as = 1..Len(atoms)
          BY ForcedFacts
        <5> HIDE DEF as
        <5>3. QED BY <2>5, <3>5, <5>1, <5>2, Zenon
      <4> HIDE DEF as
      <4>2. View(as) = hash
        BY <2>3, <2>4, <4>1, ViewMade
      <4>3. QED BY <2>2, <4>2 DEF VerifyClient, VerifyMolecularHash, as
    <3>6. QED BY <3>1, <3>3, <3>4, <3>5 DEF VerifyFromServerData
  <2>8. QED BY <2>6, <2>7
<1>2. QED BY <1>1, Invariance, PTL

(* What verifies is what was hashed: of a hash over versions every atom,    *)
(* field and index; of one without, the fields' characters in order.  No    *)
(* atom added since, no piece of an earlier signature, and no versions but  *)
(* the hashed ones verify, through every retry of verifyFromServerData.     *)
THEOREM Refused == Spec => []ChangedRefused
<1>1. Inv => ChangedRefused
  <2> SUFFICES ASSUME Inv, VerifyFromServerData, served
               PROVE  /\ WellSigned /\ Len(atoms) = Len(hash) /\ Texts
                      /\ IF stamp = None THEN \E i \in DOMAIN atoms : atoms[i].version = None
                         ELSE Cuts /\ Indexed /\ (AllVersions(stamp) \/ AllVersions(None))
    <3>1. Inv /\ verified = TRUE => VerifyFromServerData
      BY Zenon DEF Inv, Told
    <3>2. Inv /\ verified = TRUE => served
      BY SignAssumption DEF Inv, Phases
    <3>3. QED BY <3>1, <3>2 DEF ChangedRefused
  <2>1. sigs # << >>
    BY DEF Inv, Phases
  <2>2. /\ Len(atoms) \in Nat /\ Len(atoms) > 0 /\ DOMAIN atoms = 1..Len(atoms)
        /\ stamp \in Versions /\ \A i \in 1..Len(atoms) : atoms[i].text \in {0, i}
    BY StateFacts
  <2>3. PICK m \in 1..Len(atoms) : hash = Marks(m) /\ Len(hash) = m /\ m \in Nat /\ m > 0
    BY <2>1, SignedFacts
  <2>4. ASSUME NEW as, DOMAIN as = 1..Len(atoms), hash = View(as),
               \A i \in 1..Len(atoms) :
                  /\ as[i].text = atoms[i].text /\ as[i].cut = atoms[i].cut
                  /\ as[i].index = atoms[i].index
        PROVE  /\ Texts /\ Len(atoms) = Len(hash)
               /\ stamp # None => /\ Cuts /\ Indexed
                                 /\ \A i \in 1..Len(atoms) : as[i].version = stamp
               /\ stamp = None => \E i \in 1..Len(atoms) : as[i].version = None
    <3>1. \A i \in 1..Len(atoms) : as[i].text \in {0, i}
      BY <2>2, <2>4
    <3>2. /\ m = Len(atoms) /\ \A i \in 1..Len(atoms) : as[i].text = i
          /\ stamp # None => \A i \in 1..Len(atoms) : MadeAs(as[i], i)
          /\ stamp = None => \E i \in 1..Len(atoms) : as[i].version = None
      <4>1. View(as) = Marks(m)
        BY <2>3, <2>4
      <4>2. m \in Nat /\ m > 0 /\ Len(atoms) \in Nat /\ Len(atoms) > 0 /\ stamp \in Versions
        BY <2>2
      <4>3. DOMAIN as = 1..Len(atoms)
        BY <2>4
      <4>4. m = Len(atoms)
        BY <3>1, <4>1, <4>2, <4>3, ViewTells, Zenon
      <4>m. View(as) = Marks(Len(atoms))
        BY <4>1, <4>4
      <4>5. \A i \in 1..Len(atoms) : as[i].text = i
        BY <3>1, <4>m, <4>2, <4>3, ViewTells, Zenon
      <4>6. stamp # None => \A i \in 1..Len(atoms) : MadeAs(as[i], i)
        BY <3>1, <4>1, <4>2, <4>3, ViewTells, Zenon
      <4>7. stamp = None => \E i \in 1..Len(atoms) : as[i].version = None
        BY <3>1, <4>1, <4>2, <4>3, ViewTells, Zenon
      <4>8. QED BY <4>4, <4>5, <4>6, <4>7
    <3>3. QED BY <2>2, <2>3, <2>4, <3>2 DEF MadeAs, Texts, Cuts, Indexed
  <2>5. CASE VerifyClient(atoms)
    <3>1. hash = View(atoms) /\ VerifyOts
      BY <2>5 DEF VerifyClient, VerifyMolecularHash
    <3>2. /\ Texts /\ Len(atoms) = Len(hash)
          /\ stamp # None => Cuts /\ Indexed /\ AllVersions(stamp)
          /\ stamp = None => \E i \in DOMAIN atoms : atoms[i].version = None
      BY <2>2, <2>4, <3>1 DEF AllVersions
    <3>3. WellSigned
      BY <2>1, <3>1, <3>2, AcceptedWhole
    <3>4. QED BY <3>2, <3>3
  <2>6. ASSUME NEW v, VerifyClient(Forced(v)), Retryable
        PROVE  /\ WellSigned /\ Texts /\ Len(atoms) = Len(hash) /\ AllVersions(None)
               /\ stamp # None => Cuts /\ Indexed
    <3>1. hash = View(Forced(v)) /\ VerifyOts
      BY <2>6 DEF VerifyClient, VerifyMolecularHash
    <3>2. Texts /\ Len(atoms) = Len(hash) /\ (stamp # None => Cuts /\ Indexed)
      BY <2>4, <3>1, ForcedFacts
    <3>3. WellSigned
      BY <2>1, <3>1, <3>2, AcceptedWhole
    <3>4. AllVersions(None)
      BY <2>6 DEF Retryable, AllVersions
    <3>5. QED BY <3>2, <3>3, <3>4
  <2>7. AllVersions(None) => \E i \in DOMAIN atoms : atoms[i].version = None
    <3>1. 1 \in DOMAIN atoms
      BY <2>2
    <3>2. QED BY <3>1 DEF AllVersions
  <2>8. QED BY <2>5, <2>6, <2>7 DEF VerifyFromServerData
<1>2. QED BY <1>1, Invariance, PTL
=============================================================================
