-------------------------------- MODULE Sums --------------------------------
(***************************************************************************)
(* Induction over the naturals, loops, and the sums of sequences of         *)
(* integers, folded in whatever order FoldSeq takes.  The induction         *)
(* theorems of the library take the formula as a parameter; here it is the  *)
(* set of the numbers that satisfy it.                                      *)
(***************************************************************************)
EXTENDS Integers, FiniteSets, SequencesExt, FiniteSetTheorems,
        WellFoundedInduction, TLAPS

(* A set of naturals that is not empty has a least element.                 *)
LEMMA LeastNumber ==
    ASSUME NEW T \in SUBSET Nat, T # {}
    PROVE  \E n \in T : \A m \in T : n <= m
<1>1. PICK n \in T : \A m \in T : <<m, n>> \notin OpToRel(<, Nat)
  BY WFMin, NatLessThanWellFounded
<1>2. \A m \in T : ~(m < n)
  BY <1>1 DEF OpToRel
<1>3. QED BY <1>2

(* What holds of 0, and of n + 1 when it holds of n, holds of every natural.*)
LEMMA Naturals0 ==
    ASSUME NEW T, 0 \in T, \A n \in Nat : n \in T => n + 1 \in T
    PROVE  \A n \in Nat : n \in T
<1> SUFFICES ASSUME NEW k \in Nat, k \notin T PROVE FALSE
  OBVIOUS
<1> DEFINE Out == {n \in Nat : n \notin T}
<1>1. PICK n \in Out : \A m \in Out : n <= m
  BY LeastNumber
<1>2. n \in Nat \ {0} /\ n - 1 \in Nat /\ n - 1 \notin Out
  BY <1>1
<1>3. QED BY <1>2

(* What holds of the empty set, and of a set when it holds of the set less  *)
(* any one element, holds of every finite set.                              *)
LEMMA FiniteSets0 ==
    ASSUME NEW D, IsFiniteSet(D), NEW T, {} \in T,
           \A s \in SUBSET D : \A x \in s : s \ {x} \in T => s \in T
    PROVE  D \in T
<1> DEFINE Known == {n \in Nat : \A s \in SUBSET D : Cardinality(s) = n => s \in T}
<1>s. ASSUME NEW s \in SUBSET D
      PROVE  /\ IsFiniteSet(s) /\ Cardinality(s) \in Nat
             /\ Cardinality(s) = 0 <=> s = {}
             /\ \A x \in s : Cardinality(s \ {x}) = Cardinality(s) - 1
  <2>1. IsFiniteSet(s)
    BY FS_Subset
  <2>2. QED BY <2>1, FS_CardinalityType, FS_EmptySet, FS_RemoveElement
<1>1. 0 \in Known
  BY <1>s
<1>2. ASSUME NEW n \in Nat, n \in Known PROVE n + 1 \in Known
  <2> SUFFICES ASSUME NEW s \in SUBSET D, Cardinality(s) = n + 1 PROVE s \in T
    OBVIOUS
  <2>1. PICK x \in s : TRUE
    BY <1>s
  <2>2. s \ {x} \in SUBSET D /\ Cardinality(s \ {x}) = n
    BY <1>s
  <2>3. QED BY <1>2, <2>2
<1>3. \A n \in Nat : n \in Known
  <2> HIDE DEF Known
  <2>1. QED BY <1>1, <1>2, Naturals0
<1>4. QED BY <1>3, <1>s

(* The values of a loop before its first and after each of its n rounds.    *)
Loop(f, n, S, a, step) ==
    /\ f \in [0..n -> S]
    /\ f[0] = a
    /\ \A k \in 1..n : f[k] = step[k][f[k - 1]]

(* Every loop has values: a recursive definition of this form has a         *)
(* solution.                                                                *)
LEMMA Loops ==
    ASSUME NEW N \in Nat, NEW S, NEW a \in S, NEW step, step \in [1..N -> [S -> S]]
    PROVE  \E f : Loop(f, N, S, a, step)
<1> USE DEF Loop
<1> DEFINE Runs(n, f) == Loop(f, n, S, a, step)
           Known == {n \in Nat : n <= N => \E f : Runs(n, f)}
<1>1. 0 \in Known
  <2>1. Runs(0, [k \in 0..0 |-> a])
    OBVIOUS
  <2>2. QED BY <2>1
<1>2. ASSUME NEW n \in Nat, n \in Known PROVE n + 1 \in Known
  <2> SUFFICES ASSUME n + 1 <= N PROVE \E f : Runs(n + 1, f)
    OBVIOUS
  <2>1. PICK f : Runs(n, f)
    BY <1>2
  <2> DEFINE g == [k \in 0..(n + 1) |-> IF k = n + 1 THEN step[n + 1][f[n]] ELSE f[k]]
  <2>2. step[n + 1] \in [S -> S] /\ f[n] \in S
    BY <2>1
  <2>3. g \in [0..(n + 1) -> S] /\ g[0] = a
    BY <2>1, <2>2
  <2>4. ASSUME NEW k \in 1..(n + 1) PROVE g[k] = step[k][g[k - 1]]
    <3>1. CASE k = n + 1
      BY <3>1
    <3>2. CASE k # n + 1
      <4>1. k \in 1..n /\ k - 1 \in 0..n /\ k - 1 # n + 1 /\ k - 1 \in 0..(n + 1)
        BY <3>2
      <4>2. g[k] = f[k] /\ g[k - 1] = f[k - 1]
        BY <4>1
      <4>3. f[k] = step[k][f[k - 1]]
        BY <2>1, <4>1
      <4>4. QED BY <4>2, <4>3
    <3>3. QED BY <3>1, <3>2
  <2>5. QED BY <2>3, <2>4
<1>3. N \in Known
  <2> HIDE DEF Known
  <2>1. QED BY <1>1, <1>2, Naturals0
<1>4. QED BY <1>3

(* One round of a loop.                                                     *)
LEMMA LoopRound ==
    ASSUME NEW n \in Nat, NEW S, NEW a, NEW step, NEW f, Loop(f, n, S, a, step),
           NEW k \in 1..n
    PROVE  f[k - 1] \in S /\ f[k] \in S /\ f[k] = step[k][f[k - 1]]
BY DEF Loop

(* Two that agree before the first round, and after a round when they do    *)
(* before it, agree throughout.                                             *)
Alike(f, g, n) ==
    /\ f[0] = g[0]
    /\ \A k \in 1..n : f[k - 1] = g[k - 1] => f[k] = g[k]

(* Two functions that obey one recursion are the same.                      *)
LEMMA SameLoops ==
    ASSUME NEW N \in Nat, NEW f, NEW g, Alike(f, g, N)
    PROVE  \A k \in 0..N : f[k] = g[k]
<1> USE DEF Alike
<1> DEFINE Known == {n \in Nat : n <= N => f[n] = g[n]}
<1>1. 0 \in Known
  OBVIOUS
<1>2. ASSUME NEW n \in Nat, n \in Known PROVE n + 1 \in Known
  <2> SUFFICES ASSUME n + 1 <= N PROVE f[n + 1] = g[n + 1]
    OBVIOUS
  <2>1. n + 1 \in 1..N /\ (n + 1) - 1 = n /\ f[n] = g[n]
    BY <1>2
  <2>2. QED BY <2>1
<1>3. \A n \in Nat : n \in Known
  <2> HIDE DEF Known
  <2>1. QED BY <1>1, <1>2, Naturals0
<1>4. QED BY <1>3

-----------------------------------------------------------------------------
SumOf(f) == FoldSeq(+, 0, f)

Taken(s) == CHOOSE x \in s : TRUE

(* One unfolding of the sums of f over the sets of its arguments.           *)
Unfold(f, g) ==
    [s \in SUBSET DOMAIN f |->
        IF s = {} THEN 0 ELSE f[Taken(s)] + g[s \ {Taken(s)}]]

Partial(f) == CHOOSE g : g = Unfold(f, g)

(* The fold under FoldSeq, by its definition.                               *)
LEMMA SumIsPartial == ASSUME NEW f PROVE SumOf(f) = Partial(f)[DOMAIN f]
BY Zenon DEF SumOf, Partial, Unfold, Taken, FoldSeq, FoldFunction, FoldFunctionOnSet,
       MapThenFoldSet

(* Over a finite set the recursion of the fold defines what it says.        *)
LEMMA PartialUnfolds ==
    ASSUME NEW f, IsFiniteSet(DOMAIN f)
    PROVE  Partial(f) = Unfold(f, Partial(f))
<1> DEFINE D == DOMAIN f
           Upto(n, g) == \A s \in SUBSET D : Cardinality(s) <= n => g[s] = Unfold(f, g)[s]
           Known == {n \in Nat : \E g : Upto(n, g)}
<1>s. ASSUME NEW s \in SUBSET D
      PROVE  /\ IsFiniteSet(s) /\ Cardinality(s) \in Nat
             /\ Cardinality(s) <= Cardinality(D)
             /\ Cardinality(s) = 0 => s = {}
             /\ s # {} => /\ Taken(s) \in s
                          /\ Cardinality(s \ {Taken(s)}) = Cardinality(s) - 1
  <2>1. IsFiniteSet(s) /\ Cardinality(s) <= Cardinality(D)
    BY FS_Subset
  <2>2. s # {} => Taken(s) \in s
    BY DEF Taken
  <2>3. QED BY <2>1, <2>2, FS_CardinalityType, FS_EmptySet, FS_RemoveElement
<1>1. 0 \in Known
  <2> DEFINE g == [s \in SUBSET D |-> 0]
  <2>1. ASSUME NEW s \in SUBSET D, Cardinality(s) <= 0 PROVE g[s] = Unfold(f, g)[s]
    <3>1. s = {}
      <4>1. Cardinality(s) \in Nat /\ Cardinality(s) <= 0
        BY ONLY <1>s, <2>1
      <4>2. Cardinality(s) = 0
        BY ONLY <4>1
      <4>3. QED BY <1>s, <4>2
    <3>2. {} \in SUBSET DOMAIN f
      OBVIOUS
    <3>3. g[{}] = 0 /\ Unfold(f, g)[{}] = 0
      BY <3>2 DEF Unfold
    <3>4. QED BY <3>1, <3>3
  <2>2. QED BY <2>1
<1>2. ASSUME NEW n \in Nat, n \in Known PROVE n + 1 \in Known
  <2>1. PICK g : Upto(n, g)
    BY <1>2
  <2> DEFINE h == Unfold(f, g)
  <2>2. ASSUME NEW s \in SUBSET D, Cardinality(s) <= n + 1, s # {}
        PROVE  h[s \ {Taken(s)}] = g[s \ {Taken(s)}]
    <3>1. s \ {Taken(s)} \in SUBSET D /\ Cardinality(s \ {Taken(s)}) <= n
      BY <1>s, <2>2
    <3>2. QED BY <2>1, <3>1
  <2>3. ASSUME NEW s \in SUBSET D, Cardinality(s) <= n + 1
        PROVE  h[s] = Unfold(f, h)[s]
    <3>1. CASE s = {}
      BY <3>1 DEF Unfold
    <3>2. CASE s # {}
      <4>1. h[s] = f[Taken(s)] + g[s \ {Taken(s)}]
        BY <3>2 DEF Unfold
      <4>2. Unfold(f, h)[s] = f[Taken(s)] + h[s \ {Taken(s)}]
        BY <3>2 DEF Unfold
      <4>3. QED BY <2>2, <2>3, <3>2, <4>1, <4>2
    <3>3. QED BY <3>1, <3>2
  <2>4. Upto(n + 1, h)
    BY <2>3
  <2>5. QED BY <2>4
<1>3. Cardinality(D) \in Known
  <2> HIDE DEF Known
  <2>1. \A n \in Nat : n \in Known
    BY <1>1, <1>2, Naturals0
  <2>2. QED BY <2>1, FS_CardinalityType
<1>4. PICK g : Upto(Cardinality(D), g)
  BY <1>3
<1>5. \A s \in SUBSET D : g[s] = Unfold(f, g)[s]
  BY <1>4, <1>s
<1> DEFINE h == Unfold(f, g)
<1>6. \A s \in SUBSET D : h[s] = Unfold(f, h)[s]
  <2> SUFFICES ASSUME NEW s \in SUBSET D PROVE h[s] = Unfold(f, h)[s]
    OBVIOUS
  <2>1. h[s \ {Taken(s)}] = g[s \ {Taken(s)}]
    BY <1>5
  <2>2. QED BY <2>1 DEF Unfold
<1>7. h = Unfold(f, h)
  <2>1. h = [s \in SUBSET D |-> h[s]] /\ Unfold(f, h) = [s \in SUBSET D |-> Unfold(f, h)[s]]
    BY DEF Unfold
  <2>2. QED BY <1>6, <2>1
<1>8. \E k : k = Unfold(f, k)
  BY <1>7
<1>9. QED BY <1>8, Zenon DEF Partial

(* A sum may be taken in any order.                                         *)
LEMMA PartialSums ==
    ASSUME NEW f, IsFiniteSet(DOMAIN f), \A x \in DOMAIN f : f[x] \in Int
    PROVE  /\ Partial(f)[{}] = 0
           /\ \A s \in SUBSET DOMAIN f :
                 /\ Partial(f)[s] \in Int
                 /\ \A x \in s : Partial(f)[s] = f[x] + Partial(f)[s \ {x}]
<1> DEFINE D == DOMAIN f
           P == Partial(f)
           Right(s) == /\ P[s] \in Int
                       /\ \A x \in s : P[s] = f[x] + P[s \ {x}]
           Known == {n \in Nat : \A s \in SUBSET D : Cardinality(s) <= n => Right(s)}
<1>s. ASSUME NEW s \in SUBSET D
      PROVE  /\ IsFiniteSet(s) /\ Cardinality(s) \in Nat
             /\ Cardinality(s) = 0 => s = {}
             /\ s # {} => Taken(s) \in s
             /\ \A x \in s : Cardinality(s \ {x}) = Cardinality(s) - 1
  <2>1. IsFiniteSet(s)
    BY FS_Subset
  <2>2. s # {} => Taken(s) \in s
    BY DEF Taken
  <2>3. QED BY <2>1, <2>2, FS_CardinalityType, FS_EmptySet, FS_RemoveElement
<1>e. P[{}] = 0
  BY PartialUnfolds DEF Unfold
<1>u. ASSUME NEW s \in SUBSET D, s # {} PROVE P[s] = f[Taken(s)] + P[s \ {Taken(s)}]
  BY <1>u, PartialUnfolds DEF Unfold
<1> HIDE DEF P
<1>1. 0 \in Known
  BY <1>s, <1>e
<1>2. ASSUME NEW n \in Nat, n \in Known PROVE n + 1 \in Known
  <2> SUFFICES ASSUME NEW s \in SUBSET D, Cardinality(s) <= n + 1 PROVE Right(s)
    OBVIOUS
  <2>1. ASSUME NEW x \in s PROVE Right(s \ {x})
    <3>1. s \ {x} \in SUBSET D /\ Cardinality(s \ {x}) <= n
      BY <1>s
    <3>2. QED BY <1>2, <3>1
  <2>2. CASE s = {}
    BY <1>e, <2>2
  <2>3. CASE s # {}
    <3> DEFINE t == Taken(s)
    <3>1. t \in s /\ f[t] \in Int /\ P[s] = f[t] + P[s \ {t}]
      BY <1>s, <1>u, <2>3
    <3> HIDE DEF t
    <3>2. P[s] \in Int
      BY <2>1, <3>1
    <3>3. ASSUME NEW x \in s, x # t PROVE P[s] = f[x] + P[s \ {x}]
      <4> DEFINE r == s \ {x, t}
      <4>1. (s \ {t}) \ {x} = r /\ (s \ {x}) \ {t} = r
        OBVIOUS
      <4>2. P[s \ {t}] = f[x] + P[r] /\ P[s \ {x}] = f[t] + P[r]
        BY <2>1, <3>1, <3>3, <4>1
      <4>3. r \in SUBSET D /\ Cardinality(r) <= n
        <5>1. s \ {x} \in SUBSET D /\ t \in s \ {x}
          BY <3>1, <3>3
        <5>2. Cardinality(s \ {x}) <= n /\ Cardinality(r) = Cardinality(s \ {x}) - 1
          BY <1>s, <4>1, <5>1
        <5>3. QED BY <1>s, <5>1, <5>2
      <4>4. P[r] \in Int
        BY <1>2, <4>3
      <4>5. f[x] \in Int
        OBVIOUS
      <4> HIDE DEF r
      <4>6. QED BY <3>1, <4>2, <4>4, <4>5
    <3>4. QED BY <3>1, <3>2, <3>3
  <2>4. QED BY <2>2, <2>3
<1>3. \A n \in Nat : n \in Known
  <2> HIDE DEF Known
  <2>1. QED BY <1>1, <1>2, Naturals0
<1>4. \A s \in SUBSET D : Right(s)
  BY <1>3, <1>s
<1>5. QED BY <1>4, <1>e DEF P

(* A sum of integers is one.                                                *)
LEMMA SumType ==
    ASSUME NEW f, IsFiniteSet(DOMAIN f), \A x \in DOMAIN f : f[x] \in Int
    PROVE  SumOf(f) \in Int
BY SumIsPartial, PartialSums

(* A sum has a sign only if one of its terms has.                           *)
LEMMA SumSigns ==
    ASSUME NEW f, IsFiniteSet(DOMAIN f), \A x \in DOMAIN f : f[x] \in Int
    PROVE  /\ SumOf(f) > 0 => \E x \in DOMAIN f : f[x] > 0
           /\ SumOf(f) < 0 => \E x \in DOMAIN f : f[x] < 0
<1> DEFINE D == DOMAIN f
           P == Partial(f)
           High == {s \in SUBSET D : P[s] <= 0}
           Low == {s \in SUBSET D : P[s] >= 0}
<1>p. /\ P[{}] = 0
      /\ \A s \in SUBSET D : P[s] \in Int /\ \A x \in s : P[s] = f[x] + P[s \ {x}]
  BY PartialSums
<1>s. SumOf(f) = P[D]
  BY SumIsPartial
<1> HIDE DEF P
<1>t. \A s \in SUBSET D : \A x \in s :
         f[x] \in Int /\ P[s] \in Int /\ P[s \ {x}] \in Int /\ P[s] = f[x] + P[s \ {x}]
  BY <1>p
<1>1. ASSUME \A x \in D : f[x] <= 0 PROVE P[D] <= 0
  <2>1. {} \in High
    BY <1>p
  <2>2. ASSUME NEW s \in SUBSET D, NEW x \in s, s \ {x} \in High PROVE s \in High
    <3>1. f[x] <= 0 /\ P[s \ {x}] <= 0
      BY <1>1, <2>2
    <3>2. P[s] <= 0
      BY <1>t, <3>1
    <3>3. QED BY <3>2
  <2>3. D \in High
    <3> HIDE DEF High
    <3>1. QED BY <2>1, <2>2, FiniteSets0
  <2>4. QED BY <2>3
<1>2. ASSUME \A x \in D : f[x] >= 0 PROVE P[D] >= 0
  <2>1. {} \in Low
    BY <1>p
  <2>2. ASSUME NEW s \in SUBSET D, NEW x \in s, s \ {x} \in Low PROVE s \in Low
    <3>1. f[x] >= 0 /\ P[s \ {x}] >= 0
      BY <1>2, <2>2
    <3>2. P[s] >= 0
      BY <1>t, <3>1
    <3>3. QED BY <3>2
  <2>3. D \in Low
    <3> HIDE DEF Low
    <3>1. QED BY <2>1, <2>2, FiniteSets0
  <2>4. QED BY <2>3
<1>3. P[D] \in Int
  BY <1>p
<1>4. QED BY <1>1, <1>2, <1>3, <1>s

(* A sum whose terms in M are one larger is larger by as many as M has.     *)
Raised(f, g, M) ==
    /\ IsFiniteSet(DOMAIN f) /\ \A x \in DOMAIN f : f[x] \in Int
    /\ DOMAIN g = DOMAIN f /\ M \in SUBSET DOMAIN f
    /\ \A x \in DOMAIN f : g[x] = IF x \in M THEN f[x] + 1 ELSE f[x]

(* Elements raised by one raise the sum by their number.                    *)
LEMMA SumRaised ==
    ASSUME NEW f, NEW g, NEW M, Raised(f, g, M)
    PROVE  SumOf(g) = SumOf(f) + Cardinality(M)
<1> /\ IsFiniteSet(DOMAIN f) /\ \A x \in DOMAIN f : f[x] \in Int
    /\ DOMAIN g = DOMAIN f /\ M \in SUBSET DOMAIN f
    /\ \A x \in DOMAIN f : g[x] = IF x \in M THEN f[x] + 1 ELSE f[x]
  BY DEF Raised
<1> DEFINE D == DOMAIN f
           P == Partial(f)
           Q == Partial(g)
           Known == {s \in SUBSET D : Q[s] = P[s] + Cardinality(s \cap M)}
<1>p. /\ P[{}] = 0
      /\ \A s \in SUBSET D : P[s] \in Int /\ \A x \in s : P[s] = f[x] + P[s \ {x}]
  BY PartialSums
<1>g. \A x \in DOMAIN g : g[x] \in Int
  OBVIOUS
<1>q. /\ Q[{}] = 0
      /\ \A s \in SUBSET D : Q[s] \in Int /\ \A x \in s : Q[s] = g[x] + Q[s \ {x}]
  <2>1. IsFiniteSet(DOMAIN g)
    OBVIOUS
  <2>2. /\ Q[{}] = 0
        /\ \A s \in SUBSET DOMAIN g :
              Q[s] \in Int /\ \A x \in s : Q[s] = g[x] + Q[s \ {x}]
    BY ONLY <1>g, <2>1, PartialSums
  <2>3. QED BY <2>2
<1>s. SumOf(f) = P[D] /\ SumOf(g) = Q[D]
  BY SumIsPartial
<1> HIDE DEF P, Q
<1>1. {} \in Known
  <2>1. {} \cap M = {}
    OBVIOUS
  <2>2. QED BY <1>p, <1>q, <2>1, FS_EmptySet
<1>2. ASSUME NEW s \in SUBSET D, NEW x \in s, s \ {x} \in Known PROVE s \in Known
  <2> DEFINE r == s \ {x}
  <2>r. r \in SUBSET D /\ x \in D
    OBVIOUS
  <2>1. /\ f[x] \in Int /\ P[s] = f[x] + P[r] /\ P[r] \in Int
        /\ g[x] \in Int /\ Q[s] = g[x] + Q[r]
    BY <1>p, <1>q, <1>g, <2>r
  <2>m. Q[r] = P[r] + Cardinality(r \cap M)
    BY <1>2
  <2>2. IsFiniteSet(r \cap M) /\ Cardinality(r \cap M) \in Nat
    BY FS_Subset, FS_CardinalityType
  <2>3. CASE x \in M
    <3>1. s \cap M = (r \cap M) \cup {x} /\ x \notin r \cap M
      BY <2>3
    <3>2. Cardinality(s \cap M) = Cardinality(r \cap M) + 1
      BY <2>2, <3>1, FS_AddElement
    <3>3. g[x] = f[x] + 1
      BY <2>3
    <3>4. Q[s] = P[s] + Cardinality(s \cap M)
      BY <2>1, <2>m, <2>2, <3>2, <3>3
    <3>5. QED BY <3>4
  <2>4. CASE x \notin M
    <3>1. s \cap M = r \cap M /\ g[x] = f[x]
      BY <2>4
    <3>2. Q[s] = P[s] + Cardinality(s \cap M)
      <4>1. Q[s] = f[x] + (P[r] + Cardinality(r \cap M))
        BY <2>1, <2>m, <3>1
      <4>2. f[x] + (P[r] + Cardinality(r \cap M)) = (f[x] + P[r]) + Cardinality(r \cap M)
        BY <2>1, <2>2
      <4>3. QED BY <2>1, <3>1, <4>1, <4>2
    <3>3. QED BY <3>2
  <2>5. QED BY <2>3, <2>4
<1>3. D \in Known
  <2> HIDE DEF Known
  <2>1. QED BY <1>1, <1>2, FiniteSets0
<1>4. D \cap M = M
  OBVIOUS
<1>5. QED BY <1>3, <1>4, <1>s

(* The sum of a sequence, from the left.                                    *)
LEMMA SumSteps ==
    ASSUME NEW n \in Nat, NEW f, DOMAIN f = 1..n, \A i \in 1..n : f[i] \in Int
    PROVE  /\ Partial(f)[1..0] = 0
           /\ \A k \in 1..n : /\ Partial(f)[1..k] = Partial(f)[1..(k - 1)] + f[k]
                              /\ Partial(f)[1..k] \in Int
           /\ SumOf(f) = Partial(f)[1..n]
<1>1. IsFiniteSet(DOMAIN f) /\ \A x \in DOMAIN f : f[x] \in Int
  <2>1. IsFiniteSet(1..n)
    BY FS_Interval
  <2>2. QED BY <2>1
<1>2. /\ Partial(f)[{}] = 0
      /\ \A s \in SUBSET DOMAIN f : Partial(f)[s] \in Int
           /\ \A x \in s : Partial(f)[s] = f[x] + Partial(f)[s \ {x}]
  BY <1>1, PartialSums
<1>3. ASSUME NEW k \in 1..n
      PROVE  /\ Partial(f)[1..k] = Partial(f)[1..(k - 1)] + f[k]
             /\ Partial(f)[1..k] \in Int
  <2>1. 1..k \in SUBSET DOMAIN f /\ k \in 1..k /\ (1..k) \ {k} = 1..(k - 1)
        /\ 1..(k - 1) \in SUBSET DOMAIN f
    OBVIOUS
  <2>2. /\ Partial(f)[1..k] = f[k] + Partial(f)[1..(k - 1)]
        /\ Partial(f)[1..k] \in Int /\ Partial(f)[1..(k - 1)] \in Int
    <3>1. /\ Partial(f)[1..k] = f[k] + Partial(f)[(1..k) \ {k}]
          /\ Partial(f)[1..k] \in Int /\ Partial(f)[1..(k - 1)] \in Int
      BY <1>2, <2>1, Zenon
    <3>2. QED BY <2>1, <3>1, Zenon
  <2>3. f[k] \in Int
    OBVIOUS
  <2>4. QED BY <2>2, <2>3
<1>4. 1..0 = {}
  OBVIOUS
<1>5. QED BY <1>2, <1>3, <1>4, SumIsPartial

(* Sums written out.                                                        *)
LEMMA SumOfTwo ==
    ASSUME NEW f, DOMAIN f = 1..2, f[1] \in Int, f[2] \in Int
    PROVE  SumOf(f) = f[1] + f[2]
<1> DEFINE P == Partial(f)
<1>1. \A i \in 1..2 : f[i] \in Int
  <2>1. \A i \in 1..2 : i = 1 \/ i = 2
    OBVIOUS
  <2>2. QED BY <2>1
<1>2. /\ P[1..0] = 0
      /\ \A k \in 1..2 : P[1..k] = P[1..(k - 1)] + f[k] /\ P[1..k] \in Int
      /\ SumOf(f) = P[1..2]
  BY <1>1, SumSteps
<1> HIDE DEF P
<1>3. P[1..1] = P[1..0] + f[1] /\ P[1..2] = P[1..1] + f[2]
  BY <1>2
<1>4. QED BY <1>2, <1>3

LEMMA SumOfThree ==
    ASSUME NEW f, DOMAIN f = 1..3, f[1] \in Int, f[2] \in Int, f[3] \in Int
    PROVE  SumOf(f) = f[1] + f[2] + f[3]
<1> DEFINE P == Partial(f)
<1>1. \A i \in 1..3 : f[i] \in Int
  <2>1. \A i \in 1..3 : i = 1 \/ i = 2 \/ i = 3
    OBVIOUS
  <2>2. QED BY <2>1
<1>2. /\ P[1..0] = 0
      /\ \A k \in 1..3 : P[1..k] = P[1..(k - 1)] + f[k] /\ P[1..k] \in Int
      /\ SumOf(f) = P[1..3]
  BY <1>1, SumSteps
<1> HIDE DEF P
<1>3. P[1..1] = P[1..0] + f[1] /\ P[1..2] = P[1..1] + f[2] /\ P[1..3] = P[1..2] + f[3]
  BY <1>2
<1>4. QED BY <1>2, <1>3

LEMMA SumOfFour ==
    ASSUME NEW f, DOMAIN f = 1..4, f[1] \in Int, f[2] \in Int, f[3] \in Int, f[4] \in Int
    PROVE  SumOf(f) = f[1] + f[2] + f[3] + f[4]
<1> DEFINE P == Partial(f)
<1>1. \A i \in 1..4 : f[i] \in Int
  <2>1. \A i \in 1..4 : i = 1 \/ i = 2 \/ i = 3 \/ i = 4
    OBVIOUS
  <2>2. QED BY <2>1
<1>2. /\ P[1..0] = 0
      /\ \A k \in 1..4 : P[1..k] = P[1..(k - 1)] + f[k] /\ P[1..k] \in Int
      /\ SumOf(f) = P[1..4]
  BY <1>1, SumSteps
<1> HIDE DEF P
<1>3. /\ P[1..1] = P[1..0] + f[1] /\ P[1..2] = P[1..1] + f[2] /\ P[1..3] = P[1..2] + f[3]
      /\ P[1..4] = P[1..3] + f[4]
  BY <1>2
<1>4. QED BY <1>2, <1>3
=============================================================================
