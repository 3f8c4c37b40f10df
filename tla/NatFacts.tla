------------------------------ MODULE NatFacts ------------------------------
(***************************************************************************)
(* Facts about the natural numbers that the proofs of several modules need *)
(* and the library states for operators only: least elements, induction,   *)
(* recursion and folds are stated here for the sets and functions the      *)
(* models use, so that a proof can cite them.                              *)
(***************************************************************************)
EXTENDS Integers, FiniteSetTheorems, WellFoundedInduction, TLAPS

LEMMA LeastExists ==
  ASSUME NEW S, S \subseteq Nat, S # {}
  PROVE  \E i \in S : \A j \in S : i <= j
<1> DEFINE Below(i) == 0 .. i - 1
           T == {Below(i) : i \in S}
           R == StrictSubsetOrdering(Nat)
<1>1. IsWellFoundedOn(R, FiniteSubsetsOf(Nat))
  BY FS_StrictSubsetOrderingWellFounded
<1>2. T \subseteq FiniteSubsetsOf(Nat) /\ T # {}
  <2>1. \A i \in S : Below(i) \subseteq Nat /\ IsFiniteSet(Below(i))
    BY FS_Interval
  <2> QED
    BY <2>1 DEF FiniteSubsetsOf
<1>3. \E X \in T : \A Y \in T : <<Y, X>> \notin R
  <2> HIDE DEF R, T
  <2> QED
    BY <1>1, <1>2, WFMin
<1>4. PICK i \in S : \A j \in S : <<Below(j), Below(i)>> \notin R
  BY <1>3
<1>5. ASSUME NEW j \in S PROVE i <= j
  <2>1. SUFFICES ASSUME j < i PROVE FALSE
    OBVIOUS
  <2>2. Below(j) \subseteq Below(i) /\ j \in Below(i) /\ j \notin Below(j)
    BY <2>1
  <2>3. Below(j) \subseteq Nat /\ Below(i) \subseteq Nat
    OBVIOUS
  <2> HIDE DEF Below
  <2> QED
    BY <1>4, <2>2, <2>3 DEF StrictSubsetOrdering
<1> QED
  BY <1>5

LEMMA GreatestExists ==
  ASSUME NEW N \in Nat, NEW S, S \subseteq 1 .. N, S # {}
  PROVE  \E i \in S : \A j \in S : i >= j
<1> DEFINE T == {N - k : k \in S}
<1>1. \A k \in S : k \in Int /\ N - k \in Nat
  OBVIOUS
<1>2. T \subseteq Nat /\ T # {}
  BY <1>1
<1> HIDE DEF T
<1>3. PICK n \in T : \A j \in T : n <= j
  BY <1>2, LeastExists
<1>4. PICK i \in S : n = N - i
  BY DEF T
<1>5. ASSUME NEW j \in S PROVE i >= j
  <2>1. N - i <= N - j
    BY <1>3, <1>4 DEF T
  <2> QED
    BY <1>1, <2>1
<1> QED
  BY <1>5

LEMMA SetInduction ==
  ASSUME NEW S, S \subseteq Nat, 0 \in S, \A n \in S : n + 1 \in S
  PROVE  S = Nat
<1> SUFFICES ASSUME Nat \ S # {} PROVE FALSE
  OBVIOUS
<1>1. PICK m \in Nat \ S : \A j \in Nat \ S : m <= j
  <2> DEFINE T == Nat \ S
  <2>1. T \subseteq Nat /\ T # {}
    OBVIOUS
  <2> HIDE DEF T
  <2>2. \E m \in T : \A j \in T : m <= j
    BY <2>1, LeastExists
  <2> QED
    BY <2>2 DEF T
<1>2. m # 0 /\ m - 1 \in Nat
  OBVIOUS
<1>3. m - 1 \in S
  BY <1>1, <1>2
<1>4. (m - 1) + 1 \in S
  BY <1>3
<1> QED
  BY <1>4


\* Recursion: e, h applied to it and to 0, h applied to that and to 1, ...
Recurs(F, X, e, h) ==
  F \in [Nat -> X] /\ F[0] = e /\ \A n \in Nat : F[n + 1] = h[<<n, F[n]>>]

LEMMA NatRecursion ==
  ASSUME NEW X, NEW e \in X, NEW h \in [Nat \X X -> X] PROVE \E F : Recurs(F, X, e, h)
<1> DEFINE Upto(n) == {f \in [0 .. n -> X] :
                         f[0] = e /\ \A k \in 0 .. n - 1 : f[k + 1] = h[<<k, f[k]>>]}
<1>1. \A n \in Nat : Upto(n) # {}
  <2> DEFINE S == {n \in Nat : Upto(n) # {}}
  <2>1. 0 \in S
    <3>1. [k \in 0 .. 0 |-> e] \in Upto(0)
      OBVIOUS
    <3> QED
      BY <3>1
  <2>2. ASSUME NEW n \in S PROVE n + 1 \in S
    <3>1. PICK f \in Upto(n) : TRUE
      OBVIOUS
    <3> DEFINE g == [k \in 0 .. n + 1 |-> IF k = n + 1 THEN h[<<n, f[n]>>] ELSE f[k]]
    <3>2. n \in Nat /\ f[n] \in X /\ h[<<n, f[n]>>] \in X
      OBVIOUS
    <3>3. g \in [0 .. n + 1 -> X] /\ g[0] = e
      BY <3>2
    <3>4. ASSUME NEW k \in 0 .. (n + 1) - 1 PROVE g[k + 1] = h[<<k, g[k]>>]
      <4>1. CASE k = n
        <5>1. n \in 0 .. n + 1 /\ n # n + 1 /\ n + 1 \in 0 .. n + 1
          BY <3>2
        <5>2. g[n] = f[n] /\ g[n + 1] = h[<<n, f[n]>>]
          BY <5>1
        <5> QED
          BY <4>1, <5>2
      <4>2. CASE k # n
        <5>1. k \in 0 .. n - 1 /\ k + 1 \in 0 .. n /\ k + 1 # n + 1 /\ k # n + 1
          BY <3>2, <4>2
        <5> QED
          BY <5>1
      <4> QED
        BY <4>1, <4>2
    <3> HIDE DEF g
    <3>5. g \in Upto(n + 1)
      BY <3>3, <3>4
    <3> QED
      BY <3>2, <3>5
  <2> HIDE DEF S
  <2>3. S \subseteq Nat
    BY DEF S
  <2>4. S = Nat
    BY <2>1, <2>2, <2>3, SetInduction
  <2> QED
    BY <2>4 DEF S
<1>2. ASSUME NEW n \in Nat, NEW f \in Upto(n), NEW m \in Nat, NEW g \in Upto(m), n <= m
      PROVE  \A k \in 0 .. n : f[k] = g[k]
  <2> DEFINE S == {k \in Nat : k <= n => f[k] = g[k]}
  <2>1. 0 \in S
    OBVIOUS
  <2>2. ASSUME NEW k \in S PROVE k + 1 \in S
    <3>1. SUFFICES ASSUME k + 1 <= n PROVE f[k + 1] = g[k + 1]
      OBVIOUS
    <3>2. k \in 0 .. n - 1 /\ k \in 0 .. m - 1 /\ f[k] = g[k]
      BY <1>2, <3>1
    <3> QED
      BY <3>2
  <2> HIDE DEF S
  <2>3. S \subseteq Nat
    BY DEF S
  <2>4. S = Nat
    BY <2>1, <2>2, <2>3, SetInduction
  <2>5. \A k \in Nat : k <= n => f[k] = g[k]
    BY <2>4 DEF S
  <2> QED
    BY <2>5
<1> DEFINE f(n) == CHOOSE g \in Upto(n) : TRUE
           F == [n \in Nat |-> f(n)[n]]
<1>3. \A n \in Nat : f(n) \in Upto(n)
  BY <1>1
<1> HIDE DEF f
<1>4. F \in [Nat -> X]
  BY <1>3
<1>5. F[0] = e
  BY <1>3
<1>6. ASSUME NEW n \in Nat PROVE F[n + 1] = h[<<n, F[n]>>]
  <2>1. f(n) \in Upto(n) /\ f(n + 1) \in Upto(n + 1)
    BY <1>3
  <2>2. f(n)[n] = f(n + 1)[n]
    BY <1>2, <2>1
  <2>3. f(n + 1)[n + 1] = h[<<n, f(n + 1)[n]>>]
    BY <2>1
  <2> QED
    BY <2>2, <2>3
<1> QED
  BY <1>4, <1>5, <1>6 DEF Recurs

-----------------------------------------------------------------------------
(* The subsets of a finite set, which a fold takes one element at a time.      *)

LEMMA SubsetInduction ==
  ASSUME NEW D, IsFiniteSet(D), NEW P,
         \A s \in SUBSET D : (\A c \in s : s \ {c} \in P) => s \in P
  PROVE  SUBSET D \subseteq P
<1> DEFINE S == {n \in Nat : \A s \in SUBSET D : Cardinality(s) = n => s \in P}
<1>1. \A s \in SUBSET D : IsFiniteSet(s) /\ Cardinality(s) \in Nat
  BY FS_Subset, FS_CardinalityType
<1>2. 0 \in S
  BY <1>1, FS_EmptySet
<1>3. ASSUME NEW n \in S PROVE n + 1 \in S
  <2> SUFFICES ASSUME NEW s \in SUBSET D, Cardinality(s) = n + 1 PROVE s \in P
    OBVIOUS
  <2>1. \A c \in s : Cardinality(s \ {c}) = n
    BY <1>1, FS_RemoveElement
  <2> QED
    BY <2>1
<1> HIDE DEF S
<1>4. S \subseteq Nat
  BY DEF S
<1>5. S = Nat
  BY <1>2, <1>3, <1>4, SetInduction
<1> QED
  BY <1>1, <1>5 DEF S

\* A fold over the elements of D in the order of ch has a value.
Folds(F, D, ch, X, e, h) ==
  /\ F \in [SUBSET D -> X]
  /\ \A s \in SUBSET D : F[s] = IF s = {} THEN e ELSE h[<<ch[s], F[s \ {ch[s]}]>>]

LEMMA FoldExists ==
  ASSUME NEW D, IsFiniteSet(D), NEW ch, \A s \in SUBSET D : s # {} => ch[s] \in s,
         NEW X, NEW e \in X, NEW h \in [D \X X -> X]
  PROVE  \E F : Folds(F, D, ch, X, e, h)
<1> DEFINE Y == [SUBSET D -> X]
           Next1(G) == [s \in SUBSET D |-> IF s = {} THEN e ELSE h[<<ch[s], G[s \ {ch[s]}]>>]]
           k == [p \in Nat \X Y |-> Next1(p[2])]
           e1 == [s \in SUBSET D |-> e]
<1>1. \A G \in Y : Next1(G) \in Y
  <2> SUFFICES ASSUME NEW G \in Y, NEW s \in SUBSET D, s # {}
               PROVE  h[<<ch[s], G[s \ {ch[s]}]>>] \in X
    OBVIOUS
  <2>1. ch[s] \in D /\ s \ {ch[s]} \in SUBSET D
    OBVIOUS
  <2> QED
    BY <2>1
<1>2. k \in [Nat \X Y -> Y] /\ e1 \in Y
  BY <1>1
<1> HIDE DEF Y, k, e1, Next1
<1>3. PICK G : Recurs(G, Y, e1, k)
  BY <1>2, NatRecursion
<1>4. \A n \in Nat : G[n] \in Y /\ G[n + 1] = Next1(G[n])
  BY <1>1, <1>3 DEF k, Recurs
<1> DEFINE F == [s \in SUBSET D |-> G[Cardinality(s)][s]]
<1>5. \A s \in SUBSET D : IsFiniteSet(s) /\ Cardinality(s) \in Nat
  BY FS_Subset, FS_CardinalityType
<1>6. F \in [SUBSET D -> X]
  BY <1>4, <1>5 DEF Y
<1>7. F[{}] = e
  BY <1>3, FS_EmptySet DEF e1, Recurs
<1>8. ASSUME NEW s \in SUBSET D, s # {} PROVE F[s] = h[<<ch[s], F[s \ {ch[s]}]>>]
  <2> DEFINE r == s \ {ch[s]}
  <2>1. ch[s] \in s /\ r \in SUBSET D
    BY <1>8
  <2>2. Cardinality(r) = Cardinality(s) - 1 /\ Cardinality(r) \in Nat /\ Cardinality(s) \in Nat
    BY <1>5, <2>1, FS_RemoveElement
  <2>3. G[Cardinality(r) + 1] = Next1(G[Cardinality(r)])
    BY <1>4, <2>2
  <2>4. Cardinality(r) + 1 = Cardinality(s)
    BY <2>2
  <2>5. G[Cardinality(s)][s] = h[<<ch[s], G[Cardinality(r)][r]>>]
    BY <1>8, <2>3, <2>4 DEF Next1
  <2> QED
    BY <2>1, <2>5
<1> HIDE DEF F
<1> QED
  BY <1>6, <1>7, <1>8 DEF Folds
=============================================================================
