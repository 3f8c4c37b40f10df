----------------------------- MODULE MineProofs -----------------------------
(***************************************************************************)
(* Proofs about Mine, for every size of the field, every number of mines   *)
(* and whatever is pressed in whatever order.  The recursion of            *)
(* reveal_cell is shown to end, and what it does is shown by induction on  *)
(* the number of cells that are still closed when it is called.            *)
(***************************************************************************)
EXTENDS Mine, NatFacts

\* Openings that have at least the cells of e open.
Above(e) == {p \in Openings : e.revealed \subseteq p.revealed}
Left(o) == Cardinality(Cells \ o.revealed)
Opened(c, o) == [o EXCEPT !.revealed = @ \cup {c}]

LEMMA CellsFinite == IsFiniteSet(Cells) /\ \A s \in SUBSET Cells : IsFiniteSet(s)
<1>1. 0 \in Int /\ FieldSize - 1 \in Int
  BY ConstantsAssumption
<1>2. IsFiniteSet(Coords)
  BY <1>1, FS_Interval DEF Coords
<1>3. IsFiniteSet(Cells)
  BY <1>2, FS_Product DEF Cells
<1> QED
  BY <1>3, FS_Subset

LEMMA CellsCount == Cardinality(Cells) = FieldSize * FieldSize
<1>1. 0 \in Int /\ FieldSize - 1 \in Int
  BY ConstantsAssumption
<1> DEFINE side == 0 .. FieldSize - 1
<1>2. IsFiniteSet(side) /\ Cardinality(side) = IF 0 > FieldSize - 1 THEN 0 ELSE (FieldSize - 1) - 0 + 1
  BY <1>1, FS_Interval, Zenon
<1>3. Cardinality(side) = FieldSize
  BY <1>2, ConstantsAssumption
<1> HIDE DEF side
<1>4. Cardinality(side \X side) = FieldSize * FieldSize
  BY <1>2, <1>3, FS_Product
<1> QED
  BY <1>4 DEF side, Cells, Coords

LEMMA LeftNat ==
  ASSUME NEW o \in Openings PROVE Left(o) \in Nat
<1>1. Cells \ o.revealed \in SUBSET Cells
  OBVIOUS
<1> QED
  BY <1>1, CellsFinite, FS_CardinalityType DEF Left

LEMMA OpenedFewer ==
  ASSUME NEW o \in Openings, NEW c \in Cells, c \notin o.revealed
  PROVE  /\ Opened(c, o) \in Openings
         /\ Opened(c, o).revealed = o.revealed \cup {c}
         /\ Opened(c, o).hit = o.hit /\ Opened(c, o).reports = o.reports
         /\ \A p \in Above(Opened(c, o)) : Left(p) < Left(o) /\ p \in Above(o)
<1>1. /\ Opened(c, o) \in Openings
      /\ Opened(c, o).revealed = o.revealed \cup {c}
      /\ Opened(c, o).hit = o.hit /\ Opened(c, o).reports = o.reports
  BY DEF Opened, Openings
<1>2. ASSUME NEW p \in Above(Opened(c, o)) PROVE Left(p) < Left(o) /\ p \in Above(o)
  <2> DEFINE a == Cells \ o.revealed
             b == Cells \ p.revealed
  <2>1. p \in Openings /\ o.revealed \cup {c} \subseteq p.revealed
    BY <1>1 DEF Above
  <2>2. b \subseteq a \ {c} /\ c \in a /\ a \in SUBSET Cells
    BY <2>1
  <2>3. IsFiniteSet(a) /\ IsFiniteSet(a \ {c})
    BY CellsFinite, FS_Subset
  <2> HIDE DEF a, b
  <2>4. Cardinality(b) <= Cardinality(a \ {c}) /\ Cardinality(a \ {c}) = Cardinality(a) - 1
    BY <2>2, <2>3, FS_Subset, FS_RemoveElement
  <2>5. Cardinality(a) \in Nat /\ Cardinality(b) \in Nat
    BY <2>2, <2>3, FS_Subset, FS_CardinalityType
  <2>6. Cardinality(b) < Cardinality(a)
    BY <2>4, <2>5
  <2> QED
    BY <2>1, <2>6 DEF Left, Above, a, b
<1> QED
  BY <1>1, <1>2

\* Induction on the number of closed cells.
LEMMA FewerFirst ==
  ASSUME NEW P,
         ASSUME NEW c \in Cells, NEW o \in Openings,
                \A n \in Cells, p \in Openings : Left(p) < Left(o) => <<n, p>> \in P
         PROVE  <<c, o>> \in P
  PROVE  \A c \in Cells, o \in Openings : <<c, o>> \in P
<1> DEFINE S == {b \in Nat : \A c \in Cells, o \in Openings : Left(o) < b => <<c, o>> \in P}
<1>1. 0 \in S
  BY LeftNat
<1>2. ASSUME NEW b \in S PROVE b + 1 \in S
  <2> SUFFICES ASSUME NEW c \in Cells, NEW o \in Openings, Left(o) < b + 1 PROVE <<c, o>> \in P
    OBVIOUS
  <2>1. \A n \in Cells, p \in Openings : Left(p) < Left(o) => <<n, p>> \in P
    <3> SUFFICES ASSUME NEW n \in Cells, NEW p \in Openings, Left(p) < Left(o)
                 PROVE  <<n, p>> \in P
      OBVIOUS
    <3>1. Left(p) \in Nat /\ Left(o) \in Nat /\ b \in Nat
      BY LeftNat
    <3>2. Left(p) < b
      BY <3>1
    <3> QED
      BY <3>2
  <2> HIDE DEF S
  <2> QED
    BY <2>1
<1> HIDE DEF S
<1>3. S \subseteq Nat
  BY DEF S
<1>4. S = Nat
  BY <1>1, <1>2, <1>3, SetInduction
<1>5. ASSUME NEW c \in Cells, NEW o \in Openings PROVE <<c, o>> \in P
  <2>1. Left(o) + 1 \in S /\ Left(o) < Left(o) + 1
    BY <1>4, LeftNat
  <2> QED
    BY <2>1 DEF S
<1> QED
  BY <1>5

-----------------------------------------------------------------------------
(* The loops of reveal_neighbors, with R for the calls of reveal_cell.         *)

Turn(R, c, p, d) == IF Floods(Beside(c, d), p) THEN R[<<Beside(c, d), p>>] ELSE p
Flood(R, c, e) == FoldLeft(LAMBDA p, d : Turn(R, c, p, d), e, Offsets)

\* R opens cells and closes none, when it is called above e.
Opens(R, e) == \A n \in Cells, p \in Above(e) : R[<<n, p>>] \in Above(p)

\* F is the course of the loops.
Turns(F, R, c, e) ==
  /\ F \in [0 .. 9 -> Above(e)] /\ F[0] = e
  /\ \A k \in 1 .. 9 : F[k] = Turn(R, c, F[k - 1], Offsets[k])

LEMMA AboveAbove ==
  ASSUME NEW e, NEW p \in Above(e), NEW r \in Above(p) PROVE r \in Above(e)
BY DEF Above

LEMMA TurnAbove ==
  ASSUME NEW e, NEW R, Opens(R, e), NEW c, NEW d, NEW p \in Above(e)
  PROVE  Turn(R, c, p, d) \in Above(e) /\ Turn(R, c, p, d) \in Above(p)
<1>1. p \in Above(p)
  BY DEF Above
<1>2. CASE Floods(Beside(c, d), p)
  <2>1. R[<<Beside(c, d), p>>] \in Above(p)
    BY <1>2 DEF Opens, Floods
  <2> QED
    BY <1>2, <2>1, AboveAbove DEF Turn
<1>3. CASE ~Floods(Beside(c, d), p)
  BY <1>1, <1>3 DEF Turn
<1> QED
  BY <1>2, <1>3

Nine == 1 .. 9
IsFlood(K, R, c, e) ==
  K = [s \in SUBSET DOMAIN Offsets |->
         IF s = {} THEN e ELSE Turn(R, c, K[s \ {Max(s)}], Offsets[Max(s)])]

LEMMA NineFinite ==
  /\ DOMAIN Offsets = Nine /\ IsFiniteSet(Nine)
  /\ \A s \in SUBSET Nine : s # {} => Max(s) \in s
  /\ \A k \in 0 .. 8 : Max(1 .. k + 1) = k + 1
<1>1. DOMAIN Offsets = Nine
  BY DEF Offsets, Nine
<1>2. IsFiniteSet(Nine)
  <2>1. 1 \in Int /\ 9 \in Int
    OBVIOUS
  <2> QED
    BY <2>1, FS_Interval, Zenon DEF Nine
<1>3. ASSUME NEW s \in SUBSET Nine, s # {} PROVE Max(s) \in s
  <2>1. \E k \in s : \A j \in s : k >= j
    BY <1>3, GreatestExists DEF Nine
  <2> QED
    BY <2>1 DEF Max
<1>4. ASSUME NEW k \in 0 .. 8 PROVE Max(1 .. k + 1) = k + 1
  <2>1. k + 1 \in 1 .. k + 1 /\ \A j \in 1 .. k + 1 : k + 1 >= j /\ (j >= k + 1 => j = k + 1)
    OBVIOUS
  <2> QED
    BY <2>1 DEF Max
<1> QED
  BY <1>1, <1>2, <1>3, <1>4

LEMMA FloodExists ==
  ASSUME NEW c, NEW e \in Openings, NEW R, Opens(R, e)
  PROVE  \E K : IsFlood(K, R, c, e)
<1> DEFINE X == Above(e)
           ch == [s \in SUBSET Nine |-> Max(s)]
           h == [p \in Nine \X X |-> Turn(R, c, p[2], Offsets[p[1]])]
<1>1. \A s \in SUBSET Nine : s # {} => ch[s] \in s
  BY NineFinite
<1>2. h \in [Nine \X X -> X]
  BY TurnAbove
<1>3. e \in X
  BY DEF Above
<1> HIDE DEF X, ch, h
<1>4. PICK F : Folds(F, Nine, ch, X, e, h)
  BY <1>1, <1>2, <1>3, NineFinite, FoldExists
<1>5. ASSUME NEW s \in SUBSET Nine, s # {}
      PROVE  F[s] = Turn(R, c, F[s \ {Max(s)}], Offsets[Max(s)])
  <2>1. ch[s] = Max(s) /\ Max(s) \in Nine /\ s \ {Max(s)} \in SUBSET Nine
    BY <1>5, NineFinite DEF ch
  <2>2. F[s] = h[<<Max(s), F[s \ {Max(s)}]>>] /\ F[s \ {Max(s)}] \in X
    BY <1>4, <1>5, <2>1 DEF Folds
  <2> QED
    BY <2>1, <2>2 DEF h
<1>6. F[{}] = e /\ F \in [SUBSET Nine -> X]
  BY <1>4 DEF Folds
<1>7. IsFlood(F, R, c, e)
  BY <1>5, <1>6, NineFinite DEF IsFlood
<1> QED
  BY <1>7

LEMMA FloodTurns ==
  ASSUME NEW c, NEW e \in Openings, NEW R, Opens(R, e)
  PROVE  \E F : Turns(F, R, c, e) /\ Flood(R, c, e) = F[9]
<1> DEFINE K == CHOOSE L : IsFlood(L, R, c, e)
           F == [k \in 0 .. 9 |-> K[1 .. k]]
<1>1. IsFlood(K, R, c, e)
  BY FloodExists
<1>2. Flood(R, c, e) = K[DOMAIN Offsets]
  BY DEF Flood, FoldLeft, MapThenFoldSet, IsFlood
<1> HIDE DEF K
<1>3. K[{}] = e /\ \A s \in SUBSET Nine :
        s # {} => K[s] = Turn(R, c, K[s \ {Max(s)}], Offsets[Max(s)])
  BY <1>1, NineFinite DEF IsFlood
<1>4. F[0] = e
  BY <1>3
<1>5. ASSUME NEW k \in 0 .. 8 PROVE F[k + 1] = Turn(R, c, F[k], Offsets[k + 1])
  <2>1. Max(1 .. k + 1) = k + 1
    BY NineFinite
  <2>2. (1 .. k + 1) \ {k + 1} = 1 .. k /\ 1 .. k + 1 \in SUBSET Nine /\ k + 1 \in 1 .. k + 1
    BY DEF Nine
  <2>3. K[1 .. k + 1] = Turn(R, c, K[1 .. k], Offsets[k + 1])
    BY <1>3, <2>1, <2>2
  <2> QED
    BY <2>3
<1> HIDE DEF F
<1> DEFINE S == {k \in Nat : k <= 9 => F[k] \in Above(e)}
<1>6. 0 \in S
  BY <1>4 DEF Above
<1>7. ASSUME NEW k \in S PROVE k + 1 \in S
  <2> SUFFICES ASSUME k + 1 <= 9 PROVE F[k + 1] \in Above(e)
    OBVIOUS
  <2>1. k \in 0 .. 8 /\ F[k] \in Above(e)
    OBVIOUS
  <2> QED
    BY <1>5, <2>1, TurnAbove
<1> HIDE DEF S
<1>8. S \subseteq Nat
  BY DEF S
<1>9. S = Nat
  BY <1>6, <1>7, <1>8, SetInduction
<1>10. \A k \in 0 .. 9 : F[k] \in Above(e)
  BY <1>9 DEF S
<1>11. F \in [0 .. 9 -> Above(e)]
  BY <1>10 DEF F
<1>12. ASSUME NEW k \in 1 .. 9 PROVE F[k] = Turn(R, c, F[k - 1], Offsets[k])
  <2>1. k - 1 \in 0 .. 8 /\ (k - 1) + 1 = k
    OBVIOUS
  <2> QED
    BY <1>5, <2>1
<1>13. Flood(R, c, e) = F[9]
  BY <1>2, NineFinite DEF F, Nine
<1>14. Turns(F, R, c, e)
  BY <1>4, <1>11, <1>12 DEF Turns
<1> QED
  BY <1>13, <1>14

\* The loops only depend on the calls they make.
LEMMA FloodSame ==
  ASSUME NEW c, NEW e \in Openings, NEW R, NEW Q, Opens(R, e),
         \A n \in Cells, p \in Above(e) : R[<<n, p>>] = Q[<<n, p>>]
  PROVE  Flood(R, c, e) = Flood(Q, c, e)
<1>1. Opens(Q, e)
  BY DEF Opens
<1>2. PICK F : Turns(F, R, c, e) /\ Flood(R, c, e) = F[9]
  BY FloodTurns
<1>3. PICK G : Turns(G, Q, c, e) /\ Flood(Q, c, e) = G[9]
  BY <1>1, FloodTurns
<1> DEFINE S == {k \in Nat : k <= 9 => F[k] = G[k]}
<1>4. 0 \in S
  BY <1>2, <1>3 DEF Turns
<1>5. ASSUME NEW k \in S PROVE k + 1 \in S
  <2> SUFFICES ASSUME k + 1 <= 9 PROVE F[k + 1] = G[k + 1]
    OBVIOUS
  <2>1. k + 1 \in 1 .. 9 /\ (k + 1) - 1 = k /\ k \in 0 .. 9 /\ F[k] = G[k]
    OBVIOUS
  <2>2. F[k + 1] = Turn(R, c, F[k], Offsets[k + 1]) /\ F[k] \in Above(e)
    BY <1>2, <2>1 DEF Turns
  <2>3. G[k + 1] = Turn(Q, c, F[k], Offsets[k + 1])
    BY <1>3, <2>1 DEF Turns
  <2>4. Turn(R, c, F[k], Offsets[k + 1]) = Turn(Q, c, F[k], Offsets[k + 1])
    BY <2>2 DEF Turn, Floods
  <2> QED
    BY <2>2, <2>3, <2>4
<1> HIDE DEF S
<1>6. S \subseteq Nat
  BY DEF S
<1>7. S = Nat
  BY <1>4, <1>5, <1>6, SetInduction
<1>8. F[9] = G[9]
  BY <1>7 DEF S
<1> QED
  BY <1>2, <1>3, <1>8


-----------------------------------------------------------------------------
(* reveal_cell.                                                                *)

Result(R, c, o) ==
  IF c \in o.revealed \/ c \in flagged THEN o
  ELSE IF c \in mines THEN [Opened(c, o) EXCEPT !.hit = TRUE]
  ELSE IF Number(c) > 0 THEN CheckWin(Opened(c, o))
  ELSE CheckWin(Flood(R, c, Opened(c, o)))

RevealStep(R) == [call \in Cells \X Openings |-> Result(R, call[1], call[2])]

LEMMA CheckWinAbove ==
  ASSUME NEW p \in Openings PROVE CheckWin(p) \in Above(p) /\ CheckWin(p).revealed = p.revealed
BY DEF CheckWin, Openings, Above

LEMMA FloodAbove ==
  ASSUME NEW c, NEW e \in Openings, NEW R, Opens(R, e) PROVE Flood(R, c, e) \in Above(e)
<1>1. PICK F : Turns(F, R, c, e) /\ Flood(R, c, e) = F[9]
  BY FloodTurns
<1> QED
  BY <1>1 DEF Turns

LEMMA ResultAbove ==
  ASSUME NEW c \in Cells, NEW o \in Openings, NEW R, c \notin o.revealed => Opens(R, Opened(c, o))
  PROVE  Result(R, c, o) \in Above(o)
<1>1. CASE c \in o.revealed \/ c \in flagged
  BY <1>1 DEF Result, Above
<1>2. CASE ~(c \in o.revealed \/ c \in flagged)
  <2> DEFINE e == Opened(c, o)
  <2>1. e \in Openings /\ e \in Above(e) /\ \A p \in Above(e) : p \in Above(o)
    BY <1>2, OpenedFewer DEF Above
  <2>2. Flood(R, c, e) \in Above(e)
    BY <1>2, <2>1, FloodAbove
  <2>3. [e EXCEPT !.hit = TRUE] \in Above(e)
    BY <2>1 DEF Above, Openings
  <2> HIDE DEF e
  <2>4. \A p \in Above(e) : CheckWin(p) \in Above(e)
    BY CheckWinAbove, AboveAbove DEF Above
  <2>5. Result(R, c, o) \in Above(e)
    BY <1>2, <2>1, <2>2, <2>3, <2>4 DEF Result, e
  <2> QED
    BY <2>1, <2>5
<1> QED
  BY <1>1, <1>2

\* A call depends only on the calls for fewer closed cells.
LEMMA ResultSame ==
  ASSUME NEW c \in Cells, NEW o \in Openings, NEW R, NEW Q,
         c \notin o.revealed => Opens(R, Opened(c, o)),
         \A n \in Cells, p \in Openings : Left(p) < Left(o) => R[<<n, p>>] = Q[<<n, p>>]
  PROVE  Result(R, c, o) = Result(Q, c, o)
<1>1. CASE c \in o.revealed
  BY <1>1 DEF Result
<1>2. CASE c \notin o.revealed
  <2> DEFINE e == Opened(c, o)
  <2>1. e \in Openings /\ \A p \in Above(e) : p \in Openings /\ Left(p) < Left(o)
    BY <1>2, OpenedFewer DEF Above
  <2>2. Flood(R, c, e) = Flood(Q, c, e)
    <3>1. Opens(R, e)
      BY <1>2
    <3> HIDE DEF e
    <3>2. \A n \in Cells, p \in Above(e) : R[<<n, p>>] = Q[<<n, p>>]
      BY <2>1
    <3> QED
      BY <2>1, <3>1, <3>2, FloodSame
  <2> QED
    BY <2>2 DEF Result
<1> QED
  BY <1>1, <1>2

LEMMA RevealExists == \E R : R = RevealStep(R)
<1> DEFINE X == {R \in [Cells \X Openings -> Openings] :
                   \A c \in Cells, o \in Openings : R[<<c, o>>] \in Above(o)}
           e == [call \in Cells \X Openings |-> call[2]]
           h == [p \in Nat \X X |-> RevealStep(p[2])]
<1>1. \A R \in X, o \in Openings : Opens(R, o)
  BY DEF Opens, Above
<1>2. \A R \in X : RevealStep(R) \in X
  <2> SUFFICES ASSUME NEW R \in X PROVE RevealStep(R) \in X
    OBVIOUS
  <2>1. ASSUME NEW c \in Cells, NEW o \in Openings PROVE Result(R, c, o) \in Above(o)
    <3>1. c \notin o.revealed => Opens(R, Opened(c, o))
      BY <1>1, OpenedFewer
    <3> QED
      BY <3>1, ResultAbove
  <2>2. \A c \in Cells, o \in Openings : Result(R, c, o) \in Openings
    BY <2>1 DEF Above
  <2> QED
    BY <2>1, <2>2 DEF RevealStep
<1>3. e \in X
  BY DEF Above
<1>4. h \in [Nat \X X -> X]
  BY <1>2
<1> HIDE DEF X, e, h
<1>5. PICK G : Recurs(G, X, e, h)
  BY <1>3, <1>4, NatRecursion
<1>6. \A n \in Nat : G[n] \in X /\ G[n + 1] = RevealStep(G[n])
  BY <1>5 DEF Recurs, h
<1>7. \A n \in Nat, c \in Cells, o \in Openings : G[n + 1][<<c, o>>] = Result(G[n], c, o)
  BY <1>6 DEF RevealStep
<1>8. \A n \in Nat, c \in Cells, o \in Openings :
        c \notin o.revealed => Opens(G[n], Opened(c, o))
  BY <1>1, <1>6, OpenedFewer
<1> DEFINE P == {a \in Cells \X Openings :
                   \A n, m \in Nat : n > Left(a[2]) /\ m > Left(a[2]) => G[n][a] = G[m][a]}
<1>9. ASSUME NEW c \in Cells, NEW o \in Openings,
             \A n \in Cells, p \in Openings : Left(p) < Left(o) => <<n, p>> \in P
      PROVE  <<c, o>> \in P
  <2> SUFFICES ASSUME NEW n \in Nat, NEW m \in Nat, n > Left(o), m > Left(o)
               PROVE  G[n][<<c, o>>] = G[m][<<c, o>>]
    OBVIOUS
  <2>1. Left(o) \in Nat
    BY LeftNat
  <2>2. n - 1 \in Nat /\ m - 1 \in Nat /\ (n - 1) + 1 = n /\ (m - 1) + 1 = m
    BY <2>1
  <2>3. G[n][<<c, o>>] = Result(G[n - 1], c, o) /\ G[m][<<c, o>>] = Result(G[m - 1], c, o)
    BY <1>7, <2>2
  <2>4. ASSUME NEW z \in Cells, NEW p \in Openings, Left(p) < Left(o)
        PROVE  G[n - 1][<<z, p>>] = G[m - 1][<<z, p>>]
    <3>1. <<z, p>> \in P /\ Left(p) \in Nat
      BY <1>9, <2>4, LeftNat
    <3>2. n - 1 > Left(p) /\ m - 1 > Left(p)
      BY <2>1, <2>4, <3>1
    <3> QED
      BY <2>2, <3>1, <3>2
  <2> HIDE DEF P
  <2> QED
    BY <1>8, <2>2, <2>3, <2>4, ResultSame
<1> HIDE DEF P
<1>10. \A c \in Cells, o \in Openings : <<c, o>> \in P
  BY <1>9, FewerFirst
<1> DEFINE F == [a \in Cells \X Openings |-> G[Left(a[2]) + 1][a]]
<1>11. ASSUME NEW c \in Cells, NEW o \in Openings PROVE F[<<c, o>>] = Result(F, c, o)
  <2>1. Left(o) \in Nat
    BY LeftNat
  <2>2. F[<<c, o>>] = Result(G[Left(o)], c, o)
    BY <1>7, <2>1
  <2>3. ASSUME NEW z \in Cells, NEW p \in Openings, Left(p) < Left(o)
        PROVE  G[Left(o)][<<z, p>>] = F[<<z, p>>]
    <3>1. Left(p) \in Nat /\ Left(p) + 1 \in Nat /\ Left(p) + 1 > Left(p)
      BY LeftNat
    <3>2. G[Left(o)][<<z, p>>] = G[Left(p) + 1][<<z, p>>]
      BY <1>10, <2>1, <2>3, <3>1 DEF P
    <3> QED
      BY <3>2
  <2> HIDE DEF F
  <2>4. Result(G[Left(o)], c, o) = Result(F, c, o)
    BY <1>8, <2>1, <2>3, ResultSame
  <2> QED
    BY <2>2, <2>4
<1>12. F = RevealStep(F)
  <2>1. F = [a \in Cells \X Openings |-> F[a]]
    OBVIOUS
  <2> HIDE DEF F
  <2>2. \A a \in Cells \X Openings : F[a] = Result(F, a[1], a[2])
    BY <1>11
  <2> QED
    BY <2>1, <2>2 DEF RevealStep
<1> QED
  BY <1>12

\* What the recursion of reveal_cell comes to.
LEMMA RevealIs ==
  ASSUME NEW c \in Cells, NEW o \in Openings
  PROVE  Reveal[<<c, o>>] = Result(Reveal, c, o)
<1>1. Reveal = CHOOSE R : R = RevealStep(R)
  BY DEF Reveal, RevealStep, Result, Opened, Flood, Turn, Struck
<1>2. Reveal = RevealStep(Reveal)
  BY <1>1, RevealExists
<1> HIDE DEF Reveal
<1> QED
  BY <1>2 DEF RevealStep

LEMMA RevealAbove ==
  \A c \in Cells, o \in Openings : Reveal[<<c, o>>] \in Above(o)
<1> DEFINE P == {a \in Cells \X Openings : Reveal[a] \in Above(a[2])}
<1>1. ASSUME NEW c \in Cells, NEW o \in Openings,
             \A n \in Cells, p \in Openings : Left(p) < Left(o) => <<n, p>> \in P
      PROVE  <<c, o>> \in P
  <2>1. c \notin o.revealed => Opens(Reveal, Opened(c, o))
    <3> SUFFICES ASSUME c \notin o.revealed, NEW n \in Cells, NEW p \in Above(Opened(c, o))
                 PROVE  Reveal[<<n, p>>] \in Above(p)
      BY DEF Opens
    <3>1. p \in Openings /\ Left(p) < Left(o)
      BY OpenedFewer DEF Above
    <3>2. <<n, p>> \in P
      BY <1>1, <3>1
    <3> QED
      BY <3>2
  <2>2. Reveal[<<c, o>>] \in Above(o)
    BY <2>1, RevealIs, ResultAbove
  <2> QED
    BY <2>2
<1> HIDE DEF P
<1>2. \A c \in Cells, o \in Openings : <<c, o>> \in P
  BY <1>1, FewerFirst
<1> QED
  BY <1>2 DEF P


-----------------------------------------------------------------------------
(* Reports.                                                                    *)

\* From o to r the win is reported exactly when the last safe cell is opened.
Counts(o, r) ==
  /\ r.reports >= o.reports
  /\ r.reports > o.reports => Unopened(r) = {}
  /\ r.reports = o.reports => Unopened(o) = {} \/ Unopened(r) # {}

LEMMA CountsFurther ==
  ASSUME NEW o \in Openings, NEW p \in Above(o), NEW r \in Above(p), Counts(o, p), Counts(p, r)
  PROVE  Counts(o, r)
<1>1. o.reports \in Nat /\ p.reports \in Nat /\ r.reports \in Nat
  BY DEF Above, Openings
<1>2. Unopened(p) = {} => Unopened(r) = {}
  BY DEF Above, Unopened
<1> QED
  BY <1>1, <1>2 DEF Counts

LEMMA BesideAround ==
  ASSUME NEW c \in Cells
  PROVE  /\ \A k \in Nine : Beside(c, Offsets[k]) \in Cells => Beside(c, Offsets[k]) \in Around[c]
         /\ \A n \in Around[c] : \E k \in Nine : n = Beside(c, Offsets[k])
<1>1. /\ c[1] \in Int /\ c[2] \in Int
      /\ \A n \in Cells : n[1] \in Int /\ n[2] \in Int /\ n = <<n[1], n[2]>>
  BY ConstantsAssumption DEF Cells, Coords
<1>2. Around[c] = {n \in Cells : n[1] - c[1] \in -1..1 /\ n[2] - c[2] \in -1..1}
  BY DEF Around
<1>3. ASSUME NEW k \in Nine
      PROVE  /\ Offsets[k][1] \in -1..1 /\ Offsets[k][2] \in -1..1
             /\ Beside(c, Offsets[k])[1] = c[1] + Offsets[k][1]
             /\ Beside(c, Offsets[k])[2] = c[2] + Offsets[k][2]
  <2>1. k \in {1, 2, 3, 4, 5, 6, 7, 8, 9}
    BY DEF Nine
  <2> QED
    BY <2>1 DEF Offsets, Beside
<1>4. \A k \in Nine : Beside(c, Offsets[k]) \in Cells => Beside(c, Offsets[k]) \in Around[c]
  BY <1>1, <1>2, <1>3
<1>5. ASSUME NEW n \in Around[c] PROVE \E k \in Nine : n = Beside(c, Offsets[k])
  <2> DEFINE d == <<n[1] - c[1], n[2] - c[2]>>
  <2>1. n \in Cells /\ n[1] - c[1] \in -1..1 /\ n[2] - c[2] \in -1..1
    BY <1>2
  <2>2. n = Beside(c, d)
    BY <1>1, <2>1 DEF Beside
  <2>3. d[1] \in {-1, 0, 1} /\ d[2] \in {-1, 0, 1} /\ d = <<d[1], d[2]>>
    BY <2>1
  <2> HIDE DEF d
  <2>4. \E k \in {1, 2, 3, 4, 5, 6, 7, 8, 9} : d = Offsets[k]
    BY <2>3 DEF Offsets
  <2> QED
    BY <2>2, <2>4 DEF Nine
<1> QED
  BY <1>4, <1>5

\* What holds before the loops and is kept by each call holds after them.
LEMMA FloodKeeps ==
  ASSUME NEW c \in Cells, NEW e \in Openings, NEW R, Opens(R, e), NEW P, e \in P,
         \A n \in Around[c], p \in Above(e) : p \in P /\ Floods(n, p) => R[<<n, p>>] \in P
  PROVE  Flood(R, c, e) \in P
<1>1. PICK F : Turns(F, R, c, e) /\ Flood(R, c, e) = F[9]
  BY FloodTurns
<1> DEFINE S == {k \in Nat : k <= 9 => F[k] \in P}
<1>2. 0 \in S
  BY <1>1 DEF Turns
<1>3. ASSUME NEW k \in S PROVE k + 1 \in S
  <2> SUFFICES ASSUME k + 1 <= 9 PROVE F[k + 1] \in P
    OBVIOUS
  <2>1. k + 1 \in 1 .. 9 /\ (k + 1) - 1 = k /\ k \in 0 .. 9 /\ F[k] \in P
    OBVIOUS
  <2>2. F[k + 1] = Turn(R, c, F[k], Offsets[k + 1]) /\ F[k] \in Above(e)
    BY <1>1, <2>1 DEF Turns
  <2> DEFINE n == Beside(c, Offsets[k + 1])
  <2>3. Floods(n, F[k]) => R[<<n, F[k]>>] \in P
    <3>1. n \in Cells => n \in Around[c]
      BY <2>1, BesideAround DEF Nine
    <3> HIDE DEF n
    <3> QED
      BY <2>1, <2>2, <3>1 DEF Floods
  <2>4. F[k + 1] = IF Floods(n, F[k]) THEN R[<<n, F[k]>>] ELSE F[k]
    BY <2>2 DEF Turn
  <2> HIDE DEF n
  <2> QED
    BY <2>1, <2>3, <2>4
<1> HIDE DEF S
<1>4. S \subseteq Nat
  BY DEF S
<1>5. S = Nat
  BY <1>2, <1>3, <1>4, SetInduction
<1>6. F[9] \in P
  BY <1>5 DEF S
<1> QED
  BY <1>1, <1>6

LEMMA RevealOpens ==
  ASSUME NEW e \in Openings PROVE Opens(Reveal, e)
BY RevealAbove DEF Opens, Above

LEMMA RevealCounts ==
  \A c \in Cells, o \in Openings : Counts(o, Reveal[<<c, o>>])
<1> DEFINE P == {a \in Cells \X Openings : Counts(a[2], Reveal[a])}
<1>1. ASSUME NEW c \in Cells, NEW o \in Openings,
             \A n \in Cells, p \in Openings : Left(p) < Left(o) => <<n, p>> \in P
      PROVE  <<c, o>> \in P
  <2> DEFINE e == Opened(c, o)
             r == Reveal[<<c, o>>]
  <2> SUFFICES Counts(o, r)
    OBVIOUS
  <2>1. r = Result(Reveal, c, o) /\ o.reports \in Nat
    BY RevealIs DEF Openings
  <2>2. CASE c \in o.revealed \/ c \in flagged
    BY <2>1, <2>2 DEF Result, Counts
  <2>3. CASE ~(c \in o.revealed \/ c \in flagged)
    <3>1. e \in Openings /\ e.revealed = o.revealed \cup {c} /\ e.reports = o.reports
      BY <2>3, OpenedFewer
    <3>2. \A p \in Above(e) : p \in Openings /\ Left(p) < Left(o)
      BY <2>3, OpenedFewer DEF Above
    <3> HIDE DEF e, r
    <3>3. CASE c \in mines
      <4>1. r = [e EXCEPT !.hit = TRUE]
        BY <2>1, <2>3, <3>3 DEF Result, e
      <4>2. r.revealed = o.revealed \cup {c} /\ r.reports = o.reports
        BY <3>1, <4>1 DEF Openings
      <4>3. Unopened(r) = Unopened(o)
        BY <3>3, <4>2 DEF Unopened
      <4> QED
        BY <2>1, <4>2, <4>3 DEF Counts
    \* check_win_condition after whatever the call has opened before.
    <3>4. ASSUME NEW p \in Above(e), Counts(e, p) \/ p = e, r = CheckWin(p)
          PROVE  Counts(o, r)
      <4>1. p \in Openings /\ p.reports \in Nat /\ e.reports = o.reports
        BY <3>1 DEF Above, Openings
      <4>2. CASE Unopened(p) = {}
        <5>1. r.reports = p.reports + 1 /\ r.revealed = p.revealed
          BY <3>4, <4>1, <4>2 DEF CheckWin, Openings
        <5>2. p.reports >= o.reports
          BY <2>1, <3>4, <4>1 DEF Counts
        <5> QED
          BY <2>1, <4>1, <4>2, <5>1, <5>2 DEF Counts, Unopened
      <4>3. CASE Unopened(p) # {}
        <5>1. r = p
          BY <3>4, <4>3 DEF CheckWin
        <5>2. p.reports = o.reports
          BY <2>1, <3>4, <4>1, <4>3 DEF Counts
        <5> QED
          BY <2>1, <4>3, <5>1, <5>2 DEF Counts
      <4> QED
        BY <4>2, <4>3
    <3>5. CASE c \notin mines /\ Number(c) > 0
      <4>1. r = CheckWin(e) /\ e \in Above(e)
        BY <2>1, <2>3, <3>1, <3>5 DEF Result, e, Above
      <4> QED
        BY <3>4, <4>1
    <3>6. CASE c \notin mines /\ ~(Number(c) > 0)
      <4> DEFINE Q == {p \in Above(e) : Counts(e, p) \/ p = e}
                 f == Flood(Reveal, c, e)
      <4>1. e \in Q /\ Opens(Reveal, e)
        BY <3>1, RevealOpens DEF Above
      <4>2. ASSUME NEW n \in Around[c], NEW p \in Above(e), p \in Q PROVE Reveal[<<n, p>>] \in Q
        <5> DEFINE q == Reveal[<<n, p>>]
        <5>1. p \in Openings /\ n \in Cells
          BY DEF Above, Around
        <5>2. <<n, p>> \in P
          BY <1>1, <3>2, <5>1
        <5>3. q \in Above(p) /\ q \in Above(e)
          BY <5>1, RevealAbove, AboveAbove
        <5>4. Counts(p, q)
          BY <5>2
        <5> HIDE DEF q
        <5>5. Counts(e, q)
          BY <3>1, <4>2, <5>3, <5>4, CountsFurther
        <5> QED
          BY <5>3, <5>5 DEF q
      <4> HIDE DEF Q
      <4>3. f \in Q
        BY <3>1, <4>1, <4>2, FloodKeeps
      <4>4. r = CheckWin(f)
        BY <2>1, <2>3, <3>6 DEF Result, e
      <4> QED
        BY <3>4, <4>3, <4>4 DEF Q
    <3> QED
      BY <3>3, <3>5, <3>6
  <2> QED
    BY <2>2, <2>3
<1> HIDE DEF P
<1>2. \A c \in Cells, o \in Openings : <<c, o>> \in P
  BY <1>1, FewerFirst
<1> QED
  BY <1>2 DEF P

-----------------------------------------------------------------------------
(* The invariant.                                                              *)

\* The counter shows the flags.
FlagsCounted == mines_left = TotalMines - Cardinality(flagged) /\ Cardinality(flagged) <= MaxFlags

\* Only before the first game there is no field.
FieldPlaced == mines = {} => screen = "main_menu" /\ reports = 0

Inv == TypeOK /\ FlagsCounted /\ ClearedIsReported /\ OneTimer /\ FieldPlaced

LEMMA InitInv == Init => Inv
<1> SUFFICES ASSUME Init PROVE Inv
  OBVIOUS
<1>1. Cardinality({}) = 0
  BY FS_EmptySet
<1>2. TypeOK
  <2>1. lost \in BOOLEAN
    BY DEF Init
  <2>2. /\ mines_left \in (TotalMines - MaxFlags)..TotalMines /\ elapsed_time \in 0..MaxTime
        /\ timer_id \in 0..MaxStarts /\ reports \in Nat
    BY ConstantsAssumption DEF Init
  <2> QED
    BY <2>1, <2>2 DEF Init, TypeOK
<1>3. FlagsCounted
  BY <1>1, ConstantsAssumption DEF Init, FlagsCounted
<1>4. ClearedIsReported /\ OneTimer /\ FieldPlaced
  BY DEF Init, ClearedIsReported, OneTimer, FieldPlaced
<1> QED
  BY <1>2, <1>3, <1>4 DEF Inv

LEMMA StartInv ==
  ASSUME Inv, Start PROVE Inv'
<1>1. /\ timer_id < MaxStarts /\ screen' = "minesweeper_screen"
      /\ mines' \in kSubset(TotalMines, Cells)
      /\ revealed' = {} /\ flagged' = {} /\ mines_left' = TotalMines /\ elapsed_time' = 0
      /\ timer_id' = timer_id + 1 /\ sources' = (sources \ {timer_id}) \cup {timer_id + 1}
      /\ lost' = FALSE /\ reports' = 0
  BY DEF Start, RemoveTimeout
<1>2. mines' \subseteq Cells /\ Cardinality(mines') = TotalMines
  BY <1>1 DEF kSubset
<1>3. timer_id' \in 0 .. MaxStarts /\ timer_id' \in 1 .. MaxStarts
  BY <1>1, ConstantsAssumption DEF Inv, TypeOK
<1>4. TypeOK'
  <2>1. mines_left' \in (TotalMines - MaxFlags)..TotalMines /\ elapsed_time' \in 0..MaxTime
    BY <1>1, ConstantsAssumption
  <2>2. sources' \subseteq 1 .. MaxStarts
    BY <1>1, <1>3 DEF Inv, TypeOK
  <2>3. lost' \in BOOLEAN /\ reports' \in Nat
    BY <1>1
  <2> QED
    BY <1>1, <1>2, <1>3, <2>1, <2>2, <2>3 DEF TypeOK
<1>5. FlagsCounted'
  BY <1>1, FS_EmptySet, ConstantsAssumption DEF FlagsCounted
<1>6. ClearedIsReported'
  <2>1. Cells \ mines' # {}
    <3>1. Cells # mines'
      <4>1. Cardinality(Cells) = FieldSize * FieldSize
        BY CellsCount
      <4>2. FieldSize * FieldSize \in Nat /\ TotalMines < FieldSize * FieldSize
        BY ConstantsAssumption
      <4> QED
        BY <1>2, <4>1, <4>2
    <3> QED
      BY <1>2, <3>1
  <2> QED
    BY <1>1, <2>1 DEF ClearedIsReported
<1>7. OneTimer'
  BY <1>1 DEF Inv, OneTimer
<1>8. FieldPlaced'
  BY <1>2, FS_EmptySet, ConstantsAssumption DEF FieldPlaced
<1> QED
  BY <1>4, <1>5, <1>6, <1>7, <1>8 DEF Inv

LEMMA OpenInv ==
  ASSUME Inv, NEW c \in Cells, Open(c) PROVE Inv'
<1> DEFINE before == [revealed |-> revealed, hit |-> FALSE, reports |-> reports]
           after == Reveal[<<c, before>>]
<1>1. /\ revealed' = after.revealed /\ lost' = (lost \/ after.hit) /\ reports' = after.reports
      /\ sources' = IF after.hit \/ after.reports # reports THEN sources \ {timer_id} ELSE sources
      /\ UNCHANGED <<screen, mines, flagged, mines_left, elapsed_time, timer_id>>
  BY DEF Open, StopTimer, RemoveTimeout
<1>2. before \in Openings /\ before.reports = reports /\ before.revealed = revealed
  BY DEF Inv, TypeOK, Openings
<1>3. after \in Above(before) /\ Counts(before, after)
  BY <1>2, RevealAbove, RevealCounts
<1> HIDE DEF after
<1>4. after \in Openings /\ revealed \subseteq after.revealed
  BY <1>2, <1>3 DEF Above
<1>5. TypeOK'
  <2>1. lost' \in BOOLEAN
    BY <1>1, <1>4 DEF Openings, Inv, TypeOK
  <2>2. revealed' \subseteq Cells /\ reports' \in Nat /\ sources' \subseteq 1..MaxStarts
    BY <1>1, <1>4 DEF Openings, Inv, TypeOK
  <2> QED
    BY <1>1, <2>1, <2>2 DEF Inv, TypeOK
<1>6. FlagsCounted'
  BY <1>1 DEF Inv, FlagsCounted
<1>7. ClearedIsReported'
  <2> SUFFICES ASSUME mines # {} PROVE reports' > 0 <=> Cells \ mines \subseteq revealed'
    BY <1>1 DEF ClearedIsReported
  <2>1. reports > 0 <=> Cells \ mines \subseteq revealed
    BY DEF Inv, ClearedIsReported
  <2>2. reports \in Nat /\ reports' \in Nat
    BY <1>1, <1>4 DEF Inv, TypeOK, Openings
  <2>3. /\ Unopened(before) = {} <=> Cells \ mines \subseteq revealed
        /\ Unopened(after) = {} <=> Cells \ mines \subseteq revealed'
    BY <1>1, <1>2 DEF Unopened
  <2>4. /\ reports' >= reports
        /\ reports' > reports => Unopened(after) = {}
        /\ reports' = reports => Unopened(before) = {} \/ Unopened(after) # {}
    BY <1>1, <1>2, <1>3 DEF Counts
  <2>5. revealed \subseteq revealed'
    BY <1>1, <1>4
  <2>6. CASE reports' = reports
    BY <2>1, <2>3, <2>4, <2>5, <2>6
  <2>7. CASE reports' > reports
    <3>1. reports' > 0
      BY <2>2, <2>7
    <3> QED
      BY <2>3, <2>4, <2>7, <3>1
  <2> QED
    BY <2>2, <2>4, <2>6, <2>7
<1>8. OneTimer'
  <2>1. CASE after.hit \/ after.reports # reports
    BY <1>1, <2>1 DEF Inv, OneTimer
  <2>2. CASE ~after.hit /\ after.reports = reports
    BY <1>1, <2>2 DEF Inv, OneTimer
  <2> QED
    BY <2>1, <2>2
<1>9. FieldPlaced'
  BY <1>1 DEF Inv, FieldPlaced, Open, Pressed
<1> QED
  BY <1>5, <1>6, <1>7, <1>8, <1>9 DEF Inv

LEMMA FlagInv ==
  ASSUME Inv, NEW c \in Cells, Flag(c) \/ Unflag(c) PROVE Inv'
<1>1. /\ UNCHANGED <<screen, mines, revealed, lost, reports, timer>>
      /\ \/ /\ c \notin flagged /\ Cardinality(flagged) < MaxFlags
            /\ flagged' = flagged \cup {c} /\ mines_left' = mines_left - 1
         \/ c \in flagged /\ flagged' = flagged \ {c} /\ mines_left' = mines_left + 1
  BY DEF Flag, Unflag, GivenBack
<1>2. /\ IsFiniteSet(flagged) /\ Cardinality(flagged) \in Nat
      /\ flagged' \subseteq Cells
  BY <1>1, CellsFinite, FS_CardinalityType DEF Inv, TypeOK
<1>3. \/ Cardinality(flagged) < MaxFlags /\ Cardinality(flagged') = Cardinality(flagged) + 1
         /\ mines_left' = mines_left - 1
      \/ Cardinality(flagged') = Cardinality(flagged) - 1 /\ mines_left' = mines_left + 1
  BY <1>1, <1>2, FS_AddElement, FS_RemoveElement
<1>4. Cardinality(flagged') \in Nat
  BY <1>2, CellsFinite, FS_CardinalityType
<1>5. FlagsCounted' /\ mines_left' \in (TotalMines - MaxFlags)..TotalMines
  BY <1>2, <1>3, <1>4, ConstantsAssumption DEF Inv, FlagsCounted
<1>6. TypeOK' /\ ClearedIsReported' /\ OneTimer' /\ FieldPlaced'
  BY <1>1, <1>2, <1>5
  DEF Inv, TypeOK, ClearedIsReported, OneTimer, FieldPlaced, timer
<1> QED
  BY <1>5, <1>6 DEF Inv

LEMMA NextInv == Inv /\ [Next]_vars => Inv'
<1> SUFFICES ASSUME Inv, [Next]_vars PROVE Inv'
  OBVIOUS
<1>1. CASE Back
  BY <1>1
  DEF Back, field, timer, Inv, TypeOK, FlagsCounted, ClearedIsReported, OneTimer, FieldPlaced
<1>2. CASE Tick
  <2>1. elapsed_time' \in 0 .. MaxTime
    BY <1>2, ConstantsAssumption DEF Tick, Inv, TypeOK
  <2> QED
    BY <1>2, <2>1
    DEF Tick, field, Inv, TypeOK, FlagsCounted, ClearedIsReported, OneTimer, FieldPlaced
<1>3. CASE UNCHANGED vars
  BY <1>3 DEF vars, Inv, TypeOK, FlagsCounted, ClearedIsReported, OneTimer, FieldPlaced
<1> QED
  BY <1>1, <1>2, <1>3, StartInv, OpenInv, FlagInv DEF Next

LEMMA Invariance == Spec => []Inv
BY InitInv, NextInv, PTL DEF Spec

-----------------------------------------------------------------------------
\* Whatever is opened, flagged, left and started, the field, the counter and
\* the timer of Minesweeper stay in their ranges (mine.c:10-24).
THEOREM TypesKept == Spec => []TypeOK
<1>1. Inv => TypeOK
  BY DEF Inv
<1> QED
  BY Invariance, <1>1, PTL

\* Whatever call of the recursion opens the last safe cell, and however deep,
\* the game is reported, and no game is reported before (check_win_condition).
THEOREM ClearedGameReported == Spec => []ClearedIsReported
<1>1. Inv => ClearedIsReported
  BY DEF Inv
<1> QED
  BY Invariance, <1>1, PTL

\* In whatever order games are left, started, won and lost, at most one
\* timeout is attached to the main loop, and none to a game that has ended.
THEOREM OneTimeout == Spec => []OneTimer
<1>1. Inv => OneTimer
  BY DEF Inv
<1> QED
  BY Invariance, <1>1, PTL

\* After the report only mines are left to press, and a mine reports nothing.
LEMMA ReportsStay ==
  ASSUME Inv, NEW c \in Cells, Open(c), reports > 0 PROVE reports' = reports
<1> DEFINE o == [revealed |-> revealed, hit |-> FALSE, reports |-> reports]
<1>1. c \notin revealed /\ c \notin flagged /\ reports' = Reveal[<<c, o>>].reports
  BY DEF Open, Pressed, Sensitive
<1>2. o \in Openings /\ o.revealed = revealed /\ o.reports = reports
  BY DEF Inv, TypeOK, Openings
<1>3. c \in mines
  <2>1. mines # {}
    BY DEF Inv, FieldPlaced
  <2> QED
    BY <1>1, <2>1 DEF Inv, ClearedIsReported
<1>4. Opened(c, o) \in Openings /\ Opened(c, o).reports = reports
  BY <1>1, <1>2, OpenedFewer
<1>5. Reveal[<<c, o>>] = [Opened(c, o) EXCEPT !.hit = TRUE]
  <2>1. Reveal[<<c, o>>] = Result(Reveal, c, o)
    BY <1>2, RevealIs
  <2> QED
    BY <1>1, <1>2, <1>3, <2>1 DEF Result
<1> HIDE DEF o
<1> QED
  BY <1>1, <1>4, <1>5 DEF Openings

\* The reports of one win, which every call of reveal_cell on the stack may send
\* (mine.c:152), have one time: none is sent after the press that clears the
\* field, whatever is pressed until the next game, and the clock stands.
THEOREM OneTimeReported == Spec => ReportsAgree
<1>1. Inv /\ [Next]_vars =>
        [reports > 0 => reports' = 0
           \/ (reports' = reports /\ elapsed_time' = elapsed_time)]_vars
  <2> SUFFICES ASSUME Inv, Next, reports > 0
               PROVE  reports' = 0 \/ (reports' = reports /\ elapsed_time' = elapsed_time)
    OBVIOUS
  <2>1. CASE Start
    BY <2>1 DEF Start
  <2>2. CASE Back
    BY <2>2 DEF Back, field, timer
  <2>3. ~Tick
    BY DEF Inv, OneTimer, Tick
  <2>4. ASSUME NEW c \in Cells, Open(c)
        PROVE  reports' = reports /\ elapsed_time' = elapsed_time
    BY <2>4, ReportsStay DEF Open
  <2>5. ASSUME NEW c \in Cells, Flag(c) \/ Unflag(c)
        PROVE  reports' = reports /\ elapsed_time' = elapsed_time
    BY <2>5 DEF Flag, Unflag, timer
  <2> QED
    BY <2>1, <2>2, <2>3, <2>4, <2>5 DEF Next
<1> QED
  BY <1>1, Invariance, PTL DEF Spec, ReportsAgree

-----------------------------------------------------------------------------
(* What one press opens.                                                       *)

\* No flagged cell counts as left behind.
Shown(o) == o.revealed \cup flagged

\* Cells without a number around which nothing is left closed.
Settled(S, o) == \A z \in S \ mines : Number(z) = 0 => Around[z] \subseteq Shown(o)

\* The loops leave none of the neighbours behind, except mines and flags.
LEMMA FloodReaches ==
  ASSUME NEW c \in Cells, NEW e \in Openings, NEW R, Opens(R, e),
         \A n \in Cells, p \in Above(e) : n \notin flagged => n \in R[<<n, p>>].revealed
  PROVE  \A n \in Around[c] : n \in Shown(Flood(R, c, e)) \cup mines
<1>1. PICK F : Turns(F, R, c, e) /\ Flood(R, c, e) = F[9]
  BY FloodTurns
<1> DEFINE Reached(k, j) ==
             Beside(c, Offsets[k]) \in Cells => Beside(c, Offsets[k]) \in Shown(F[j]) \cup mines
           S == {j \in Nat : j <= 9 => \A k \in 1 .. j : Reached(k, j)}
<1>2. 0 \in S
  OBVIOUS
<1>3. ASSUME NEW j \in S PROVE j + 1 \in S
  <2> SUFFICES ASSUME j + 1 <= 9, NEW k \in 1 .. j + 1 PROVE Reached(k, j + 1)
    OBVIOUS
  <2>1. /\ j + 1 \in 1 .. 9 /\ (j + 1) - 1 = j /\ j \in 0 .. 9
        /\ (k = j + 1 \/ k \in 1 .. j) /\ j <= 9
    OBVIOUS
  <2>2. F[j + 1] = Turn(R, c, F[j], Offsets[j + 1]) /\ F[j] \in Above(e)
    BY <1>1, <2>1 DEF Turns
  <2>3. F[j + 1] \in Above(F[j])
    BY <2>2, TurnAbove
  <2>4. Shown(F[j]) \subseteq Shown(F[j + 1])
    BY <2>3 DEF Above, Shown
  <2>5. CASE k \in 1 .. j
    <3>1. Reached(k, j)
      BY <2>1, <2>5
    <3> QED
      BY <2>4, <3>1
  <2>6. CASE k = j + 1
    <3> DEFINE n == Beside(c, Offsets[k])
    <3>1. F[j + 1] = IF Floods(n, F[j]) THEN R[<<n, F[j]>>] ELSE F[j]
      BY <2>2, <2>6 DEF Turn
    <3> HIDE DEF n
    <3>2. n \in Cells /\ Floods(n, F[j]) => n \in F[j + 1].revealed
      BY <2>2, <3>1 DEF Floods
    <3>3. n \in Cells /\ ~Floods(n, F[j]) => n \in Shown(F[j]) \cup mines
      BY DEF Floods, Shown
    <3>4. n \in Cells => n \in Shown(F[j + 1]) \cup mines
      BY <2>4, <3>2, <3>3 DEF Shown
    <3> QED
      BY <3>4 DEF n
  <2> QED
    BY <2>1, <2>5, <2>6
<1> HIDE DEF S
<1>4. S \subseteq Nat
  BY DEF S
<1>5. S = Nat
  BY <1>2, <1>3, <1>4, SetInduction
<1>6. \A k \in Nine : Reached(k, 9)
  BY <1>5 DEF S, Nine
<1> SUFFICES ASSUME NEW n \in Around[c] PROVE n \in Shown(F[9]) \cup mines
  BY <1>1
<1>7. PICK k \in Nine : n = Beside(c, Offsets[k])
  BY BesideAround
<1>8. n \in Cells
  BY DEF Around
<1> QED
  BY <1>6, <1>7, <1>8

LEMMA ZeroAround ==
  ASSUME NEW z \in Cells, Number(z) = 0 PROVE Around[z] \cap mines = {}
<1>1. Around[z] \cap mines \in SUBSET Cells
  BY DEF Around
<1>2. IsFiniteSet(Around[z] \cap mines)
  BY <1>1, CellsFinite
<1> QED
  BY <1>2, FS_EmptySet DEF Number

LEMMA RevealsOwn ==
  ASSUME NEW c \in Cells, NEW o \in Openings, c \notin flagged
  PROVE  c \in Reveal[<<c, o>>].revealed
<1>1. CASE c \in o.revealed
  BY <1>1, RevealIs DEF Result
<1>2. CASE c \notin o.revealed
  <2> DEFINE e == Opened(c, o)
  <2>1. e \in Openings /\ c \in e.revealed /\ Opens(Reveal, e) /\ e \in Above(e)
    BY <1>2, OpenedFewer, RevealOpens DEF Above
  <2>2. Flood(Reveal, c, e) \in Above(e)
    BY <2>1, FloodAbove
  <2>3. Reveal[<<c, o>>] = Result(Reveal, c, o)
    BY RevealIs
  <2>4. [e EXCEPT !.hit = TRUE].revealed = e.revealed
    BY <2>1 DEF Openings
  <2>5. \A p \in Above(e) : c \in CheckWin(p).revealed
    BY <2>1, CheckWinAbove DEF Above
  <2> HIDE DEF e
  <2>6. Reveal[<<c, o>>] \in {[e EXCEPT !.hit = TRUE], CheckWin(e), CheckWin(Flood(Reveal, c, e))}
    BY <1>2, <2>3 DEF Result, e
  <2> QED
    BY <2>1, <2>2, <2>4, <2>5, <2>6
<1> QED
  BY <1>1, <1>2

\* Nothing is left closed around the cells without a number that a call opens.
LEMMA RevealSettles ==
  \A c \in Cells, o \in Openings :
    Settled(Reveal[<<c, o>>].revealed \ o.revealed, Reveal[<<c, o>>])
<1> DEFINE P == {a \in Cells \X Openings : Settled(Reveal[a].revealed \ a[2].revealed, Reveal[a])}
<1>1. ASSUME NEW c \in Cells, NEW o \in Openings,
             \A n \in Cells, p \in Openings : Left(p) < Left(o) => <<n, p>> \in P
      PROVE  <<c, o>> \in P
  <2> DEFINE e == Opened(c, o)
             r == Reveal[<<c, o>>]
  <2> SUFFICES Settled(r.revealed \ o.revealed, r)
    OBVIOUS
  <2>1. r = Result(Reveal, c, o)
    BY RevealIs
  <2>2. CASE c \in o.revealed \/ c \in flagged
    BY <2>1, <2>2 DEF Result, Settled
  <2>3. CASE ~(c \in o.revealed \/ c \in flagged)
    <3>1. e \in Openings /\ e.revealed = o.revealed \cup {c} /\ e \in Above(e)
      BY <2>3, OpenedFewer DEF Above
    <3>2. \A p \in Above(e) : p \in Openings /\ Left(p) < Left(o)
      BY <2>3, OpenedFewer DEF Above
    <3>3. [e EXCEPT !.hit = TRUE].revealed = e.revealed /\ CheckWin(e).revealed = e.revealed
      BY <3>1, CheckWinAbove DEF Openings
    <3> HIDE DEF e, r
    <3>4. CASE c \in mines \/ Number(c) # 0
      <4>1. Number(c) \in Nat
        <5>1. Around[c] \cap mines \in SUBSET Cells
          BY DEF Around
        <5> QED
          BY <5>1, CellsFinite, FS_CardinalityType DEF Number
      <4>2. r.revealed = o.revealed \cup {c}
        BY <2>1, <2>3, <3>1, <3>3, <3>4, <4>1 DEF Result, e
      <4> QED
        BY <3>4, <4>2 DEF Settled
    <3>5. CASE c \notin mines /\ Number(c) = 0
      <4> DEFINE Q == {p \in Above(e) : Settled(p.revealed \ e.revealed, p)}
                 f == Flood(Reveal, c, e)
      <4>1. e \in Q /\ Opens(Reveal, e)
        BY <3>1, RevealOpens DEF Above, Settled
      <4>2. ASSUME NEW n \in Around[c], NEW p \in Above(e), p \in Q PROVE Reveal[<<n, p>>] \in Q
        <5> DEFINE q == Reveal[<<n, p>>]
        <5>1. p \in Openings /\ n \in Cells
          BY DEF Above, Around
        <5>2. <<n, p>> \in P
          BY <1>1, <3>2, <5>1
        <5>3. q \in Above(p) /\ q \in Above(e)
          BY <5>1, RevealAbove, AboveAbove
        <5>4. Settled(q.revealed \ p.revealed, q) /\ Settled(p.revealed \ e.revealed, p)
          BY <4>2, <5>2
        <5> HIDE DEF q
        <5>5. Shown(p) \subseteq Shown(q)
          BY <5>3 DEF Above, Shown
        <5>6. Settled(q.revealed \ e.revealed, q)
          BY <5>4, <5>5 DEF Settled
        <5> QED
          BY <5>3, <5>6 DEF q
      <4> HIDE DEF Q
      <4>3. f \in Q
        BY <3>1, <4>1, <4>2, FloodKeeps
      <4>4. r = CheckWin(f)
        BY <2>1, <2>3, <3>5 DEF Result, e
      <4>5. \A n \in Around[c] : n \in Shown(f) \cup mines
        <5>1. \A n \in Cells, p \in Above(e) : n \notin flagged => n \in Reveal[<<n, p>>].revealed
          BY <3>2, RevealsOwn
        <5> QED
          BY <3>1, <4>1, <5>1, FloodReaches
      <4>6. Around[c] \subseteq Shown(f)
        BY <3>5, <4>5, ZeroAround
      <4> HIDE DEF f
      <4>7. f \in Above(e) /\ Settled(f.revealed \ e.revealed, f)
        BY <4>3 DEF Q
      <4>8. Settled(f.revealed \ o.revealed, f)
        BY <3>1, <4>6, <4>7 DEF Settled
      <4>9. r.revealed = f.revealed /\ Shown(r) = Shown(f)
        BY <3>2, <4>4, <4>7, CheckWinAbove DEF Shown
      <4> QED
        BY <4>8, <4>9 DEF Settled
    <3> QED
      BY <3>4, <3>5
  <2> QED
    BY <2>2, <2>3
<1> HIDE DEF P
<1>2. \A c \in Cells, o \in Openings : <<c, o>> \in P
  BY <1>1, FewerFirst
<1> QED
  BY <1>2 DEF P

\* A set that the flood cannot leave.
Closed(C, o) == \A z \in C \ mines : Number(z) = 0 => Around[z] \subseteq C \cup Shown(o)

\* A call opens no cell outside such a set, when it is made inside.
LEMMA RevealStays ==
  \A c \in Cells, o \in Openings : \A C \in SUBSET Cells :
    c \in C /\ Closed(C, o) => Reveal[<<c, o>>].revealed \subseteq o.revealed \cup C
<1> DEFINE P == {a \in Cells \X Openings : \A C \in SUBSET Cells :
                   a[1] \in C /\ Closed(C, a[2]) => Reveal[a].revealed \subseteq a[2].revealed \cup C}
<1>1. ASSUME NEW c \in Cells, NEW o \in Openings,
             \A n \in Cells, p \in Openings : Left(p) < Left(o) => <<n, p>> \in P
      PROVE  <<c, o>> \in P
  <2> DEFINE e == Opened(c, o)
             r == Reveal[<<c, o>>]
  <2> SUFFICES ASSUME NEW C \in SUBSET Cells, c \in C, Closed(C, o)
               PROVE  r.revealed \subseteq o.revealed \cup C
    OBVIOUS
  <2>1. r = Result(Reveal, c, o)
    BY RevealIs
  <2>2. CASE c \in o.revealed \/ c \in flagged
    BY <2>1, <2>2 DEF Result
  <2>3. CASE ~(c \in o.revealed \/ c \in flagged)
    <3>1. e \in Openings /\ e.revealed = o.revealed \cup {c} /\ e \in Above(e)
      BY <2>3, OpenedFewer DEF Above
    <3>2. \A p \in Above(e) : p \in Openings /\ Left(p) < Left(o) /\ p \in Above(o)
      BY <2>3, OpenedFewer DEF Above
    <3>3. [e EXCEPT !.hit = TRUE].revealed = e.revealed /\ CheckWin(e).revealed = e.revealed
      BY <3>1, CheckWinAbove DEF Openings
    <3> HIDE DEF e, r
    <3>4. CASE c \in mines \/ Number(c) # 0
      <4>1. Number(c) \in Nat
        <5>1. Around[c] \cap mines \in SUBSET Cells
          BY DEF Around
        <5> QED
          BY <5>1, CellsFinite, FS_CardinalityType DEF Number
      <4>2. r.revealed = o.revealed \cup {c}
        BY <2>1, <2>3, <3>1, <3>3, <3>4, <4>1 DEF Result, e
      <4> QED
        BY <4>2
    <3>5. CASE c \notin mines /\ Number(c) = 0
      <4> DEFINE Q == {p \in Above(e) : p.revealed \subseteq o.revealed \cup C}
                 f == Flood(Reveal, c, e)
      <4>1. e \in Q /\ Opens(Reveal, e)
        BY <3>1, RevealOpens
      <4>2. ASSUME NEW n \in Around[c], NEW p \in Above(e), p \in Q, Floods(n, p)
            PROVE  Reveal[<<n, p>>] \in Q
        <5> DEFINE q == Reveal[<<n, p>>]
        <5>1. p \in Openings /\ n \in Cells
          BY DEF Above, Around
        <5>2. <<n, p>> \in P
          BY <1>1, <3>2, <5>1
        <5>3. q \in Above(p) /\ q \in Above(e)
          BY <5>1, RevealAbove, AboveAbove
        <5>4. Shown(o) \subseteq Shown(p)
          BY <3>2 DEF Above, Shown
        <5>5. n \in C
          BY <3>5, <4>2, <5>4 DEF Closed, Floods, Shown
        <5>6. Closed(C, p)
          BY <5>4 DEF Closed
        <5>7. q.revealed \subseteq p.revealed \cup C
          BY <5>2, <5>5, <5>6
        <5> HIDE DEF q
        <5> QED
          BY <4>2, <5>3, <5>7 DEF q
      <4> HIDE DEF Q
      <4>3. f \in Q
        BY <3>1, <4>1, <4>2, FloodKeeps
      <4>4. r = CheckWin(f)
        BY <2>1, <2>3, <3>5 DEF Result, e
      <4> HIDE DEF f
      <4>5. f \in Above(e) /\ f.revealed \subseteq o.revealed \cup C
        BY <4>3 DEF Q
      <4> QED
        BY <3>2, <4>4, <4>5, CheckWinAbove
    <3> QED
      BY <3>4, <3>5
  <2> QED
    BY <2>2, <2>3
<1> HIDE DEF P
<1>2. \A c \in Cells, o \in Openings : <<c, o>> \in P
  BY <1>1, FewerFirst
<1> QED
  BY <1>2 DEF P

-----------------------------------------------------------------------------
(* The reference for the flood.                                                *)

Widened(S) ==
  S \cup ((UNION {Around[d] : d \in {z \in S \ mines : Number(z) = 0}}) \ (revealed \cup flagged))
IsCourse(A, c) == A = [n \in Nat |-> IF n = 0 THEN {c} ELSE Widened(A[n - 1])]

LEMMA WidenedCells ==
  ASSUME NEW S \in SUBSET Cells PROVE Widened(S) \in SUBSET Cells /\ S \subseteq Widened(S)
BY DEF Widened, Around

\* The reference takes as many steps as there are cells, by when it has come
\* to an end.
LEMMA FloodedIs ==
  ASSUME NEW c \in Cells
  PROVE  \E A : /\ A \in [Nat -> SUBSET Cells] /\ A[0] = {c}
                /\ \A n \in Nat : A[n + 1] = Widened(A[n])
                /\ Flooded(c) = A[Cardinality(Cells)]
                /\ Widened(Flooded(c)) = Flooded(c)
<1> DEFINE X == SUBSET Cells
           h == [p \in Nat \X X |-> Widened(p[2])]
           A == CHOOSE B : IsCourse(B, c)
           N == Cardinality(Cells)
<1>1. \E B : IsCourse(B, c)
  <2>1. {c} \in X /\ h \in [Nat \X X -> X]
    BY WidenedCells
  <2> HIDE DEF X, h
  <2>2. PICK G : Recurs(G, X, {c}, h)
    BY <2>1, NatRecursion
  <2>3. G \in [Nat -> X] /\ G[0] = {c} /\ \A n \in Nat : G[n + 1] = Widened(G[n])
    BY <2>2 DEF Recurs, h
  <2>4. \A n \in Nat : n # 0 => n - 1 \in Nat /\ (n - 1) + 1 = n
    OBVIOUS
  <2>5. \A n \in Nat : G[n] = IF n = 0 THEN {c} ELSE Widened(G[n - 1])
    BY <2>3, <2>4
  <2>6. G = [n \in Nat |-> IF n = 0 THEN {c} ELSE Widened(G[n - 1])]
    BY <2>3, <2>5
  <2> QED
    BY <2>6 DEF IsCourse
<1>2. Flooded(c) = A[N]
  BY DEF Flooded, IsCourse, Widened
<1>3. IsCourse(A, c)
  BY <1>1
<1> HIDE DEF A
<1>4. A[0] = {c} /\ \A n \in Nat : A[n + 1] = Widened(A[n])
  BY <1>3 DEF IsCourse
<1>5. N \in Nat
  BY CellsFinite, FS_CardinalityType
<1> HIDE DEF N
<1> DEFINE S == {n \in Nat : /\ A[n] \in SUBSET Cells
                             /\ Cardinality(A[n]) > n \/ Widened(A[n]) = A[n]}
<1>6. 0 \in S
  <2>1. Cardinality({c}) = 1
    BY FS_Singleton
  <2> QED
    BY <1>4, <2>1
<1>7. ASSUME NEW n \in S PROVE n + 1 \in S
  <2>1. /\ A[n + 1] = Widened(A[n]) /\ A[n + 1] \in SUBSET Cells /\ A[n] \in SUBSET Cells
        /\ A[n] \subseteq A[n + 1]
    BY <1>4, WidenedCells
  <2>2. CASE Widened(A[n]) = A[n]
    BY <2>1, <2>2
  <2>3. CASE Widened(A[n]) # A[n]
    <3>1. Cardinality(A[n]) > n
      BY <2>3
    <3>2. PICK z \in A[n + 1] : z \notin A[n]
      BY <2>1, <2>3
    <3>3. /\ IsFiniteSet(A[n + 1]) /\ IsFiniteSet(A[n + 1] \ {z})
          /\ A[n] \subseteq A[n + 1] \ {z}
      BY <2>1, <3>2, CellsFinite, FS_Subset
    <3>4. /\ Cardinality(A[n + 1] \ {z}) = Cardinality(A[n + 1]) - 1
          /\ Cardinality(A[n]) <= Cardinality(A[n + 1] \ {z})
      BY <3>2, <3>3, FS_RemoveElement, FS_Subset
    <3>5. Cardinality(A[n]) \in Nat /\ Cardinality(A[n + 1]) \in Nat
      BY <2>1, CellsFinite, FS_CardinalityType
    <3>6. Cardinality(A[n + 1]) > n + 1
      BY <3>1, <3>4, <3>5
    <3> QED
      BY <2>1, <3>6
  <2> QED
    BY <2>2, <2>3
<1> HIDE DEF S
<1>8. S \subseteq Nat
  BY DEF S
<1>9. S = Nat
  BY <1>6, <1>7, <1>8, SetInduction
<1>10. A[N] \in SUBSET Cells /\ (Cardinality(A[N]) > N \/ Widened(A[N]) = A[N])
  BY <1>5, <1>9 DEF S
<1>11. Cardinality(A[N]) <= N /\ Cardinality(A[N]) \in Nat
  BY <1>10, CellsFinite, FS_Subset, FS_CardinalityType DEF N
<1>12. Widened(A[N]) = A[N]
  BY <1>5, <1>10, <1>11
<1>13. A \in [Nat -> SUBSET Cells]
  BY <1>3, <1>9 DEF IsCourse, S
<1> QED
  BY <1>2, <1>4, <1>12, <1>13 DEF N

LEMMA PressFloods ==
  ASSUME TypeOK, NEW c \in Cells, Open(c) PROVE revealed' = revealed \cup Flooded(c)
<1> DEFINE o == [revealed |-> revealed, hit |-> FALSE, reports |-> reports]
           r == Reveal[<<c, o>>]
<1>1. revealed' = r.revealed /\ c \notin flagged /\ c \notin revealed
  BY DEF Open, Pressed, Sensitive
<1>2. o \in Openings /\ o.revealed = revealed /\ Shown(o) = revealed \cup flagged
  BY DEF TypeOK, Openings, Shown
<1> HIDE DEF o
<1>3. /\ r \in Above(o) /\ Settled(r.revealed \ revealed, r)
      /\ \A C \in SUBSET Cells : c \in C /\ Closed(C, o) => r.revealed \subseteq revealed \cup C
  BY <1>2, RevealAbove, RevealSettles, RevealStays
<1>4. c \in r.revealed
  BY <1>1, <1>2, RevealsOwn
<1> HIDE DEF r
<1>5. PICK A : /\ A \in [Nat -> SUBSET Cells] /\ A[0] = {c}
               /\ \A n \in Nat : A[n + 1] = Widened(A[n])
               /\ Flooded(c) = A[Cardinality(Cells)]
               /\ Widened(Flooded(c)) = Flooded(c)
  BY FloodedIs
<1>6. Cardinality(Cells) \in Nat
  BY CellsFinite, FS_CardinalityType
\* Nothing short of the reference.
<1>7. Flooded(c) \subseteq r.revealed
  <2> DEFINE D == r.revealed \ revealed
             S == {n \in Nat : A[n] \subseteq D}
  <2>1. 0 \in S
    BY <1>1, <1>4, <1>5
  <2>2. ASSUME NEW n \in S PROVE n + 1 \in S
    <3>1. A[n + 1] = Widened(A[n]) /\ A[n] \subseteq D
      BY <1>5
    <3>2. \A z \in A[n] \ mines : Number(z) = 0 => Around[z] \subseteq r.revealed \cup flagged
      BY <1>3, <3>1 DEF Settled, Shown
    <3> SUFFICES ASSUME NEW w \in Widened(A[n]), w \notin A[n] PROVE w \in D
      BY <3>1
    <3>3. PICK z \in A[n] \ mines : Number(z) = 0 /\ w \in Around[z]
      BY DEF Widened
    <3>4. w \notin revealed /\ w \notin flagged
      BY DEF Widened
    <3> QED
      BY <3>2, <3>3, <3>4
  <2> HIDE DEF S
  <2>3. S \subseteq Nat
    BY DEF S
  <2>4. S = Nat
    BY <2>1, <2>2, <2>3, SetInduction
  <2> QED
    BY <1>5, <1>6, <2>4 DEF S
\* And nothing beyond it.
<1>8. r.revealed \subseteq revealed \cup Flooded(c)
  <2>1. Flooded(c) \in SUBSET Cells
    BY <1>5, <1>6
  <2>2. c \in Flooded(c)
    <3> DEFINE S == {n \in Nat : c \in A[n]}
    <3>1. 0 \in S
      BY <1>5
    <3>2. \A n \in S : n + 1 \in S
      BY <1>5, WidenedCells
    <3> HIDE DEF S
    <3>3. S \subseteq Nat
      BY DEF S
    <3>4. S = Nat
      BY <3>1, <3>2, <3>3, SetInduction
    <3> QED
      BY <1>5, <1>6, <3>4 DEF S
  <2> DEFINE C == Flooded(c)
  <2>3. Widened(C) = C
    BY <1>5
  <2> HIDE DEF C
  <2>4. Closed(C, o)
    <3> SUFFICES ASSUME NEW z \in C \ mines, Number(z) = 0, NEW w \in Around[z]
                 PROVE  w \in C \cup revealed \cup flagged
      BY <1>2 DEF Closed
    <3>1. z \in {y \in C \ mines : Number(y) = 0}
      OBVIOUS
    <3>2. w \in UNION {Around[d] : d \in {y \in C \ mines : Number(y) = 0}}
      BY <3>1
    <3>3. w \notin revealed \cup flagged => w \in Widened(C)
      BY <3>2 DEF Widened
    <3> QED
      BY <2>3, <3>3
  <2> QED
    BY <1>3, <2>1, <2>2, <2>4 DEF C
<1>9. revealed \subseteq r.revealed
  BY <1>2, <1>3 DEF Above
<1> QED
  BY <1>1, <1>7, <1>8, <1>9

\* A press opens the pressed cell and what is reached from it through cells
\* without a number, whatever order the recursion of reveal_cell and
\* reveal_neighbors visits them in: no flagged cell, nothing beyond the
\* numbers and nothing short of them.
THEOREM FloodOpensItsRegion == Spec => PressOpensTheFlood
<1>1. Inv /\ [Next]_vars => [\A c \in revealed' \ revealed : Open(c) => revealed' = revealed \cup Flooded(c)]_vars
  <2> SUFFICES ASSUME Inv, [Next]_vars, NEW c \in revealed' \ revealed, Open(c)
               PROVE  revealed' = revealed \cup Flooded(c)
    OBVIOUS
  <2>1. TypeOK /\ c \in Cells
    BY NextInv DEF Inv, TypeOK
  <2> QED
    BY <2>1, PressFloods
<1> QED
  BY <1>1, Invariance, PTL DEF Spec, PressOpensTheFlood
=============================================================================
