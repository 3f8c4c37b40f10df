--------------------------- MODULE Game2048Proofs ---------------------------
(***************************************************************************)
(* Proofs about Game2048, for every size of the board, every number of     *)
(* swaps and removals, and handlers interrupted to every depth.  The       *)
(* folds and the recursive function of the model are shown to have a value *)
(* (a CHOOSE that some function satisfies) before anything is said of it.  *)
(***************************************************************************)
EXTENDS Game2048, SequenceTheorems, NatFacts

\* No tile has the value 1: doubling one would earn 2, a new 2 nothing.
Tile == Nat \ {1}

-----------------------------------------------------------------------------
(* What the merges that made a tile earned.                                    *)

WorthStep(W) == [v \in Nat |-> IF v <= 2 THEN 0 ELSE v + 2 * W[v \div 2]]

LEMMA WorthExists == \E W : W = WorthStep(W)
<1> DEFINE X == [Nat -> Nat]
           e == [v \in Nat |-> 0]
           h == [p \in Nat \X X |-> WorthStep(p[2])]
<1>1. \A W \in X : WorthStep(W) \in X
  BY DEF WorthStep
<1>2. e \in X /\ h \in [Nat \X X -> X]
  BY <1>1
<1> HIDE DEF X, e, h
<1>3. PICK G : Recurs(G, X, e, h)
  BY <1>2, NatRecursion
<1>4. /\ \A n \in Nat : G[n] \in X /\ G[n + 1] = WorthStep(G[n])
      /\ \A v \in Nat : G[0][v] = 0
  BY <1>3 DEF Recurs, e, h
<1>5. \A n \in Nat, v \in Nat :
        G[n + 1][v] = IF v <= 2 THEN 0 ELSE v + 2 * G[n][v \div 2]
  BY <1>4 DEF WorthStep
<1>6. \A n \in Nat, v \in Nat : v <= 2 => G[n][v] = 0
  <2> SUFFICES ASSUME NEW n \in Nat, NEW v \in Nat, v <= 2 PROVE G[n][v] = 0
    OBVIOUS
  <2>1. CASE n = 0
    BY <1>4, <2>1
  <2>2. CASE n # 0
    <3>1. n - 1 \in Nat /\ (n - 1) + 1 = n
      BY <2>2
    <3> QED
      BY <1>5, <3>1
  <2> QED
    BY <2>1, <2>2
<1> DEFINE S == {b \in Nat : \A v \in 0 .. b, m \in Nat : m >= v => G[m][v] = G[v][v]}
<1>7. 0 \in S
  BY <1>6
<1>8. ASSUME NEW b \in S PROVE b + 1 \in S
  <2> SUFFICES ASSUME NEW m \in Nat, m >= b + 1 PROVE G[m][b + 1] = G[b + 1][b + 1]
    OBVIOUS
  <2>1. CASE b + 1 <= 2
    BY <1>6, <2>1
  <2>2. CASE b + 1 > 2
    <3> DEFINE u == (b + 1) \div 2
    <3>1. u \in 0 .. b /\ b \in Nat /\ m - 1 \in Nat /\ (m - 1) + 1 = m /\ m - 1 >= u
      BY <2>2
    <3>2. G[m - 1][u] = G[u][u] /\ G[b][u] = G[u][u]
      BY <3>1
    <3>3. G[(m - 1) + 1][b + 1] = (b + 1) + 2 * G[m - 1][u]
      BY <1>5, <2>2, <3>1
    <3>4. G[b + 1][b + 1] = (b + 1) + 2 * G[b][u]
      BY <1>5, <2>2, <3>1
    <3> QED
      BY <3>1, <3>2, <3>3, <3>4
  <2> QED
    BY <2>1, <2>2
<1> HIDE DEF S
<1>9. S \subseteq Nat
  BY DEF S
<1>10. S = Nat
  BY <1>7, <1>8, <1>9, SetInduction
<1>11. \A v \in Nat, m \in Nat : m >= v => G[m][v] = G[v][v]
  BY <1>10 DEF S
<1> DEFINE F == [v \in Nat |-> G[v][v]]
<1>12. ASSUME NEW v \in Nat PROVE F[v] = IF v <= 2 THEN 0 ELSE v + 2 * F[v \div 2]
  <2>1. CASE v <= 2
    BY <1>6, <2>1
  <2>2. CASE v > 2
    <3> DEFINE u == v \div 2
    <3>1. u \in Nat /\ v - 1 \in Nat /\ v - 1 >= u /\ (v - 1) + 1 = v
      BY <2>2
    <3>2. G[(v - 1) + 1][v] = v + 2 * G[v - 1][u]
      BY <1>5, <2>2, <3>1
    <3>3. G[v - 1][u] = G[u][u]
      BY <1>11, <3>1
    <3> QED
      BY <2>2, <3>1, <3>2, <3>3
  <2> QED
    BY <2>1, <2>2
<1>13. F = WorthStep(F)
  BY <1>12 DEF WorthStep
<1> QED
  BY <1>13

LEMMA WorthValue ==
  /\ \A v \in Nat : Worth[v] = IF v <= 2 THEN 0 ELSE v + 2 * Worth[v \div 2]
  /\ \A v \in Nat : Worth[v] \in Nat
<1>1. Worth = CHOOSE W : W = WorthStep(W)
  BY DEF Worth, WorthStep
<1>2. Worth = WorthStep(Worth)
  BY <1>1, WorthExists
<1>3. \A v \in Nat : Worth[v] = IF v <= 2 THEN 0 ELSE v + 2 * Worth[v \div 2]
  BY <1>2 DEF WorthStep
<1> DEFINE S == {b \in Nat : \A v \in 0 .. b : Worth[v] \in Nat}
<1>4. 0 \in S
  BY <1>3
<1>5. ASSUME NEW b \in S PROVE b + 1 \in S
  <2>1. (b + 1) \div 2 \in 0 .. b \/ b + 1 <= 2
    OBVIOUS
  <2>2. Worth[b + 1] \in Nat
    BY <1>3, <2>1
  <2> QED
    BY <2>2
<1> HIDE DEF S
<1>6. S \subseteq Nat
  BY DEF S
<1>7. S = Nat
  BY <1>4, <1>5, <1>6, SetInduction
<1>8. \A v \in Nat : Worth[v] \in Nat
  BY <1>7 DEF S
<1> QED
  BY <1>3, <1>8

\* Two equal tiles become one of twice the value, which is what is earned.
LEMMA MergeWorth ==
  ASSUME NEW v \in Tile, v # 0 PROVE Worth[2 * v] = 2 * v + 2 * Worth[v] /\ 2 * v \in Tile
<1>1. 2 * v \in Nat /\ ~(2 * v <= 2) /\ (2 * v) \div 2 = v
  BY DEF Tile
<1> QED
  BY <1>1, WorthValue DEF Tile

LEMMA SmallWorth == Worth[0] = 0
BY WorthValue


-----------------------------------------------------------------------------
(* What the tiles of a board are worth together.                               *)

Boards == [Cells -> Tile]

LEMMA CellsFinite ==
  IsFiniteSet(Cells) /\ Cardinality(Cells) = grid_size * grid_size
<1>1. 0 \in Int /\ grid_size - 1 \in Int /\ grid_size > 0
  BY Game2048Assumption
<1> DEFINE side == 0 .. grid_size - 1
<1>2. IsFiniteSet(side) /\ Cardinality(side) = IF 0 > grid_size - 1 THEN 0 ELSE (grid_size - 1) - 0 + 1
  BY <1>1, FS_Interval, Zenon
<1>3. Cardinality(side) = grid_size
  BY <1>2, Game2048Assumption
<1> HIDE DEF side
<1>4. IsFiniteSet(side \X side) /\ Cardinality(side \X side) = grid_size * grid_size
  BY <1>2, <1>3, FS_Product
<1> QED
  BY <1>4 DEF side, Cells, Board

\* What a tile counts for.
Weights(W) == \A v \in Nat : W[v] \in Nat

Pick(s) == CHOOSE c \in s : TRUE
IsSum(F, g, W) ==
  F = [s \in SUBSET DOMAIN g |-> IF s = {} THEN 0 ELSE F[s \ {Pick(s)}] + W[g[Pick(s)]]]
\* The sum over a part of the board.
Part(g, W) == CHOOSE F : IsSum(F, g, W)

LEMMA SumExists ==
  ASSUME NEW W, Weights(W), NEW g \in Boards PROVE \E F : IsSum(F, g, W)
<1> DEFINE ch == [s \in SUBSET Cells |-> Pick(s)]
           h == [p \in Cells \X Nat |-> p[2] + W[g[p[1]]]]
<1>1. \A s \in SUBSET Cells : s # {} => ch[s] \in s
  BY DEF Pick
<1>2. h \in [Cells \X Nat -> Nat] /\ 0 \in Nat
  BY DEF Weights, Boards, Tile
<1> HIDE DEF ch, h
<1>3. PICK F : Folds(F, Cells, ch, Nat, 0, h)
  BY <1>1, <1>2, CellsFinite, FoldExists
<1>4. ASSUME NEW s \in SUBSET Cells, s # {}
      PROVE  F[s] = F[s \ {Pick(s)}] + W[g[Pick(s)]]
  <2>1. ch[s] = Pick(s) /\ Pick(s) \in Cells /\ s \ {Pick(s)} \in SUBSET Cells
    BY <1>4 DEF ch, Pick
  <2>2. F[s] = h[<<Pick(s), F[s \ {Pick(s)}]>>] /\ F[s \ {Pick(s)}] \in Nat
    BY <1>3, <1>4, <2>1 DEF Folds
  <2> QED
    BY <2>1, <2>2 DEF h
<1>5. F[{}] = 0 /\ F \in [SUBSET Cells -> Nat] /\ DOMAIN g = Cells
  BY <1>3 DEF Folds, Boards
<1>6. IsSum(F, g, W)
  BY <1>4, <1>5 DEF IsSum
<1> QED
  BY <1>6

LEMMA PartStep ==
  ASSUME NEW W, Weights(W), NEW g \in Boards
  PROVE  /\ Part(g, W)[{}] = 0
         /\ \A s \in SUBSET Cells :
              s # {} => Part(g, W)[s] = Part(g, W)[s \ {Pick(s)}] + W[g[Pick(s)]]
         /\ \A s \in SUBSET Cells : Part(g, W)[s] \in Nat
<1>1. IsSum(Part(g, W), g, W) /\ DOMAIN g = Cells
  BY SumExists DEF Part, Boards
<1>2. /\ Part(g, W)[{}] = 0
      /\ \A s \in SUBSET Cells :
           s # {} => Part(g, W)[s] = Part(g, W)[s \ {Pick(s)}] + W[g[Pick(s)]]
  <2> DEFINE F == Part(g, W)
  <2>1. F = [s \in SUBSET Cells |-> IF s = {} THEN 0 ELSE F[s \ {Pick(s)}] + W[g[Pick(s)]]]
    BY <1>1 DEF IsSum
  <2> HIDE DEF F
  <2>2. F[{}] = 0 /\ \A s \in SUBSET Cells : s # {} => F[s] = F[s \ {Pick(s)}] + W[g[Pick(s)]]
    BY <2>1
  <2> QED
    BY <2>2 DEF F
<1> DEFINE P == {s \in SUBSET Cells : Part(g, W)[s] \in Nat}
<1>3. ASSUME NEW s \in SUBSET Cells, \A c \in s : s \ {c} \in P PROVE s \in P
  <2>1. CASE s = {}
    BY <1>2, <2>1
  <2>2. CASE s # {}
    <3>1. Pick(s) \in s
      BY <2>2 DEF Pick
    <3>2. Part(g, W)[s \ {Pick(s)}] \in Nat /\ W[g[Pick(s)]] \in Nat
      BY <1>3, <3>1 DEF Weights, Boards, Tile
    <3>3. Part(g, W)[s] = Part(g, W)[s \ {Pick(s)}] + W[g[Pick(s)]]
      BY <1>2, <2>2
    <3> QED
      BY <3>2, <3>3
  <2> QED
    BY <2>1, <2>2
<1> HIDE DEF P
<1>4. SUBSET Cells \subseteq P
  BY <1>3, CellsFinite, SubsetInduction
<1> QED
  BY <1>2, <1>4 DEF P

\* The tiles can be added in every order.
LEMMA PartRemove ==
  ASSUME NEW W, Weights(W), NEW g \in Boards, NEW t \in SUBSET Cells, NEW a \in t
  PROVE  Part(g, W)[t] = Part(g, W)[t \ {a}] + W[g[a]]
<1> DEFINE S(s) == Part(g, W)[s]
           w(c) == W[g[c]]
           P == {s \in SUBSET Cells : \A c \in s : S(s) = S(s \ {c}) + w(c)}
<1>1. /\ \A s \in SUBSET Cells : s # {} => S(s) = S(s \ {Pick(s)}) + w(Pick(s))
      /\ \A s \in SUBSET Cells : S(s) \in Nat
      /\ \A c \in Cells : w(c) \in Nat
  BY PartStep DEF Weights, Boards, Tile
<1> HIDE DEF S, w
<1>2. ASSUME NEW s \in SUBSET Cells, \A c \in s : s \ {c} \in P PROVE s \in P
  <2> SUFFICES ASSUME NEW c \in s PROVE S(s) = S(s \ {c}) + w(c)
    OBVIOUS
  <2> DEFINE y == Pick(s)
  <2>1. y \in s
    BY DEF Pick
  <2>2. S(s) = S(s \ {y}) + w(y)
    BY <1>1
  <2> HIDE DEF y
  <2>3. CASE c = y
    BY <2>2, <2>3
  <2>4. CASE c # y
    <3>1. c \in s \ {y} /\ y \in s \ {c}
      BY <2>1, <2>4
    <3>2. S(s \ {y}) = S((s \ {y}) \ {c}) + w(c)
      BY <1>2, <2>1, <3>1
    <3>3. S(s \ {c}) = S((s \ {c}) \ {y}) + w(y)
      BY <1>2, <3>1
    <3>4. (s \ {y}) \ {c} = (s \ {c}) \ {y} /\ (s \ {c}) \ {y} \in SUBSET Cells
      OBVIOUS
    <3>5. S((s \ {c}) \ {y}) \in Nat /\ w(c) \in Nat /\ w(y) \in Nat
      BY <1>1, <2>1, <3>4
    <3> QED
      BY <2>2, <3>2, <3>3, <3>4, <3>5
  <2> QED
    BY <2>3, <2>4
<1> HIDE DEF P
<1>3. SUBSET Cells \subseteq P
  BY <1>2, CellsFinite, SubsetInduction
<1>4. S(t) = S(t \ {a}) + w(a)
  BY <1>3 DEF P
<1> QED
  BY <1>4 DEF S, w

LEMMA PartSame ==
  ASSUME NEW W, Weights(W), NEW g \in Boards, NEW k \in Boards, NEW a \in Cells,
         \A c \in Cells : c # a => g[c] = k[c]
  PROVE  Part(g, W)[Cells \ {a}] = Part(k, W)[Cells \ {a}]
<1> DEFINE P == {s \in SUBSET Cells : a \notin s => Part(g, W)[s] = Part(k, W)[s]}
<1>1. ASSUME NEW s \in SUBSET Cells, \A c \in s : s \ {c} \in P PROVE s \in P
  <2> SUFFICES ASSUME a \notin s PROVE Part(g, W)[s] = Part(k, W)[s]
    OBVIOUS
  <2>1. CASE s = {}
    BY <2>1, PartStep
  <2>2. CASE s # {}
    <3>1. Pick(s) \in s
      BY <2>2 DEF Pick
    <3>2. Part(g, W)[s \ {Pick(s)}] = Part(k, W)[s \ {Pick(s)}]
      BY <1>1, <3>1
    <3>3. W[g[Pick(s)]] = W[k[Pick(s)]]
      BY <3>1
    <3>4. /\ Part(g, W)[s] = Part(g, W)[s \ {Pick(s)}] + W[g[Pick(s)]]
          /\ Part(k, W)[s] = Part(k, W)[s \ {Pick(s)}] + W[k[Pick(s)]]
      BY <2>2, PartStep
    <3> QED
      BY <3>2, <3>3, <3>4
  <2> QED
    BY <2>1, <2>2
<1> HIDE DEF P
<1>2. SUBSET Cells \subseteq P
  BY <1>1, CellsFinite, SubsetInduction
<1> QED
  BY <1>2 DEF P

LEMMA WorthOfPart ==
  ASSUME NEW g \in Boards PROVE WorthOf(g) = Part(g, Worth)[Cells] /\ WorthOf(g) \in Nat
<1>1. WorthOf(g) = Part(g, Worth)[DOMAIN g]
  BY DEF WorthOf, Total, FoldSet, MapThenFoldSet, Part, IsSum, Pick
<1>2. Weights(Worth)
  BY WorthValue DEF Weights
<1> QED
  BY <1>1, <1>2, PartStep DEF Boards

\* A tile put on a cell takes the place of what was there.
LEMMA PutTile ==
  ASSUME NEW W, Weights(W), NEW g \in Boards, NEW a \in Cells, NEW v \in Tile
  PROVE  /\ [g EXCEPT ![a] = v] \in Boards
         /\ Part([g EXCEPT ![a] = v], W)[Cells] = Part(g, W)[Cells] - W[g[a]] + W[v]
<1> DEFINE k == [g EXCEPT ![a] = v]
<1>1. k \in Boards /\ k[a] = v /\ \A c \in Cells : c # a => g[c] = k[c]
  BY DEF Boards
<1> HIDE DEF k
<1>2. /\ Part(g, W)[Cells] = Part(g, W)[Cells \ {a}] + W[g[a]]
      /\ Part(k, W)[Cells] = Part(k, W)[Cells \ {a}] + W[k[a]]
  BY <1>1, PartRemove
<1>3. Part(g, W)[Cells \ {a}] = Part(k, W)[Cells \ {a}]
  BY <1>1, PartSame
<1>4. W[g[a]] \in Nat /\ W[v] \in Nat /\ Part(g, W)[Cells \ {a}] \in Nat
  BY PartStep DEF Weights, Boards, Tile
<1>5. Part(k, W)[Cells] = Part(g, W)[Cells] - W[g[a]] + W[v]
  BY <1>1, <1>2, <1>3, <1>4
<1> QED
  BY <1>1, <1>5 DEF k

LEMMA PutWorth ==
  ASSUME NEW g \in Boards, NEW a \in Cells, NEW v \in Tile
  PROVE  /\ [g EXCEPT ![a] = v] \in Boards
         /\ WorthOf([g EXCEPT ![a] = v]) = WorthOf(g) - Worth[g[a]] + Worth[v]
<1>1. Weights(Worth)
  BY WorthValue DEF Weights
<1>2. /\ [g EXCEPT ![a] = v] \in Boards
      /\ Part([g EXCEPT ![a] = v], Worth)[Cells] = Part(g, Worth)[Cells] - Worth[g[a]] + Worth[v]
  BY <1>1, PutTile
<1> QED
  BY <1>2, WorthOfPart

-----------------------------------------------------------------------------
(* move_tiles.                                                                 *)

Moves == [grid : Boards, gain : Nat, moved : BOOLEAN]

Free(g, d, c, k) == \A l \in 1 .. k : Ahead(c, d, l) \in DOMAIN g /\ g[Ahead(c, d, l)] = 0
Far(g, d, c) == CHOOSE k \in 0 .. Cardinality(DOMAIN g) : Free(g, d, c, k) /\ ~Free(g, d, c, k + 1)

LEMMA AheadElsewhere ==
  ASSUME NEW c \in Cells, NEW d \in Directions, NEW k \in Nat \ {0}
  PROVE  Ahead(c, d, k) # c /\ Ahead(c, d, grid_size) \notin Cells
<1>1. c[1] \in 0 .. grid_size - 1 /\ c[2] \in 0 .. grid_size - 1 /\ c = <<c[1], c[2]>>
  BY DEF Cells, Board
<1>2. grid_size \in Nat \ {0}
  BY Game2048Assumption
<1>3. CASE d = <<0, -1>>
  <2>1. Ahead(c, d, k) = <<c[1], c[2] - k>> /\ Ahead(c, d, grid_size) = <<c[1], c[2] - grid_size>>
    BY <1>1, <1>2, <1>3 DEF Ahead
  <2> QED
    BY <1>1, <1>2, <2>1 DEF Cells, Board
<1>4. CASE d = <<0, 1>>
  <2>1. Ahead(c, d, k) = <<c[1], c[2] + k>> /\ Ahead(c, d, grid_size) = <<c[1], c[2] + grid_size>>
    BY <1>1, <1>2, <1>4 DEF Ahead
  <2> QED
    BY <1>1, <1>2, <2>1 DEF Cells, Board
<1>5. CASE d = <<-1, 0>>
  <2>1. Ahead(c, d, k) = <<c[1] - k, c[2]>> /\ Ahead(c, d, grid_size) = <<c[1] - grid_size, c[2]>>
    BY <1>1, <1>2, <1>5 DEF Ahead
  <2> QED
    BY <1>1, <1>2, <2>1 DEF Cells, Board
<1>6. CASE d = <<1, 0>>
  <2>1. Ahead(c, d, k) = <<c[1] + k, c[2]>> /\ Ahead(c, d, grid_size) = <<c[1] + grid_size, c[2]>>
    BY <1>1, <1>2, <1>6 DEF Ahead
  <2> QED
    BY <1>1, <1>2, <2>1 DEF Cells, Board
<1> QED
  BY <1>3, <1>4, <1>5, <1>6 DEF Directions

\* The tile stops before the edge.
LEMMA FarFound ==
  ASSUME NEW g \in Boards, NEW d \in Directions, NEW c \in Cells
  PROVE  /\ Far(g, d, c) \in Nat
         /\ Free(g, d, c, Far(g, d, c)) /\ ~Free(g, d, c, Far(g, d, c) + 1)
<1> DEFINE S == {k \in Nat : ~Free(g, d, c, k + 1)}
<1>1. grid_size \in Nat \ {0} /\ DOMAIN g = Cells
  BY Game2048Assumption DEF Boards
<1>2. grid_size - 1 \in S
  <2>1. Ahead(c, d, grid_size) \notin Cells
    BY AheadElsewhere
  <2>2. grid_size \in 1 .. (grid_size - 1) + 1 /\ grid_size - 1 \in Nat
    BY <1>1
  <2> QED
    BY <1>1, <2>1, <2>2 DEF Free
<1>3. PICK k \in S : \A j \in S : k <= j
  <2>1. S \subseteq Nat /\ S # {}
    BY <1>2
  <2> HIDE DEF S
  <2> QED
    BY <2>1, LeastExists
<1>4. Free(g, d, c, k)
  <2>1. CASE k = 0
    BY <2>1 DEF Free
  <2>2. CASE k # 0
    <3>1. k - 1 \in Nat /\ k - 1 \notin S /\ (k - 1) + 1 = k
      BY <1>3, <2>2
    <3> QED
      BY <3>1
  <2> QED
    BY <2>1, <2>2
<1>5. k \in 0 .. Cardinality(DOMAIN g)
  <2>1. k <= grid_size - 1 /\ k \in Nat
    BY <1>2, <1>3
  <2>2. grid_size <= grid_size * grid_size /\ grid_size * grid_size \in Nat
    BY <1>1
  <2>3. Cardinality(DOMAIN g) = grid_size * grid_size
    BY <1>1, CellsFinite
  <2> QED
    BY <1>1, <2>1, <2>2, <2>3
<1>6. ~Free(g, d, c, k + 1)
  OBVIOUS
<1>7. /\ Far(g, d, c) \in 0 .. Cardinality(DOMAIN g)
      /\ Free(g, d, c, Far(g, d, c)) /\ ~Free(g, d, c, Far(g, d, c) + 1)
  BY <1>4, <1>5, <1>6 DEF Far
<1> QED
  BY <1>7

\* What move_tiles does with the tile on c: nothing, when there is none or when
\* it has no place to go to, or it leaves c for an empty cell z before the next
\* tile or the edge, or for the next tile, of its value.
Stays(g, d, c) == g[c] = 0 \/ Ahead(c, d, 1) \notin Cells \/ g[Ahead(c, d, 1)] # 0
MovesTo(m, d, c, z, r) ==
  /\ z \in Cells /\ z # c /\ \E k \in Nat \ {0} : z = Ahead(c, d, k)
  /\ m.grid[c] # 0
  /\ \/ /\ m.grid[z] = 0 /\ (Ahead(z, d, 1) \notin Cells \/ m.grid[Ahead(z, d, 1)] # 0)
        /\ r = [grid |-> [m.grid EXCEPT ![z] = m.grid[c], ![c] = 0], gain |-> m.gain, moved |-> TRUE]
     \/ /\ m.grid[z] = m.grid[c]
        /\ r = [grid |-> [m.grid EXCEPT ![z] = 2 * m.grid[c], ![c] = 0],
                gain |-> m.gain + 2 * m.grid[c], moved |-> TRUE]

LEMMA SlideCases ==
  ASSUME NEW m \in Moves, NEW d \in Directions, NEW c \in Cells
  PROVE  \/ Slide(d, m, c) = m /\ Stays(m.grid, d, c)
         \/ \E z : MovesTo(m, d, c, z, Slide(d, m, c))
<1> DEFINE g == m.grid
           far == Far(g, d, c)
           to == Ahead(c, d, far)
           hit == Ahead(c, d, far + 1)
           v == g[c]
<1>1. g \in Boards /\ DOMAIN g = Cells /\ m.gain \in Nat
  BY DEF Moves, Boards
<1>2. Slide(d, m, c) =
        IF v = 0 THEN m
        ELSE IF hit \in Cells /\ g[hit] = v
        THEN [grid |-> [g EXCEPT ![hit] = 2 * v, ![c] = 0],
              gain |-> m.gain + 2 * v, moved |-> TRUE]
        ELSE IF far > 0
        THEN [m EXCEPT !.grid = [g EXCEPT ![to] = v, ![c] = 0], !.moved = TRUE]
        ELSE m
  BY <1>1 DEF Slide, Far, Free
<1>3. far \in Nat /\ Free(g, d, c, far) /\ ~Free(g, d, c, far + 1)
  BY <1>1, FarFound
<1>4. hit # c /\ (far > 0 => to # c /\ to \in Cells /\ g[to] = 0)
  <2>1. hit # c
    BY <1>3, AheadElsewhere
  <2>2. ASSUME far > 0 PROVE to # c /\ to \in Cells /\ g[to] = 0
    <3>1. far \in Nat \ {0} /\ far \in 1 .. far
      BY <1>3, <2>2
    <3> QED
      BY <1>1, <1>3, <3>1, AheadElsewhere DEF Free
  <2> QED
    BY <2>1, <2>2
\* What stops the tile.
<1>5. hit \notin Cells \/ g[hit] # 0
  <2>1. PICK l \in 1 .. far + 1 : ~(Ahead(c, d, l) \in Cells /\ g[Ahead(c, d, l)] = 0)
    BY <1>1, <1>3 DEF Free
  <2>2. l \notin 1 .. far
    BY <1>1, <1>3, <2>1 DEF Free
  <2>3. l = far + 1
    BY <1>3, <2>2
  <2> QED
    BY <2>1, <2>3
<1>6. hit = Ahead(to, d, 1)
  <2>1. c[1] \in Int /\ c[2] \in Int /\ d[1] \in Int /\ d[2] \in Int
    BY Game2048Assumption DEF Cells, Board, Directions
  <2>2. /\ to[1] = c[1] + far * d[1] /\ to[2] = c[2] + far * d[2]
        /\ hit = <<c[1] + (far + 1) * d[1], c[2] + (far + 1) * d[2]>>
    BY DEF Ahead
  <2>3. /\ (far + 1) * d[1] = far * d[1] + 1 * d[1] /\ (far + 1) * d[2] = far * d[2] + 1 * d[2]
        /\ far * d[1] \in Int /\ far * d[2] \in Int
    BY <1>3, <2>1
  <2> HIDE DEF to, hit, far
  <2>4. hit = <<to[1] + 1 * d[1], to[2] + 1 * d[2]>>
    BY <2>1, <2>2, <2>3
  <2> QED
    BY <2>4 DEF Ahead
<1> HIDE DEF far, v
<1>7. CASE v = 0
  BY <1>2, <1>7 DEF Stays, v
<1>8. CASE v # 0 /\ hit \in Cells /\ g[hit] = v
  <2>1. far + 1 \in Nat \ {0}
    BY <1>3
  <2> HIDE DEF g
  <2>2. MovesTo(m, d, c, hit, Slide(d, m, c))
    BY <1>2, <1>4, <1>8, <2>1 DEF MovesTo, v, g
  <2> QED
    BY <2>2
<1>9. CASE v # 0 /\ ~(hit \in Cells /\ g[hit] = v) /\ far > 0
  <2>1. far \in Nat \ {0}
    BY <1>3, <1>9
  <2>2. m = [grid |-> g, gain |-> m.gain, moved |-> m.moved]
    BY DEF Moves
  <2>3. Slide(d, m, c) = [m EXCEPT !.grid = [g EXCEPT ![to] = v, ![c] = 0], !.moved = TRUE]
    BY <1>2, <1>9
  <2> HIDE DEF g, to, hit
  <2>4. Slide(d, m, c) = [grid |-> [g EXCEPT ![to] = v, ![c] = 0], gain |-> m.gain, moved |-> TRUE]
    BY <2>2, <2>3
  <2>5. MovesTo(m, d, c, to, Slide(d, m, c))
    BY <1>4, <1>5, <1>6, <1>9, <2>1, <2>4 DEF MovesTo, v, g, to
  <2> QED
    BY <2>5
<1>10. CASE v # 0 /\ ~(hit \in Cells /\ g[hit] = v) /\ ~(far > 0)
  <2>1. far = 0
    BY <1>3, <1>10
  <2>2. hit = Ahead(c, d, 1)
    BY <2>1
  <2> QED
    BY <1>2, <1>5, <1>10, <2>2 DEF Stays, v
<1> QED
  BY <1>7, <1>8, <1>9, <1>10

LEMMA MovesToBoard ==
  ASSUME NEW m \in Moves, NEW d \in Directions, NEW c \in Cells, NEW z, NEW r, MovesTo(m, d, c, z, r)
  PROVE  /\ r \in Moves /\ r.moved /\ r.grid[c] = 0 /\ r.grid[z] > m.grid[z]
         /\ \A y \in Cells : y # c /\ y # z => r.grid[y] = m.grid[y]
<1>1. /\ m.grid \in [Cells -> Tile] /\ m.gain \in Nat /\ z \in Cells /\ z # c
      /\ m.grid[c] # 0 /\ m.grid[c] \in Tile
  BY DEF Moves, Boards, MovesTo
<1>2. 0 \in Tile /\ 2 * m.grid[c] \in Tile /\ m.grid[c] \in Nat /\ m.grid[c] > 0
  BY <1>1 DEF Tile
<1>3. r.moved = TRUE /\ r.gain \in Nat /\ DOMAIN r = {"grid", "gain", "moved"}
  BY <1>1, <1>2 DEF MovesTo
<1>4. \E w \in Tile : r.grid = [m.grid EXCEPT ![z] = w, ![c] = 0] /\ w > m.grid[z]
  BY <1>1, <1>2 DEF MovesTo
<1>5. r = [grid |-> r.grid, gain |-> r.gain, moved |-> r.moved]
  BY DEF MovesTo
<1>6. PICK w \in Tile : r.grid = [m.grid EXCEPT ![z] = w, ![c] = 0] /\ w > m.grid[z]
  BY <1>4
<1>7. r.grid \in [Cells -> Tile]
  BY <1>1, <1>2, <1>6
<1>8. r \in Moves
  BY <1>3, <1>5, <1>7 DEF Moves, Boards
<1> QED
  BY <1>1, <1>3, <1>6, <1>8

\* e is 1 where a merge gains what the tiles are worth more, 0 where it keeps
\* their sum.
Earns(W, e) ==
  /\ Weights(W) /\ e \in {0, 1} /\ W[0] = 0
  /\ \A v \in Tile \ {0} : W[2 * v] = 2 * W[v] + e * (2 * v)

\* One tile: a merge is counted once, a slide earns nothing.
LEMMA SlideEarns ==
  ASSUME NEW W, NEW e, Earns(W, e), NEW m \in Moves, NEW d \in Directions, NEW c \in Cells
  PROVE  /\ Slide(d, m, c) \in Moves
         /\ Part(Slide(d, m, c).grid, W)[Cells] =
              Part(m.grid, W)[Cells] + e * Slide(d, m, c).gain - e * m.gain
<1> DEFINE g == m.grid
           v == g[c]
           r == Slide(d, m, c)
<1>1. g \in Boards /\ v \in Tile /\ m.gain \in Nat /\ Weights(W) /\ e \in {0, 1} /\ W[0] = 0
  BY DEF Moves, Boards, Earns
<1>2. Part(g, W)[Cells] \in Nat
  BY <1>1, PartStep
<1>3. CASE r = m
  BY <1>1, <1>2, <1>3
<1>4. ASSUME NEW z, MovesTo(m, d, c, z, r)
      PROVE  r \in Moves /\ Part(r.grid, W)[Cells] = Part(g, W)[Cells] + e * r.gain - e * m.gain
  <2>1. z \in Cells /\ z # c /\ v # 0
    BY <1>4 DEF MovesTo
  <2>2. ASSUME NEW w \in Tile, r.grid = [g EXCEPT ![z] = w, ![c] = 0]
        PROVE  Part(r.grid, W)[Cells] = Part(g, W)[Cells] - W[g[z]] + W[w] - W[v]
    <3> DEFINE g1 == [g EXCEPT ![z] = w]
               g2 == [g1 EXCEPT ![c] = 0]
    <3>1. g1 \in Boards /\ Part(g1, W)[Cells] = Part(g, W)[Cells] - W[g[z]] + W[w] /\ g1[c] = v
      <4>1. g1[c] = v
        BY <1>1, <2>1 DEF Boards
      <4> HIDE DEF g, v
      <4> QED
        BY <1>1, <2>1, <4>1, PutTile
    <3>2. r.grid = g2 /\ 0 \in Tile
      BY <2>2 DEF Tile
    <3> HIDE DEF g1
    <3>3. Part(g2, W)[Cells] = Part(g1, W)[Cells] - W[g1[c]] + W[0]
      BY <1>1, <3>1, <3>2, PutTile
    <3>4. Part(g1, W)[Cells] \in Nat /\ W[v] \in Nat
      BY <1>1, <3>1, PartStep DEF Weights, Tile
    <3>7. W[w] \in Nat /\ W[g[z]] \in Nat
      BY <1>1, <2>1 DEF Weights, Boards, Tile
    <3> HIDE DEF g2, v, g, r
    <3>5. Part(r.grid, W)[Cells] = Part(g1, W)[Cells] - W[v]
      BY <1>1, <3>1, <3>2, <3>3, <3>4
    <3>6. Part(g1, W)[Cells] = Part(g, W)[Cells] - W[g[z]] + W[w]
      BY <3>1
    <3> QED
      BY <1>2, <3>4, <3>5, <3>6, <3>7
  <2>3. W[v] \in Nat /\ 2 * v \in Tile /\ W[2 * v] = 2 * W[v] + e * (2 * v) /\ v \in Nat
    <3> HIDE DEF v
    <3>1. 2 * v \in Tile /\ v \in Tile \ {0} /\ v \in Nat
      BY <1>1, <2>1 DEF Tile
    <3> QED
      BY <3>1 DEF Weights, Earns
  <2>4. CASE g[z] = 0 /\ r = [grid |-> [g EXCEPT ![z] = v, ![c] = 0], gain |-> m.gain, moved |-> TRUE]
    <3>1. Part(r.grid, W)[Cells] = Part(g, W)[Cells] - W[g[z]] + W[v] - W[v]
      BY <1>1, <2>2, <2>4
    <3>2. r.gain = m.gain /\ e * r.gain - e * m.gain = 0
      BY <1>1, <2>4
    <3> HIDE DEF r, v, g
    <3> QED
      BY <1>1, <1>2, <1>4, <2>3, <2>4, <3>1, <3>2, MovesToBoard
  <2>5. CASE g[z] = v /\ r = [grid |-> [g EXCEPT ![z] = 2 * v, ![c] = 0],
                             gain |-> m.gain + 2 * v, moved |-> TRUE]
    <3>1. Part(r.grid, W)[Cells] = Part(g, W)[Cells] - W[v] + W[2 * v] - W[v]
      BY <2>2, <2>3, <2>5
    <3>2. r.gain = m.gain + 2 * v
      BY <2>5
    <3> HIDE DEF r, v, g
    <3>3. e * r.gain - e * m.gain = e * (2 * v)
      BY <1>1, <2>3, <3>2
    <3> QED
      BY <1>1, <1>2, <1>4, <2>3, <3>1, <3>3, MovesToBoard
  <2> QED
    BY <1>4, <2>4, <2>5 DEF MovesTo
<1> QED
  BY <1>3, <1>4, SlideCases

\* The loops of move_tiles come to every cell.
LEMMA OrderCells ==
  ASSUME NEW d \in Directions, NEW k \in 1 .. grid_size * grid_size
  PROVE  Order(grid_size, d)[k] \in Cells
<1> DEFINE i == (k - 1) \div grid_size
           j == (k - 1) % grid_size
<1>1. grid_size \in Nat \ {0} /\ k - 1 \in Nat /\ k - 1 < grid_size * grid_size
  BY Game2048Assumption
<1>2. i \in 0 .. grid_size - 1 /\ j \in 0 .. grid_size - 1
  BY <1>1
<1> HIDE DEF i, j
<1>3. /\ (IF d[1] = 1 THEN grid_size - 1 - i ELSE i) \in 0 .. grid_size - 1
      /\ (IF d[2] = 1 THEN grid_size - 1 - j ELSE j) \in 0 .. grid_size - 1
  BY <1>1, <1>2
<1> QED
  BY <1>3 DEF i, j, Order, Cells, Board

IsMove(F, g, d) ==
  F = [s \in SUBSET DOMAIN Order(grid_size, d) |->
         IF s = {} THEN [grid |-> g, gain |-> 0, moved |-> FALSE]
         ELSE Slide(d, F[s \ {Max(s)}], Order(grid_size, d)[Max(s)])]

LEMMA TurnsFinite ==
  /\ IsFiniteSet(1 .. grid_size * grid_size)
  /\ \A s \in SUBSET (1 .. grid_size * grid_size) : s # {} => Max(s) \in s
<1>1. 1 \in Int /\ grid_size * grid_size \in Nat
  BY Game2048Assumption
<1>2. IsFiniteSet(1 .. grid_size * grid_size)
  BY <1>1, FS_Interval
<1>3. ASSUME NEW s \in SUBSET (1 .. grid_size * grid_size), s # {} PROVE Max(s) \in s
  <2> DEFINE N == grid_size * grid_size
  <2>1. N \in Nat /\ s \subseteq 1 .. N
    BY <1>1
  <2> HIDE DEF N
  <2>2. \E k \in s : \A j \in s : k >= j
    BY <1>3, <2>1, GreatestExists
  <2> QED
    BY <2>2 DEF Max
<1> QED
  BY <1>2, <1>3

\* G is the course of the loops.
Start0(g) == [grid |-> g, gain |-> 0, moved |-> FALSE]
Course(G, g, d) ==
  /\ G \in [0 .. grid_size * grid_size -> Moves] /\ G[0] = Start0(g)
  /\ \A k \in 1 .. grid_size * grid_size : G[k] = Slide(d, G[k - 1], Order(grid_size, d)[k])

LEMMA MoveCourse ==
  ASSUME NEW g \in Boards, NEW d \in Directions
  PROVE  \E G : Course(G, g, d) /\ MoveTiles(grid_size, g, d) = G[grid_size * grid_size]
<1> DEFINE N == grid_size * grid_size
           D == 1 .. N
           ord == Order(grid_size, d)
           e == Start0(g)
           ch == [s \in SUBSET D |-> Max(s)]
           h == [p \in D \X Moves |-> Slide(d, p[2], ord[p[1]])]
<1>1. DOMAIN ord = D /\ \A k \in D : ord[k] \in Cells
  BY OrderCells DEF Order
<1>2. IsFiniteSet(D) /\ \A s \in SUBSET D : s # {} => Max(s) \in s
  BY TurnsFinite
<1>3. e \in Moves /\ N \in Nat
  BY Game2048Assumption DEF Moves, Start0
<1> HIDE DEF N, ord, e
<1>4. \A s \in SUBSET D : s # {} => ch[s] \in s
  BY <1>2
<1>5. h \in [D \X Moves -> Moves]
  BY <1>1, SlideCases, MovesToBoard
<1> HIDE DEF ch, h, D
<1>6. PICK F : Folds(F, D, ch, Moves, e, h)
  BY <1>2, <1>3, <1>4, <1>5, FoldExists
<1>7. ASSUME NEW s \in SUBSET D, s # {} PROVE F[s] = Slide(d, F[s \ {Max(s)}], ord[Max(s)])
  <2>1. ch[s] = Max(s) /\ Max(s) \in D /\ s \ {Max(s)} \in SUBSET D
    BY <1>2, <1>7 DEF ch
  <2>2. F[s] = h[<<Max(s), F[s \ {Max(s)}]>>] /\ F[s \ {Max(s)}] \in Moves
    BY <1>6, <1>7, <2>1 DEF Folds
  <2> QED
    BY <2>1, <2>2 DEF h
<1>8. F[{}] = e /\ F \in [SUBSET D -> Moves]
  BY <1>6 DEF Folds
<1>9. F = [s \in SUBSET D |-> IF s = {} THEN e ELSE Slide(d, F[s \ {Max(s)}], ord[Max(s)])]
  BY <1>7, <1>8
<1>10. \E K : IsMove(K, g, d)
  BY <1>1, <1>9 DEF IsMove, ord, e, Start0
<1> DEFINE K == CHOOSE K : IsMove(K, g, d)
<1>11. IsMove(K, g, d)
  BY <1>10
<1> HIDE DEF K
<1>12. K = [s \in SUBSET D |-> IF s = {} THEN e ELSE Slide(d, K[s \ {Max(s)}], ord[Max(s)])]
  BY <1>1, <1>11 DEF IsMove, ord, e, Start0
<1>13. K[{}] = e /\ \A s \in SUBSET D : s # {} => K[s] = Slide(d, K[s \ {Max(s)}], ord[Max(s)])
  BY <1>12
<1> DEFINE G == [k \in 0 .. N |-> K[1 .. k]]
           S == {k \in Nat : k <= N => K[1 .. k] \in Moves}
<1>14. ASSUME NEW k \in D PROVE K[1 .. k] = Slide(d, K[1 .. k - 1], ord[k])
  <2>1. k \in Nat /\ k <= N /\ 1 .. k \in SUBSET D /\ k \in 1 .. k /\ (1 .. k) \ {k} = 1 .. k - 1
    BY <1>3 DEF D
  <2>2. Max(1 .. k) = k
    <3>1. \A j \in 1 .. k : k >= j /\ (j >= k => j = k)
      BY <2>1
    <3> QED
      BY <2>1, <3>1 DEF Max
  <2> QED
    BY <1>13, <2>1, <2>2
<1>15. 0 \in S
  BY <1>3, <1>13
<1>16. ASSUME NEW k \in S PROVE k + 1 \in S
  <2> SUFFICES ASSUME k + 1 <= N PROVE K[1 .. k + 1] \in Moves
    OBVIOUS
  <2>1. k + 1 \in D /\ (k + 1) - 1 = k /\ K[1 .. k] \in Moves
    BY <1>3 DEF D
  <2>2. K[1 .. k + 1] = Slide(d, K[1 .. k], ord[k + 1]) /\ ord[k + 1] \in Cells
    BY <1>1, <1>14, <2>1
  <2> QED
    BY <2>1, <2>2, SlideCases, MovesToBoard
<1> HIDE DEF S
<1>17. S \subseteq Nat
  BY DEF S
<1>18. S = Nat
  BY <1>15, <1>16, <1>17, SetInduction
<1>19. \A k \in 0 .. N : K[1 .. k] \in Moves
  BY <1>18 DEF S
<1>20. G \in [0 .. N -> Moves] /\ G[0] = e
  BY <1>3, <1>13, <1>19
<1>21. \A k \in D : G[k] = Slide(d, G[k - 1], ord[k])
  BY <1>3, <1>14 DEF D
<1>22. MoveTiles(grid_size, g, d) = G[N]
  <2>1. MoveTiles(grid_size, g, d) = (CHOOSE L : IsMove(L, g, d))[DOMAIN Order(grid_size, d)]
    BY DEF MoveTiles, FoldLeft, MapThenFoldSet, IsMove
  <2>2. N \in 0 .. N /\ D = 1 .. N
    BY <1>3 DEF D
  <2> QED
    BY <1>1, <2>1, <2>2 DEF K, ord
<1> HIDE DEF G
<1>23. Course(G, g, d)
  BY <1>20, <1>21 DEF Course, e, D, N, ord
<1> QED
  BY <1>22, <1>23 DEF N

LEMMA MoveSums ==
  ASSUME NEW W, NEW e, Earns(W, e), NEW g \in Boards, NEW d \in Directions
  PROVE  /\ MoveTiles(grid_size, g, d) \in Moves
         /\ Part(MoveTiles(grid_size, g, d).grid, W)[Cells] =
              Part(g, W)[Cells] + e * MoveTiles(grid_size, g, d).gain
<1> DEFINE N == grid_size * grid_size
<1>1. PICK G : Course(G, g, d) /\ MoveTiles(grid_size, g, d) = G[N]
  BY MoveCourse
<1>2. N \in Nat /\ e \in {0, 1} /\ Weights(W)
  BY Game2048Assumption DEF Earns
<1>3. \A k \in 1 .. N : G[k] = Slide(d, G[k - 1], Order(grid_size, d)[k])
                         /\ Order(grid_size, d)[k] \in Cells
  BY <1>1, OrderCells DEF Course
<1>4. G \in [0 .. N -> Moves] /\ G[0].grid = g /\ G[0].gain = 0
  BY <1>1 DEF Course, Start0
<1>5. Part(g, W)[Cells] \in Nat
  BY <1>2, PartStep
<1> HIDE DEF N
<1> DEFINE S == {k \in Nat : k <= N => Part(G[k].grid, W)[Cells] = Part(g, W)[Cells] + e * G[k].gain}
<1>6. 0 \in S
  BY <1>2, <1>4, <1>5
<1>7. ASSUME NEW k \in S PROVE k + 1 \in S
  <2> SUFFICES ASSUME k + 1 <= N
               PROVE  Part(G[k + 1].grid, W)[Cells] = Part(g, W)[Cells] + e * G[k + 1].gain
    OBVIOUS
  <2>1. /\ k + 1 \in 1 .. N /\ (k + 1) - 1 = k /\ k \in 0 .. N
        /\ Part(G[k].grid, W)[Cells] = Part(g, W)[Cells] + e * G[k].gain
    BY <1>2
  <2>2. G[k] \in Moves /\ G[k + 1] \in Moves
    BY <1>4, <2>1
  <2>3. Part(G[k + 1].grid, W)[Cells] = Part(G[k].grid, W)[Cells] + e * G[k + 1].gain - e * G[k].gain
    BY <1>3, <2>1, <2>2, SlideEarns
  <2>4. e * G[k].gain \in Nat /\ e * G[k + 1].gain \in Nat
    BY <1>2, <2>2 DEF Moves
  <2> QED
    BY <1>5, <2>1, <2>3, <2>4
<1> HIDE DEF S
<1>8. S \subseteq Nat
  BY DEF S
<1>9. S = Nat
  BY <1>6, <1>7, <1>8, SetInduction
<1> QED
  BY <1>1, <1>2, <1>4, <1>9 DEF S

LEMMA MoveEarns ==
  ASSUME NEW g \in Boards, NEW d \in Directions
  PROVE  /\ MoveTiles(grid_size, g, d) \in Moves
         /\ WorthOf(MoveTiles(grid_size, g, d).grid) =
              WorthOf(g) + MoveTiles(grid_size, g, d).gain
<1>1. Earns(Worth, 1)
  BY WorthValue, SmallWorth, MergeWorth DEF Earns, Weights, Tile
<1> DEFINE m == MoveTiles(grid_size, g, d)
<1>2. m \in Moves /\ Part(m.grid, Worth)[Cells] = Part(g, Worth)[Cells] + 1 * m.gain
  BY <1>1, MoveSums
<1>3. m.grid \in Boards /\ m.gain \in Nat
  BY <1>2 DEF Moves
<1> QED
  BY <1>2, <1>3, WorthOfPart

-----------------------------------------------------------------------------
(* The stopped handlers and the new boards.                                    *)

Work == {"tile", "check"}

LEMMA BoundedStack ==
  ASSUME NEW s
  PROVE  s \in BoundedSeq(Work, MaxDepth) <=> s \in Seq(Work) /\ Len(s) <= MaxDepth
<1>1. MaxDepth \in Nat
  BY Game2048Assumption
<1>2. ASSUME s \in BoundedSeq(Work, MaxDepth) PROVE s \in Seq(Work) /\ Len(s) <= MaxDepth
  <2>1. PICK m \in 0 .. MaxDepth : s \in [1 .. m -> Work]
    BY <1>2 DEF BoundedSeq, SeqOf
  <2> QED
    BY <1>1, <2>1
<1>3. ASSUME s \in Seq(Work), Len(s) <= MaxDepth PROVE s \in BoundedSeq(Work, MaxDepth)
  <2>1. Len(s) \in 0 .. MaxDepth /\ s \in [1 .. Len(s) -> Work]
    BY <1>1, <1>3
  <2> QED
    BY <2>1 DEF BoundedSeq, SeqOf
<1> QED
  BY <1>2, <1>3

\* A new board has two tiles and an empty cell, so it is not lost.
LEMMA NewBoard ==
  ASSUME NEW g \in NewBoards PROVE g \in Boards /\ Empty(g) # {}
<1>1. PICK S \in kSubset(2, Cells) : \E t \in [S -> {2, 4}] :
        g = [c \in Cells |-> IF c \in DOMAIN t THEN t[c] ELSE 0]
  BY DEF NewBoards
<1>2. PICK t \in [S -> {2, 4}] :
        g = [c \in Cells |-> IF c \in DOMAIN t THEN t[c] ELSE 0]
  BY <1>1
<1>3. S \subseteq Cells /\ Cardinality(S) = 2 /\ DOMAIN t = S /\ \A c \in S : t[c] \in Tile
  BY <1>2 DEF kSubset, Tile
<1>4. g \in Boards
  BY <1>2, <1>3 DEF Boards, Tile
<1>5. S # Cells
  <2>1. grid_size \in Nat \ {0} => grid_size * grid_size # 2
    OBVIOUS
  <2> QED
    BY <1>3, <2>1, CellsFinite, Game2048Assumption
<1>6. PICK c \in Cells : c \notin S
  BY <1>3, <1>5
<1>7. g[c] = 0 /\ DOMAIN g = Cells
  BY <1>2, <1>3, <1>6
<1> QED
  BY <1>4, <1>7 DEF Empty

LEMMA RoomLeft ==
  ASSUME NEW g, Empty(g) # {} PROVE ~IsGameOver(g)
BY DEF IsGameOver

-----------------------------------------------------------------------------
(* The invariant.                                                              *)

Typed == TypeOK /\ grid \in Boards

Inv == Typed /\ ScoreEarned /\ LostGameReported /\ ReportIsFinal

LEMMA StackTyped ==
  ASSUME Typed PROVE stack \in Seq(Work) /\ Len(stack) \in 0 .. MaxDepth
<1>1. stack \in BoundedSeq(Work, MaxDepth)
  BY DEF Typed, TypeOK, Work
<1> QED
  BY <1>1, BoundedStack

LEMMA InitInv == Init => Inv
<1> SUFFICES ASSUME Init PROVE Inv
  OBVIOUS
<1>1. grid \in Boards /\ Empty(grid) # {} /\ WorthOf(grid) \in Nat
  BY NewBoard, WorthOfPart DEF Init
<1>2. stack \in BoundedSeq({"tile", "check"}, MaxDepth)
  <2>1. <<>> \in Seq(Work) /\ Len(<<>>) <= MaxDepth
    BY Game2048Assumption
  <2> QED
    BY <2>1, BoundedStack DEF Init, Work
<1>3. Typed
  <2>1. /\ swap_mode \in BOOLEAN /\ remove_mode \in BOOLEAN /\ swapped \in BOOLEAN
        /\ screen \in {"menu", "2048"} /\ selected \in {<<>>} \cup {<<c>> : c \in Cells}
    BY DEF Init
  <2>2. /\ score \in 0 .. MaxScore /\ reported \subseteq 0 .. MaxScore
        /\ swap_count \in 0 .. SwapUses /\ remove_count \in 0 .. RemoveUses
    BY Game2048Assumption DEF Init
  <2>3. grid \in [Cells -> Nat] /\ handicap \in Int
    BY <1>1 DEF Init, Boards, Tile
  <2> QED
    BY <1>1, <1>2, <2>1, <2>2, <2>3 DEF Typed, TypeOK
<1>4. ScoreEarned
  BY <1>1 DEF Init, ScoreEarned
<1>5. LostGameReported /\ ReportIsFinal
  BY DEF Init, LostGameReported, ReportIsFinal
<1> QED
  BY <1>3, <1>4, <1>5 DEF Inv

LEMMA PressInv ==
  ASSUME Inv, NEW d \in Directions, Press(d) PROVE Inv'
<1> DEFINE m == MoveTiles(grid_size, grid, d)
<1>1. /\ screen = "2048" /\ Len(stack) < MaxDepth /\ score + m.gain <= MaxScore
      /\ grid' = m.grid /\ score' = score + m.gain
      /\ stack' = Append(stack, "tile") /\ swapped' = FALSE
      /\ UNCHANGED <<screen, aids, handicap, reported>>
  BY DEF Press
<1>2. m.grid \in Boards /\ m.gain \in Nat /\ WorthOf(m.grid) = WorthOf(grid) + m.gain
  BY MoveEarns DEF Inv, Typed, Moves
<1> HIDE DEF m
<1>3. stack \in Seq(Work) /\ Len(stack) \in 0 .. MaxDepth
  BY StackTyped DEF Inv
<1>4. stack' \in Seq(Work) /\ Len(stack') <= MaxDepth /\ stack' # <<>>
  BY <1>1, <1>3, Game2048Assumption DEF Work
<1>5. stack' \in BoundedSeq({"tile", "check"}, MaxDepth)
  BY <1>4, BoundedStack DEF Work
<1>6. score' \in 0 .. MaxScore
  BY <1>1, <1>2, Game2048Assumption DEF Inv, Typed, TypeOK
<1>7. grid' \in [Cells -> Nat] /\ grid' \in Boards
  BY <1>1, <1>2 DEF Boards, Tile
<1>8. Typed'
  BY <1>1, <1>5, <1>6, <1>7 DEF Inv, Typed, TypeOK, aids
<1>9. ScoreEarned'
  <2>1. WorthOf(grid) = score + handicap /\ score \in Int /\ handicap \in Int
    BY DEF Inv, Typed, TypeOK, ScoreEarned
  <2> QED
    BY <1>1, <1>2, <2>1 DEF ScoreEarned
<1>10. LostGameReported' /\ ReportIsFinal'
  BY <1>1, <1>4 DEF Inv, LostGameReported, ReportIsFinal
<1> QED
  BY <1>8, <1>9, <1>10 DEF Inv

LEMMA NewTileInv ==
  ASSUME Inv, NewTile PROVE Inv'
<1>1. /\ Top("tile") /\ stack' = [stack EXCEPT ![Len(stack)] = "check"]
      /\ UNCHANGED <<screen, score, aids, reported, swapped>>
  BY DEF NewTile
<1>2. stack \in Seq(Work) /\ Len(stack) \in 1 .. MaxDepth
  BY <1>1, StackTyped DEF Inv, Top
<1>3. stack' \in Seq(Work) /\ Len(stack') = Len(stack)
  BY <1>1, <1>2 DEF Work
<1>4. stack' # <<>> /\ Len(stack') <= MaxDepth
  BY <1>2, <1>3
<1>5. stack' \in BoundedSeq({"tile", "check"}, MaxDepth)
  BY <1>3, <1>4, BoundedStack DEF Work
<1>6. CASE Empty(grid) = {}
  <2>1. UNCHANGED <<grid, handicap>>
    BY <1>6 DEF NewTile
  <2> QED
    BY <1>1, <1>4, <1>5, <2>1
    DEF Inv, Typed, TypeOK, ScoreEarned, LostGameReported, ReportIsFinal, aids
<1>7. CASE Empty(grid) # {}
  <2>1. PICK c \in Empty(grid), v \in {2, 4} :
          grid' = [grid EXCEPT ![c] = v] /\ handicap' = handicap + Worth[v]
    BY <1>7 DEF NewTile
  <2>2. grid \in Boards /\ c \in Cells /\ v \in Tile /\ grid[c] = 0
    BY DEF Inv, Typed, Boards, Empty, Tile
  <2>3. grid' \in Boards /\ WorthOf(grid') = WorthOf(grid) - Worth[0] + Worth[v]
    BY <2>1, <2>2, PutWorth
  <2>4. Worth[0] = 0 /\ Worth[v] \in Nat
    BY <2>2, WorthValue, SmallWorth DEF Tile
  <2>5. WorthOf(grid) = score + handicap /\ score \in Int /\ handicap \in Int
    BY DEF Inv, Typed, TypeOK, ScoreEarned
  <2>6. grid' \in [Cells -> Nat] /\ handicap' \in Int
    BY <2>1, <2>3, <2>4, <2>5 DEF Boards, Tile
  <2>7. Typed'
    BY <1>1, <1>5, <2>3, <2>6 DEF Inv, Typed, TypeOK, aids
  <2>8. ScoreEarned'
    BY <1>1, <2>1, <2>3, <2>4, <2>5 DEF ScoreEarned
  <2>9. LostGameReported'
    BY <1>4 DEF LostGameReported
  <2>10. ReportIsFinal'
    BY <1>1, <1>7, RoomLeft DEF Inv, ReportIsFinal
  <2> QED
    BY <2>7, <2>8, <2>9, <2>10 DEF Inv
<1> QED
  BY <1>6, <1>7

LEMMA CheckInv ==
  ASSUME Inv, CheckGameOver PROVE Inv'
<1>1. /\ Top("check") /\ stack' = Front(stack)
      /\ IF Ends THEN reported' = reported \cup {score} /\ screen' = "menu"
         ELSE UNCHANGED <<reported, screen>>
      /\ UNCHANGED <<grid, score, aids, handicap, swapped>>
  BY DEF CheckGameOver, LeaveGame
<1>2. stack \in Seq(Work) /\ Len(stack) \in 1 .. MaxDepth
  BY <1>1, StackTyped DEF Inv, Top
<1>3. stack' \in Seq(Work) /\ Len(stack') <= MaxDepth
  <2>1. Len(stack) - 1 \in 0 .. Len(stack) /\ Len(stack) - 1 <= MaxDepth
    BY <1>2, Game2048Assumption
  <2>2. stack' = SubSeq(stack, 1, Len(stack) - 1)
    BY <1>1 DEF Front
  <2>3. \A i \in 1 .. Len(stack) - 1 : stack[i] \in Work
    BY <1>2
  <2>4. /\ stack' \in Seq(Work)
        /\ Len(stack') = IF 1 <= Len(stack) - 1 THEN (Len(stack) - 1) - 1 + 1 ELSE 0
    BY <2>1, <2>2, <2>3, SubSeqProperties
  <2> QED
    BY <1>2, <2>1, <2>4
<1>4. stack' \in BoundedSeq({"tile", "check"}, MaxDepth)
  BY <1>3, BoundedStack DEF Work
<1>5. Typed'
  BY <1>1, <1>4 DEF Inv, Typed, TypeOK, aids
<1>6. ScoreEarned'
  BY <1>1 DEF Inv, ScoreEarned
<1>7. LostGameReported' /\ ReportIsFinal'
  BY <1>1 DEF Inv, LostGameReported, ReportIsFinal, Ends
<1> QED
  BY <1>5, <1>6, <1>7 DEF Inv

LEMMA StartInv ==
  ASSUME Inv, Start PROVE Inv'
<1>1. /\ screen' = "2048" /\ grid' \in NewBoards /\ score' = 0
      /\ swap_count' = SwapUses /\ remove_count' = RemoveUses
      /\ handicap' = WorthOf(grid') /\ reported' = {} /\ swapped' = FALSE
      /\ UNCHANGED <<swap_mode, remove_mode, selected, stack>>
  BY DEF Start
<1>2. grid' \in Boards /\ Empty(grid') # {} /\ WorthOf(grid') \in Nat
  BY <1>1, NewBoard, WorthOfPart
<1>3. grid' \in [Cells -> Nat]
  BY <1>2 DEF Boards, Tile
<1>4. Typed'
  <2>1. /\ score' \in 0 .. MaxScore /\ reported' \subseteq 0 .. MaxScore
        /\ swap_count' \in 0 .. SwapUses /\ remove_count' \in 0 .. RemoveUses
    BY <1>1, Game2048Assumption
  <2>2. screen' \in {"menu", "2048"} /\ handicap' \in Int
    BY <1>1, <1>2
  <2>3. swapped' \in BOOLEAN
    BY <1>1
  <2> QED
    BY <1>1, <1>2, <1>3, <2>1, <2>2, <2>3 DEF Inv, Typed, TypeOK
<1>5. ScoreEarned'
  BY <1>1, <1>2 DEF ScoreEarned
<1>6. LostGameReported' /\ ReportIsFinal'
  BY <1>1, <1>2, RoomLeft DEF LostGameReported, ReportIsFinal
<1> QED
  BY <1>4, <1>5, <1>6 DEF Inv

\* Back and the buttons change no board.
LEMMA ButtonInv ==
  ASSUME Inv, Typed', screen' \in {screen, "menu"}, screen = "2048",
         UNCHANGED <<grid, score, stack, handicap, reported, swapped>>
  PROVE  Inv'
BY DEF Inv, ScoreEarned, LostGameReported, ReportIsFinal

LEMMA RemoveTileInv ==
  ASSUME Inv, NEW c \in Cells, RemoveTile(c) PROVE Inv'
<1>1. /\ screen = "2048" /\ grid' = [grid EXCEPT ![c] = 0] /\ remove_mode' = FALSE
      /\ handicap' = handicap - Worth[grid[c]] /\ swapped' = FALSE
      /\ UNCHANGED <<screen, score, swap_count, remove_count, swap_mode, selected,
                     stack, reported>>
  BY DEF RemoveTile
<1>2. grid \in Boards /\ 0 \in Tile /\ grid[c] \in Nat
  BY DEF Inv, Typed, Boards, Tile
<1>3. grid' \in Boards /\ WorthOf(grid') = WorthOf(grid) - Worth[grid[c]] + Worth[0]
  BY <1>1, <1>2, PutWorth
<1>4. Worth[0] = 0 /\ Worth[grid[c]] \in Nat
  BY <1>2, WorthValue, SmallWorth
<1>5. WorthOf(grid) = score + handicap /\ score \in Int /\ handicap \in Int
  BY DEF Inv, Typed, TypeOK, ScoreEarned
<1>6. grid' \in [Cells -> Nat] /\ handicap' \in Int
  BY <1>1, <1>3, <1>4, <1>5 DEF Boards, Tile
<1>7. Typed'
  BY <1>1, <1>3, <1>6 DEF Inv, Typed, TypeOK
<1>8. ScoreEarned'
  BY <1>1, <1>3, <1>4, <1>5 DEF ScoreEarned
<1>9. LostGameReported'
  <2>1. c \in Empty(grid')
    BY <1>1, <1>2 DEF Empty, Boards
  <2> QED
    BY <2>1, RoomLeft DEF LostGameReported
<1>10. ReportIsFinal'
  BY <1>1 DEF Inv, ReportIsFinal
<1> QED
  BY <1>7, <1>8, <1>9, <1>10 DEF Inv

LEMMA SelectTileInv ==
  ASSUME Inv, NEW c \in Cells, SelectTile(c) PROVE Inv'
<1>1. /\ screen = "2048"
      /\ UNCHANGED <<screen, score, swap_count, remove_count, remove_mode, stack,
                     handicap, reported>>
  BY DEF SelectTile
<1>2. CASE selected = <<>>
  <2>1. selected' = <<c>> /\ UNCHANGED <<grid, swap_mode, swapped>>
    BY <1>2 DEF SelectTile
  <2>2. Typed'
    BY <1>1, <2>1 DEF Inv, Typed, TypeOK
  <2> QED
    BY <1>1, <2>1, <2>2, ButtonInv
<1>3. CASE selected # <<>>
  <2>1. PICK a \in Cells : selected = <<a>>
    BY <1>3 DEF Inv, Typed, TypeOK
  <2>2. /\ grid' = [grid EXCEPT ![a] = grid[c], ![c] = grid[a]]
        /\ selected' = <<>> /\ swap_mode' = FALSE /\ swapped' = TRUE
    BY <1>3, <2>1 DEF SelectTile
  <2> DEFINE g1 == [grid EXCEPT ![a] = grid[c]]
  <2>3. grid \in Boards /\ grid[a] \in Tile /\ grid[c] \in Tile /\ grid' = [g1 EXCEPT ![c] = grid[a]]
    BY <2>2 DEF Inv, Typed, Boards
  <2>4. g1 \in Boards /\ WorthOf(g1) = WorthOf(grid) - Worth[grid[a]] + Worth[grid[c]]
    BY <2>3, PutWorth
  <2>5. g1[c] = grid[c]
    BY <2>3 DEF Boards
  <2> HIDE DEF g1
  <2>6. grid' \in Boards /\ WorthOf(grid') = WorthOf(g1) - Worth[grid[c]] + Worth[grid[a]]
    BY <2>3, <2>4, <2>5, PutWorth
  <2>7. Worth[grid[a]] \in Nat /\ Worth[grid[c]] \in Nat /\ WorthOf(grid) \in Nat
    BY <2>3, WorthValue, WorthOfPart DEF Tile
  <2>8. WorthOf(grid') = WorthOf(grid)
    BY <2>4, <2>6, <2>7
  <2>9. grid' \in [Cells -> Nat]
    BY <2>6 DEF Boards, Tile
  <2>10. Typed'
    BY <1>1, <2>2, <2>6, <2>9 DEF Inv, Typed, TypeOK
  <2>11. ScoreEarned' /\ LostGameReported' /\ ReportIsFinal'
    BY <1>1, <2>2, <2>8 DEF Inv, ScoreEarned, LostGameReported, ReportIsFinal
  <2> QED
    BY <2>10, <2>11 DEF Inv
<1> QED
  BY <1>2, <1>3

LEMMA NextInv == Inv /\ [Next]_vars => Inv'
<1> SUFFICES ASSUME Inv, [Next]_vars PROVE Inv'
  OBVIOUS
<1>1. CASE Back
  <2>1. Typed'
    BY <1>1 DEF Back, aids, Inv, Typed, TypeOK
  <2> QED
    BY <1>1, <2>1, ButtonInv DEF Back
<1>2. CASE RemoveButton
  <2>1. Typed'
    BY <1>2, Game2048Assumption DEF RemoveButton, RemovesLeft, Inv, Typed, TypeOK
  <2> QED
    BY <1>2, <2>1, ButtonInv DEF RemoveButton
<1>3. CASE SwapButton
  <2>1. Typed'
    BY <1>3, Game2048Assumption DEF SwapButton, Inv, Typed, TypeOK
  <2> QED
    BY <1>3, <2>1, ButtonInv DEF SwapButton
<1>4. CASE UNCHANGED vars
  BY <1>4 DEF vars, aids, Inv, Typed, TypeOK, ScoreEarned, LostGameReported, ReportIsFinal
<1> QED
  BY <1>1, <1>2, <1>3, <1>4, PressInv, NewTileInv, CheckInv, StartInv, RemoveTileInv,
     SelectTileInv
  DEF Next

LEMMA Invariance == Spec => []Inv
BY InitInv, NextInv, PTL DEF Spec

-----------------------------------------------------------------------------
(* What is proved.                                                             *)

\* Every variable keeps its type: selected_tiles holds no more than the cell
\* that was clicked first, and the counts of the buttons stay in their range.
THEOREM TypesKept == Spec => []TypeOK
<1>1. Inv => TypeOK
  BY DEF Inv, Typed
<1> QED
  BY <1>1, Invariance, PTL

\* The score is what the merges of the tiles on the board earned: move_tiles,
\* add_random_tile and the buttons neither lose nor count a merge twice,
\* however their handlers interrupt one another inside update_score.
THEOREM EveryMergeCounted == Spec => []ScoreEarned
<1>1. Inv => ScoreEarned
  BY DEF Inv
<1> QED
  BY <1>1, Invariance, PTL

\* When no handler is left to do its work a lost board has been reported and
\* left, except one that a swap has made.
THEOREM LossIsReported == Spec => []LostGameReported
<1>1. Inv => LostGameReported
  BY DEF Inv
<1> QED
  BY <1>1, Invariance, PTL

\* on_key_press1 sends a score only of a game that is over and off the screen,
\* and the handlers it interrupted can only send the same score again.
THEOREM ReportsAreFinal == Spec => []ReportIsFinal
<1>1. Inv => ReportIsFinal
  BY DEF Inv
<1> QED
  BY <1>1, Invariance, PTL

-----------------------------------------------------------------------------
(* What a move leaves, on a board of any size.                                 *)

LEMMA Quotient ==
  ASSUME NEW n \in Nat \ {0}, NEW q \in Int, NEW i \in Int,
         NEW r \in 0 .. n - 1, NEW j \in 0 .. n - 1, n * q + r = n * i + j
  PROVE  q = i /\ r = j
<1>1. ASSUME NEW a \in Int, NEW b \in Int, a > b PROVE n * a >= n * b + n
  <2>1. a - b - 1 \in Nat
    BY <1>1
  <2>2. n * (a - b - 1) >= 0
    BY <2>1
  <2>3. n * (a - b - 1) = n * a - n * b - n
    OBVIOUS
  <2> QED
    BY <2>2, <2>3
<1>2. n * q \in Int /\ n * i \in Int
  OBVIOUS
<1>3. ~(q > i)
  BY <1>1, <1>2
<1>4. ~(i > q)
  BY <1>1, <1>2
<1>5. q = i
  BY <1>3, <1>4
<1> QED
  BY <1>2, <1>5

\* The coordinates along which the loops count.
Across(d, x) == IF d = 1 THEN grid_size - 1 - x ELSE x
Index(d, c) == grid_size * Across(d[1], c[1]) + Across(d[2], c[2]) + 1

LEMMA OrderIndex ==
  ASSUME NEW d \in Directions
  PROVE  /\ \A k \in 1 .. grid_size * grid_size : Index(d, Order(grid_size, d)[k]) = k
         /\ \A c \in Cells : /\ Index(d, c) \in 1 .. grid_size * grid_size
                             /\ Order(grid_size, d)[Index(d, c)] = c
<1>1. grid_size \in Nat \ {0}
  BY Game2048Assumption
<1>2. \A x \in 0 .. grid_size - 1, b \in {-1, 0, 1} :
        Across(b, x) \in 0 .. grid_size - 1 /\ Across(b, Across(b, x)) = x
  BY <1>1 DEF Across
<1>3. d[1] \in {-1, 0, 1} /\ d[2] \in {-1, 0, 1}
  BY DEF Directions
<1>4. ASSUME NEW k \in 1 .. grid_size * grid_size
      PROVE  Index(d, Order(grid_size, d)[k]) = k
  <2> DEFINE i == (k - 1) \div grid_size
             j == (k - 1) % grid_size
  <2>1. k - 1 \in Nat /\ k - 1 < grid_size * grid_size /\ k \in Nat
    BY <1>1
  <2>2. i \in 0 .. grid_size - 1 /\ j \in 0 .. grid_size - 1 /\ k - 1 = grid_size * i + j
    BY <1>1, <2>1
  <2>3. Order(grid_size, d)[k] = <<Across(d[1], i), Across(d[2], j)>>
    BY DEF Order, Across
  <2> HIDE DEF i, j
  <2>4. Index(d, Order(grid_size, d)[k]) = grid_size * i + j + 1
    BY <1>2, <1>3, <2>2, <2>3 DEF Index
  <2> QED
    BY <1>1, <2>1, <2>2, <2>4
<1>5. ASSUME NEW c \in Cells
      PROVE  Index(d, c) \in 1 .. grid_size * grid_size /\ Order(grid_size, d)[Index(d, c)] = c
  <2> DEFINE i == Across(d[1], c[1])
             j == Across(d[2], c[2])
             k == Index(d, c)
  <2>1. c[1] \in 0 .. grid_size - 1 /\ c[2] \in 0 .. grid_size - 1 /\ c = <<c[1], c[2]>>
    BY DEF Cells, Board
  <2>2. i \in 0 .. grid_size - 1 /\ j \in 0 .. grid_size - 1
    BY <1>2, <1>3, <2>1
  <2>3. Across(d[1], i) = c[1] /\ Across(d[2], j) = c[2]
    BY <1>2, <1>3, <2>1
  <2>4. k = grid_size * i + j + 1
    BY DEF Index
  <2> HIDE DEF i, j, k
  <2>5. grid_size * i \in Nat /\ grid_size * (grid_size - 1 - i) >= 0
    BY <1>1, <2>2
  <2>6. grid_size * (grid_size - 1 - i) = grid_size * grid_size - grid_size - grid_size * i
    BY <1>1, <2>2
  <2>7. k - 1 \in Nat /\ k - 1 = grid_size * i + j /\ k \in 1 .. grid_size * grid_size
    BY <1>1, <2>2, <2>4, <2>5, <2>6
  <2> DEFINE q == (k - 1) \div grid_size
             r == (k - 1) % grid_size
  <2>8. q \in Int /\ r \in 0 .. grid_size - 1 /\ k - 1 = grid_size * q + r
    BY <1>1, <2>7
  <2>9. Order(grid_size, d)[k] = <<Across(d[1], q), Across(d[2], r)>>
    BY <2>7 DEF Order, Across
  <2> HIDE DEF q, r
  <2>10. q = i /\ r = j
    BY <1>1, <2>2, <2>7, <2>8, Quotient
  <2> QED
    BY <2>1, <2>3, <2>7, <2>9, <2>10 DEF k
<1> QED
  BY <1>4, <1>5

\* Whatever lies ahead of a cell has been looked at before it.
LEMMA AheadIsEarlier ==
  ASSUME NEW d \in Directions, NEW c \in Cells, NEW k \in Nat \ {0}, Ahead(c, d, k) \in Cells
  PROVE  Index(d, Ahead(c, d, k)) < Index(d, c)
<1> DEFINE n == grid_size
           z == Ahead(c, d, k)
<1>1. /\ n \in Nat \ {0}
      /\ c[1] \in 0 .. n - 1 /\ c[2] \in 0 .. n - 1 /\ z[1] \in 0 .. n - 1 /\ z[2] \in 0 .. n - 1
  BY Game2048Assumption DEF Cells, Board
<1>2. n * k >= n /\ n * k \in Nat
  <2>1. k - 1 \in Nat /\ n * (k - 1) >= 0 /\ n * (k - 1) = n * k - n
    BY <1>1
  <2> QED
    BY <1>1, <2>1
<1>3. /\ n * c[1] \in Nat /\ n * z[1] \in Nat
      /\ n * (n - 1 - c[1]) \in Nat /\ n * (n - 1 - z[1]) \in Nat
  BY <1>1
<1>4. CASE d = <<0, -1>>
  <2>1. z[1] = c[1] /\ z[2] = c[2] - k
    BY <1>1, <1>4 DEF Ahead
  <2>2. Index(d, c) = n * c[1] + c[2] + 1 /\ Index(d, z) = n * z[1] + z[2] + 1
    BY <1>4 DEF Index, Across
  <2> HIDE DEF z, n
  <2> QED
    BY <1>1, <1>3, <2>1, <2>2 DEF z
<1>5. CASE d = <<0, 1>>
  <2>1. z[1] = c[1] /\ z[2] = c[2] + k
    BY <1>1, <1>5 DEF Ahead
  <2>2. Index(d, c) = n * c[1] + (n - 1 - c[2]) + 1 /\ Index(d, z) = n * z[1] + (n - 1 - z[2]) + 1
    BY <1>5 DEF Index, Across
  <2> HIDE DEF z, n
  <2> QED
    BY <1>1, <1>3, <2>1, <2>2 DEF z
<1>6. CASE d = <<-1, 0>>
  <2>1. z[1] = c[1] - k /\ z[2] = c[2]
    BY <1>1, <1>6 DEF Ahead
  <2>2. Index(d, c) = n * c[1] + c[2] + 1 /\ Index(d, z) = n * z[1] + z[2] + 1
    BY <1>6 DEF Index, Across
  <2>3. n * (c[1] - k) = n * c[1] - n * k
    BY <1>1
  <2> HIDE DEF z, n
  <2> QED
    BY <1>1, <1>2, <1>3, <2>1, <2>2, <2>3 DEF z
<1>7. CASE d = <<1, 0>>
  <2>1. z[1] = c[1] + k /\ z[2] = c[2]
    BY <1>1, <1>7 DEF Ahead
  <2>2. Index(d, c) = n * (n - 1 - c[1]) + c[2] + 1 /\ Index(d, z) = n * (n - 1 - z[1]) + z[2] + 1
    BY <1>7 DEF Index, Across
  <2>3. n * (n - 1 - (c[1] + k)) = n * (n - 1 - c[1]) - n * k
    BY <1>1
  <2> HIDE DEF z, n
  <2> QED
    BY <1>1, <1>2, <1>3, <2>1, <2>2, <2>3 DEF z
<1> QED
  BY <1>4, <1>5, <1>6, <1>7 DEF Directions

\* After k turns: no gap ahead of the cells that were looked at; what has
\* moved is seen in one of them.
Packed(m, d, k) ==
  \A y \in Cells : Index(d, y) <= k /\ m.grid[y] # 0 /\ Ahead(y, d, 1) \in Cells
                     => m.grid[Ahead(y, d, 1)] # 0
Grown(m, g, d, k) ==
  IF m.moved THEN \E y \in Cells : Index(d, y) <= k /\ m.grid[y] > g[y] ELSE m.grid = g

LEMMA TurnPacks ==
  ASSUME NEW m \in Moves, NEW g \in Boards, NEW d \in Directions, NEW c \in Cells,
         Packed(m, d, Index(d, c) - 1), Grown(m, g, d, Index(d, c) - 1)
  PROVE  Packed(Slide(d, m, c), d, Index(d, c)) /\ Grown(Slide(d, m, c), g, d, Index(d, c))
<1> DEFINE r == Slide(d, m, c)
           k == Index(d, c)
<1>1. k \in Nat /\ \A y \in Cells : Index(d, y) \in Nat /\ (Index(d, y) = k => y = c)
  BY Game2048Assumption, OrderIndex
<1>2. \A y \in Cells : Index(d, y) <= k => y = c \/ Index(d, y) <= k - 1
  BY <1>1
<1>3. \A y \in Cells : Ahead(y, d, 1) \in Cells => Index(d, Ahead(y, d, 1)) < Index(d, y)
  BY AheadIsEarlier
<1>4. m.grid \in [Cells -> Nat] /\ g \in [Cells -> Nat] /\ m.moved \in BOOLEAN
  BY DEF Moves, Boards, Tile
<1> HIDE DEF r, k
<1>5. CASE r = m /\ Stays(m.grid, d, c)
  <2>1. Packed(r, d, k)
    BY <1>2, <1>5 DEF Packed, Stays, k
  <2>2. Grown(r, g, d, k)
    <3>1. CASE m.moved
      <4>1. PICK y \in Cells : Index(d, y) <= k - 1 /\ m.grid[y] > g[y]
        BY <3>1 DEF Grown, k
      <4>2. Index(d, y) <= k
        BY <1>1, <4>1
      <4> QED
        BY <1>5, <3>1, <4>1, <4>2 DEF Grown
    <3>2. CASE ~m.moved
      BY <1>5, <3>2 DEF Grown
    <3> QED
      BY <3>1, <3>2
  <2> QED
    BY <2>1, <2>2 DEF r, k
<1>6. ASSUME NEW z, MovesTo(m, d, c, z, r) PROVE Packed(r, d, k) /\ Grown(r, g, d, k)
  <2>1. /\ z \in Cells /\ z # c /\ Index(d, z) < k
        /\ m.grid[z] # 0 \/ Ahead(z, d, 1) \notin Cells \/ m.grid[Ahead(z, d, 1)] # 0
    <3>1. PICK l \in Nat \ {0} : z = Ahead(c, d, l)
      BY <1>6 DEF MovesTo
    <3>2. z \in Cells
      BY <1>6 DEF MovesTo
    <3>3. Index(d, z) < k
      BY <3>1, <3>2, AheadIsEarlier DEF k
    <3> QED
      BY <1>6, <3>3 DEF MovesTo
  <2>2. /\ r.moved /\ r.grid[c] = 0 /\ r.grid[z] > m.grid[z] /\ r.grid \in [Cells -> Nat]
        /\ \A y \in Cells : y # c /\ y # z => r.grid[y] = m.grid[y]
    BY <1>6, MovesToBoard DEF Moves, Boards, Tile
  <2>3. \A y \in Cells : y # c => r.grid[y] >= m.grid[y]
    BY <1>4, <2>1, <2>2
  <2>4. Packed(r, d, k)
    <3> SUFFICES ASSUME NEW y \in Cells, Index(d, y) <= k, r.grid[y] # 0, Ahead(y, d, 1) \in Cells
                 PROVE  r.grid[Ahead(y, d, 1)] # 0
      BY DEF Packed
    <3> DEFINE a == Ahead(y, d, 1)
    <3>1. y # c /\ Index(d, y) <= k - 1 /\ Index(d, a) < Index(d, y)
      BY <1>2, <1>3, <2>2
    <3>2. a # c
      BY <1>1, <3>1 DEF k
    <3>3. m.grid[a] # 0
      <4>1. CASE m.grid[y] # 0
        BY <3>1, <4>1 DEF Packed, k
      <4>2. CASE m.grid[y] = 0
        <5>1. y = z
          BY <2>2, <3>1, <4>2
        <5> QED
          BY <2>1, <4>2, <5>1
      <4> QED
        BY <4>1, <4>2
    <3> HIDE DEF a
    <3>4. r.grid[a] >= m.grid[a] /\ m.grid[a] \in Nat /\ r.grid[a] \in Nat
      BY <1>4, <2>2, <2>3, <3>2 DEF a
    <3> QED
      BY <3>3, <3>4 DEF a
  <2>5. Grown(r, g, d, k)
    <3>1. CASE m.moved
      <4>1. PICK y \in Cells : Index(d, y) <= k - 1 /\ m.grid[y] > g[y]
        BY <3>1 DEF Grown, k
      <4>2. y # c /\ Index(d, y) <= k
        BY <1>1, <4>1 DEF k
      <4>3. r.grid[y] > g[y]
        BY <1>4, <2>2, <2>3, <4>1, <4>2
      <4> QED
        BY <2>2, <4>2, <4>3 DEF Grown
    <3>2. CASE ~m.moved
      <4>1. m.grid = g /\ Index(d, z) <= k
        BY <1>1, <2>1, <3>2 DEF Grown
      <4> QED
        BY <2>1, <2>2, <4>1 DEF Grown
    <3> QED
      BY <3>1, <3>2
  <2> QED
    BY <2>4, <2>5
<1> QED
  BY <1>5, <1>6, SlideCases DEF r, k

LEMMA MovePacks ==
  ASSUME NEW g \in Boards, NEW d \in Directions
  PROVE  LET m == MoveTiles(grid_size, g, d)
         IN  m.moved \in BOOLEAN /\ (m.moved <=> m.grid # g) /\ Packed(m, d, grid_size * grid_size)
<1> DEFINE N == grid_size * grid_size
           m == MoveTiles(grid_size, g, d)
<1>1. PICK G : Course(G, g, d) /\ m = G[N]
  BY MoveCourse
<1>2. N \in Nat
  BY Game2048Assumption
<1>3. G \in [0 .. N -> Moves] /\ G[0] = Start0(g)
  BY <1>1 DEF Course
<1>4. \A k \in 1 .. N : G[k] = Slide(d, G[k - 1], Order(grid_size, d)[k])
                         /\ Order(grid_size, d)[k] \in Cells /\ Index(d, Order(grid_size, d)[k]) = k
  BY <1>1, OrderCells, OrderIndex DEF Course
<1>5. \A c \in Cells : Index(d, c) \in 1 .. N
  BY OrderIndex
<1> HIDE DEF N, m
<1> DEFINE S == {k \in Nat : k <= N => Packed(G[k], d, k) /\ Grown(G[k], g, d, k)}
<1>6. 0 \in S
  <2>1. \A c \in Cells : ~(Index(d, c) <= 0)
    BY <1>5
  <2> QED
    BY <1>3, <2>1 DEF Packed, Grown, Start0
<1>7. ASSUME NEW k \in S PROVE k + 1 \in S
  <2> SUFFICES ASSUME k + 1 <= N PROVE Packed(G[k + 1], d, k + 1) /\ Grown(G[k + 1], g, d, k + 1)
    OBVIOUS
  <2> DEFINE c == Order(grid_size, d)[k + 1]
  <2>1. /\ k + 1 \in 1 .. N /\ (k + 1) - 1 = k /\ k \in 0 .. N
        /\ Packed(G[k], d, k) /\ Grown(G[k], g, d, k)
    BY <1>2
  <2>2. /\ G[k + 1] = Slide(d, G[k], c) /\ c \in Cells /\ Index(d, c) = k + 1 /\ G[k] \in Moves
        /\ Index(d, c) - 1 = k
    BY <1>3, <1>4, <2>1
  <2> HIDE DEF c
  <2> QED
    BY <2>1, <2>2, TurnPacks
<1> HIDE DEF S
<1>8. S \subseteq Nat
  BY DEF S
<1>9. S = Nat
  BY <1>6, <1>7, <1>8, SetInduction
<1>10. Packed(m, d, N) /\ Grown(m, g, d, N) /\ m \in Moves
  BY <1>1, <1>2, <1>3, <1>9 DEF S
<1>11. m.moved <=> m.grid # g
  <2>1. CASE m.moved
    <3>1. PICK y \in Cells : m.grid[y] > g[y]
      BY <1>10, <2>1 DEF Grown
    <3>2. m.grid[y] # g[y]
      BY <1>10, <3>1 DEF Moves, Boards, Tile
    <3> QED
      BY <2>1, <3>2
  <2>2. CASE ~m.moved
    BY <1>10, <2>2 DEF Grown
  <2> QED
    BY <2>1, <2>2
<1> QED
  BY <1>10, <1>11 DEF m, N, Moves

Face == [v \in Nat |-> v]
IsFaceSum(F, g) ==
  F = [s \in SUBSET DOMAIN g |-> IF s = {} THEN 0 ELSE F[s \ {Pick(s)}] + g[Pick(s)]]

LEMMA FaceSum ==
  ASSUME NEW g \in Boards PROVE Total(g, LAMBDA v : v) = Part(g, Face)[Cells]
<1>1. DOMAIN g = Cells /\ \A c \in Cells : Face[g[c]] = g[c]
  BY DEF Boards, Tile, Face
<1>2. ASSUME NEW F PROVE IsFaceSum(F, g) <=> IsSum(F, g, Face)
  <2>1. \A s \in SUBSET Cells : s # {} => Face[g[Pick(s)]] = g[Pick(s)]
    BY <1>1 DEF Pick
  <2>2. [s \in SUBSET Cells |-> IF s = {} THEN 0 ELSE F[s \ {Pick(s)}] + g[Pick(s)]] =
        [s \in SUBSET Cells |-> IF s = {} THEN 0 ELSE F[s \ {Pick(s)}] + Face[g[Pick(s)]]]
    BY <2>1
  <2> QED
    BY <1>1, <2>2 DEF IsFaceSum, IsSum
<1>3. Total(g, LAMBDA v : v) = (CHOOSE F : IsFaceSum(F, g))[Cells]
  BY <1>1 DEF Total, FoldSet, MapThenFoldSet, IsFaceSum, Pick
<1>4. (CHOOSE F : IsFaceSum(F, g)) = CHOOSE F : IsSum(F, g, Face)
  BY <1>2
<1> QED
  BY <1>3, <1>4 DEF Part

\* move_tiles on a board of any size, with any tiles and in all four directions:
\* it keeps the sum of the tiles, adds to the score what its merges are worth,
\* reports a move exactly when the board has changed, and leaves no tile that
\* could still slide (2048.c:move_tiles; what MCGame2048 evaluates on 3 x 3).
THEOREM MovesOfAnySize ==
  ASSUME NEW g \in Boards, NEW d \in Directions
  PROVE  LET m == MoveTiles(grid_size, g, d)
         IN /\ Total(m.grid, LAMBDA v : v) = Total(g, LAMBDA v : v)
            /\ WorthOf(m.grid) = WorthOf(g) + m.gain
            /\ m.moved <=> m.grid # g
            /\ \A c \in Cells : m.grid[c] # 0 /\ Ahead(c, d, 1) \in Cells
                                  => m.grid[Ahead(c, d, 1)] # 0
<1> DEFINE m == MoveTiles(grid_size, g, d)
<1>1. m \in Moves /\ WorthOf(m.grid) = WorthOf(g) + m.gain
  BY MoveEarns
<1>2. m.grid \in Boards /\ m.gain \in Nat
  BY <1>1 DEF Moves
<1>3. Total(m.grid, LAMBDA v : v) = Total(g, LAMBDA v : v)
  <2>1. Earns(Face, 0)
    <3>1. Weights(Face) /\ Face[0] = 0
      BY DEF Weights, Face
    <3>2. ASSUME NEW v \in Tile \ {0} PROVE Face[2 * v] = 2 * Face[v] + 0 * (2 * v)
      BY DEF Face, Tile
    <3> QED
      BY <3>1, <3>2 DEF Earns
  <2>2. Part(m.grid, Face)[Cells] = Part(g, Face)[Cells] + 0 * m.gain
    BY <2>1, MoveSums
  <2>3. Part(g, Face)[Cells] \in Nat
    BY <2>1, PartStep DEF Earns
  <2> HIDE DEF m
  <2>4. Part(m.grid, Face)[Cells] = Part(g, Face)[Cells]
    BY <1>2, <2>2, <2>3
  <2>5. /\ Total(m.grid, LAMBDA v : v) = Part(m.grid, Face)[Cells]
        /\ Total(g, LAMBDA v : v) = Part(g, Face)[Cells]
    BY <1>2, FaceSum
  <2> QED
    BY <2>4, <2>5
<1>4. (m.moved <=> m.grid # g) /\ Packed(m, d, grid_size * grid_size)
  BY MovePacks
<1>5. \A c \in Cells : Index(d, c) <= grid_size * grid_size
  BY OrderIndex, Game2048Assumption
<1>6. \A c \in Cells : m.grid[c] # 0 /\ Ahead(c, d, 1) \in Cells => m.grid[Ahead(c, d, 1)] # 0
  BY <1>4, <1>5 DEF Packed
<1> QED
  BY <1>1, <1>3, <1>4, <1>6
=============================================================================
