--------------------------- MODULE BreakoutProofs ---------------------------
(***************************************************************************)
(* Proofs about Breakout, for every wall of bricks, every number of balls  *)
(* and items and every limit of lives and levels.                          *)
(*                                                                         *)
(* Inv strengthens the properties for the middle of a frame.  A lost game  *)
(* must stay lost until init_game, so no ball is left when it is lost and  *)
(* a brick still stands: had the last brick been broken in this frame, the *)
(* ball that broke it would be in play, and the ball that falls would not  *)
(* be the last.                                                            *)
(***************************************************************************)
EXTENDS Breakout, NatFacts

\* A game that runs, or whose end is on the screen.
Played == screen = "breakout" \/ game_running \/ at # "idle"

Play ==
  /\ game_running => balls # {} /\ lives >= 1
  /\ Played /\ ~game_running => balls = {} /\ Standing # {}
  /\ game_running /\ Standing = {} =>
       at # "idle" /\ (at = "balls" => \E j \in balls : j < next)

ReportSound ==
  Played =>
    reports = IF game_running THEN [sent |-> 0, last |-> 0]
              ELSE [sent |-> 1, last |-> score]

ItemsCounted == active_items <= Cardinality(ItemSlots)

Inv == TypeOK /\ BallsCounted /\ ItemsCounted /\ Play /\ ReportSound
-----------------------------------------------------------------------------
(***************************************************************************)
(* Sets of indices.                                                        *)
(***************************************************************************)
\* The loops look at the least index first: there is one.
LEMMA LeastElement ==
  ASSUME NEW S, S \subseteq Nat, S # {}
  PROVE  Least(S) \in S /\ \A j \in S : Least(S) <= j
BY LeastExists DEF Least

LEMMA BallsFinite ==
  ASSUME NEW S \in SUBSET BallIds
  PROVE  IsFiniteSet(S) /\ Cardinality(S) \in 0 .. MaxBalls
<1>1. IsFiniteSet(BallIds) /\ Cardinality(BallIds) = MaxBalls
  <2>1. 0 \in Int /\ MaxBalls - 1 \in Int
    BY BreakoutAssumption
  <2>2. /\ IsFiniteSet(0 .. MaxBalls - 1)
        /\ Cardinality(0 .. MaxBalls - 1) =
             IF 0 > MaxBalls - 1 THEN 0 ELSE (MaxBalls - 1) - 0 + 1
    BY <2>1, FS_Interval, Zenon
  <2> QED
    BY <2>2, BreakoutAssumption DEF BallIds
<1>2. IsFiniteSet(S) /\ Cardinality(S) <= MaxBalls
  BY <1>1, FS_Subset
<1> QED
  BY <1>2, FS_CardinalityType, BreakoutAssumption

LEMMA SlotsFinite ==
  ASSUME NEW S \in SUBSET Slots
  PROVE  /\ IsFiniteSet(S) /\ Cardinality(S) \in Nat
         /\ Cardinality(S) >= MaxItems => S = Slots
<1>1. IsFiniteSet(Slots) /\ Cardinality(Slots) = MaxItems
  <2>1. 0 \in Int /\ MaxItems - 1 \in Int
    BY BreakoutAssumption
  <2>2. /\ IsFiniteSet(0 .. MaxItems - 1)
        /\ Cardinality(0 .. MaxItems - 1) =
             IF 0 > MaxItems - 1 THEN 0 ELSE (MaxItems - 1) - 0 + 1
    BY <2>1, FS_Interval, Zenon
  <2> QED
    BY <2>2, BreakoutAssumption DEF Slots
<1>2. IsFiniteSet(S) /\ Cardinality(S) <= MaxItems
      /\ (Cardinality(S) = MaxItems => S = Slots)
  BY <1>1, FS_Subset
<1> QED
  BY <1>2, FS_CardinalityType, BreakoutAssumption

LEMMA NoItemApart == NoItem \notin Items
  BY DEF NoItem, Items, ItemTypes

\* A fresh brick stands, and takes at most five hits.
LEMMA FreshStands ==
  ASSUME NEW n \in 1 .. MaxLevel PROVE Durability(n) \subseteq 1 .. 5
  BY BreakoutAssumption DEF Durability, AtLeast, AtMost
-----------------------------------------------------------------------------
(***************************************************************************)
(* init_game, and the callbacks of the widgets.                            *)
(***************************************************************************)
\* What init_game leaves for level n.
Fresh(n) ==
  /\ level = n /\ game_running = TRUE /\ lives \in 1 .. MaxLives
  /\ bricks \in [Bricks -> 0 .. 5] /\ Standing # {}
  /\ balls = {0} /\ active_balls = 1 /\ 0 \in BallIds
  /\ items \in [Slots -> Items \cup {NoItem}] /\ active_items = 0
  /\ paddle_x = 450 /\ paddle_width = PADDLE_WIDTH
  /\ BallsCounted /\ ItemsCounted

LEMMA InitGameSound ==
  ASSUME NEW n \in 1 .. MaxLevel, InitGame(n) PROVE Fresh(n)'
<1>1. bricks' \in [Bricks -> 1 .. 5]
  BY FreshStands DEF InitGame
<1>2. Standing' = Bricks /\ bricks' \in [Bricks -> 0 .. 5]
  BY <1>1 DEF Standing
<1>3. balls' = {0} /\ active_balls' = 1 /\ Cardinality({0}) = 1
  BY FS_Singleton DEF InitGame, ServeBall
<1>4. items' = [s \in Slots |-> NoItem] /\ active_items' = 0
  BY DEF InitGame, ClearItems
<1>5. ItemSlots' = {} /\ ItemsCounted'
  BY <1>4, FS_EmptySet DEF ItemSlots, ItemsCounted
<1>6. lives' \in 1 .. MaxLives /\ 0 \in BallIds /\ Bricks # {}
  BY BreakoutAssumption DEF InitGame, BallIds
<1> QED
  BY <1>2, <1>3, <1>4, <1>5, <1>6
  DEF InitGame, Fresh, BallsCounted, WINDOW_WIDTH, PADDLE_WIDTH

\* Whatever was before, init_game leaves a sound game, whichever screen shows.
LEMMA InitGameInv ==
  ASSUME TypeOK, NEW n \in 1 .. MaxLevel, InitGame(n),
         screen' \in {"menu", "breakout"}, at' = "idle", next' \in Nat,
         score' \in Nat, reports' = [sent |-> 0, last |-> 0]
  PROVE  Inv'
<1>1. Fresh(n)'
  BY InitGameSound
<1>2. BallsCounted' /\ ItemsCounted'
  BY <1>1 DEF Fresh
<1>3. TypeOK'
  <2>1. level' \in 0 .. MaxLevel /\ lives' \in 0 .. MaxLives
        /\ active_balls' \in 0 .. MaxBalls /\ active_items' \in Int
        /\ paddle_x' \in 0 .. WINDOW_WIDTH - PADDLE_WIDTH
    BY <1>1, BreakoutAssumption DEF Fresh, WINDOW_WIDTH, PADDLE_WIDTH
  <2>2. reports' \in [sent : Nat, last : Nat] /\ balls' \subseteq BallIds
    BY <1>1 DEF Fresh
  <2> QED
    BY <1>1, <2>1, <2>2 DEF Fresh, TypeOK
<1>4. Play' /\ ReportSound'
  BY <1>1 DEF Fresh, Play, Played, ReportSound
<1> QED
  BY <1>2, <1>3, <1>4 DEF Inv

LEMMA NextLevelInv ==
  ASSUME Inv, NextLevel, game_running, screen' = screen, at' = "idle",
         next' \in Nat
  PROVE  Inv'
<1>1. level + 1 \in 1 .. MaxLevel /\ InitGame(level + 1)
  BY BreakoutAssumption DEF Inv, TypeOK, NextLevel
<1>2. score' \in Nat /\ reports' = [sent |-> 0, last |-> 0]
  BY DEF Inv, TypeOK, NextLevel, Played, ReportSound
<1> QED
  BY <1>1, <1>2, InitGameInv DEF Inv, TypeOK

LEMMA CallbackInv ==
  ASSUME Inv, Start \/ Restart \/ KeyK \/ Motion \/ Back \/ MenuShown
  PROVE  Inv'
<1>1. ASSUME NewGame, screen' = "breakout", at = "idle", UNCHANGED frame
      PROVE  Inv'
  <2>1. 1 \in 1 .. MaxLevel /\ InitGame(1)
    BY <1>1, BreakoutAssumption DEF NewGame
  <2>2. next' \in Nat /\ at' = "idle"
    BY <1>1 DEF frame, Inv, TypeOK
  <2>3. score' \in Nat /\ reports' = [sent |-> 0, last |-> 0]
    BY <1>1 DEF NewGame
  <2> QED
    BY <1>1, <2>1, <2>2, <2>3, InitGameInv DEF Inv
<1>2. CASE Start
  BY <1>1, <1>2 DEF Start
<1>3. CASE Restart
  BY <1>1, <1>3 DEF Restart
<1>4. CASE KeyK
  BY <1>4, NextLevelInv DEF KeyK, frame, Inv, TypeOK
<1>5. CASE Motion
  <2>1. paddle_x' \in 0 .. WINDOW_WIDTH - PADDLE_WIDTH
    BY <1>5, BreakoutAssumption
    DEF Motion, AtMost, AtLeast, WINDOW_WIDTH, PADDLE_WIDTH
  <2> QED
    BY <1>5, <2>1
    DEF Motion, frame, Inv, TypeOK, BallsCounted, ItemsCounted, ItemSlots,
        Play, Played, Standing, ReportSound
<1>6. CASE Back
  BY <1>6 DEF Back, frame, Inv, TypeOK, BallsCounted, ItemsCounted, ItemSlots,
              Play, Played, Standing, ReportSound
<1>7. CASE MenuShown
  BY <1>7 DEF MenuShown, frame, Inv, TypeOK, BallsCounted, ItemsCounted, ItemSlots,
              Play, Played, Standing, ReportSound
<1> QED
  BY <1>2, <1>3, <1>4, <1>5, <1>6, <1>7
-----------------------------------------------------------------------------
(***************************************************************************)
(* The loop over the balls.                                                *)
(***************************************************************************)
\* The loop looks at a ball that is in play and that it has not looked at.
LEMMA NextBall ==
  ASSUME Inv, Ahead # {}
  PROVE  Least(Ahead) \in balls /\ Least(Ahead) >= next /\ Least(Ahead) \in Nat
<1>1. \A i \in balls : i \in Nat
  BY BreakoutAssumption DEF Inv, TypeOK, BallIds
<1>2. Ahead \subseteq Nat
  BY <1>1 DEF Ahead
<1>3. Least(Ahead) \in Ahead
  BY <1>2, LeastElement
<1> QED
  BY <1>1, <1>3 DEF Ahead

\* A ball that breaks nothing and does not fall.
LEMMA FlyInv ==
  ASSUME Inv, at = "balls", Fly,
         UNCHANGED <<screen, level, paddle_x, paddle_width>>,
         \/ at' = "items" /\ next' = 0
         \/ at' = "balls" /\ next' \in Nat /\ next' >= next
  PROVE  Inv'
<1>1. next \in Nat
  BY DEF Inv, TypeOK
<1>2. TypeOK' /\ BallsCounted' /\ ItemsCounted' /\ ReportSound'
  BY DEF Inv, TypeOK, Fly, BallsCounted, ItemsCounted, ItemSlots, Played,
         ReportSound
<1>3. \A j \in balls : j \in Nat
  BY BreakoutAssumption DEF Inv, TypeOK, BallIds
<1>4. Play'
  BY <1>1, <1>3 DEF Inv, Fly, Play, Played, Standing
<1> QED
  BY <1>2, <1>4 DEF Inv

LEMMA FallInv ==
  ASSUME Inv, at = "balls", NEW i \in balls, i >= next, Fall(i),
         at' = "balls", next' = i + 1,
         UNCHANGED <<screen, level, paddle_x, paddle_width>>
  PROVE  Inv'
<1>1. i \in Nat /\ next \in Nat /\ next' \in Nat /\ balls \in SUBSET BallIds
      /\ \A j \in balls : j \in Nat
  BY BreakoutAssumption DEF Inv, TypeOK, BallIds
<1>2. game_running /\ lives >= 1
      /\ reports = [sent |-> 0, last |-> 0]
  BY DEF Inv, Play, Played, ReportSound
<1>3. /\ IsFiniteSet(balls) /\ IsFiniteSet(balls \ {i})
      /\ Cardinality(balls \ {i}) = active_balls - 1
  BY <1>1, BallsFinite, FS_RemoveElement DEF Inv, BallsCounted
<1>4. ItemsCounted' /\ Standing' = Standing
  BY DEF Inv, Fall, ItemsCounted, ItemSlots, Standing
<1>5. CASE active_balls - 1 # 0
  <2>1. /\ balls' = balls \ {i} /\ active_balls' = active_balls - 1
        /\ UNCHANGED <<game_running, lives, reports, score, bricks, items,
                       active_items>>
    BY <1>5 DEF Fall
  <2>2. BallsCounted' /\ balls' # {} /\ active_balls' \in 0 .. MaxBalls
    <3>1. Cardinality(balls') \in 0 .. MaxBalls
      BY <2>1, <1>1, BallsFinite
    <3> QED
      BY <2>1, <1>3, <1>5, <3>1, FS_EmptySet DEF BallsCounted
  <2>3. Standing = {} => \E j \in balls' : j < next'
    BY <2>1, <1>1, <1>2 DEF Inv, Play
  <2>4. TypeOK'
    BY <2>1, <2>2, <1>1 DEF Inv, TypeOK
  <2>5. Play' /\ ReportSound'
    BY <2>1, <2>2, <2>3, <1>2, <1>4 DEF Inv, Play, Played, ReportSound
  <2> QED
    BY <2>2, <2>4, <2>5, <1>4 DEF Inv
<1>6. CASE active_balls - 1 = 0
  <2>1. balls \ {i} = {}
    BY <1>3, <1>6, FS_EmptySet
  <2>2. Standing # {}
    BY <2>1, <1>1, <1>2 DEF Inv, Play
  <2>3. lives' = lives - 1 /\ UNCHANGED <<score, bricks, items, active_items>>
        /\ lives \in 0 .. MaxLives
    BY <1>6 DEF Fall, Inv, TypeOK
  <2>4. CASE Loses(lives - 1)
    <3>1. /\ game_running' = FALSE /\ balls' = {} /\ active_balls' = 0
          /\ reports' = [sent |-> 1, last |-> score]
      BY <2>1, <2>4, <1>2, <1>6 DEF Fall
    <3>2. BallsCounted' /\ Play' /\ ReportSound'
      BY <3>1, <2>2, <2>3, <1>2, <1>4, FS_EmptySet
      DEF Inv, BallsCounted, Play, Played, ReportSound
    <3>3. reports' \in [sent : Nat, last : Nat] /\ lives' \in 0 .. MaxLives
      BY <3>1, <2>3, <1>2, BreakoutAssumption DEF Inv, TypeOK
    <3>4. game_running' \in BOOLEAN /\ balls' \subseteq BallIds
      BY <3>1
    <3>5. active_balls' \in 0 .. MaxBalls
      BY <3>1, BreakoutAssumption
    <3>6. TypeOK'
      BY <3>3, <3>4, <3>5, <2>3, <1>1 DEF Inv, TypeOK
    <3> QED
      BY <3>2, <3>6, <1>4 DEF Inv
  <2>5. CASE ~Loses(lives - 1)
    <3>1. /\ balls' = {0} /\ active_balls' = 1 /\ lives' >= 1
          /\ UNCHANGED <<game_running, reports>>
      BY <2>1, <2>3, <2>5, <1>6 DEF Fall, Loses
    <3>2. BallsCounted'
      BY <3>1, FS_Singleton DEF BallsCounted
    <3>3. Play' /\ ReportSound'
      BY <3>1, <2>2, <2>3, <1>2, <1>4 DEF Inv, Play, Played, ReportSound
    <3>4. TypeOK'
      BY <3>1, <2>3, <1>1, <1>2, BreakoutAssumption DEF Inv, TypeOK, BallIds
    <3> QED
      BY <3>2, <3>3, <3>4, <1>4 DEF Inv
  <2> QED
    BY <2>4, <2>5
<1> QED
  BY <1>5, <1>6

\* spawn_item takes a free slot and counts it.
LEMMA SpawnItemSound ==
  ASSUME TypeOK, ItemsCounted, NEW b \in Bricks, SpawnItem(b)
  PROVE  /\ items' \in [Slots -> Items \cup {NoItem}]
         /\ active_items' \in Int /\ ItemsCounted'
<1>1. CASE active_items >= MaxItems \/ ItemSlots = Slots
  BY <1>1 DEF SpawnItem, TypeOK, ItemsCounted, ItemSlots
<1>2. CASE ~(active_items >= MaxItems \/ ItemSlots = Slots)
  <2> DEFINE s == Least(Slots \ ItemSlots)
  <2>1. s \in Slots \ ItemSlots
    <3>1. Slots \ ItemSlots \subseteq Nat /\ Slots \ ItemSlots # {}
      BY <1>2, BreakoutAssumption DEF Slots, ItemSlots
    <3> QED
      BY <3>1, LeastElement
  <2> HIDE DEF s
  <2>2. PICK t \in ItemTypes :
          items' = [items EXCEPT ![s] =
                      [type |-> t, x |-> CenterX(b), low |-> FALSE]]
    BY <1>2 DEF SpawnItem, s
  <2> DEFINE r == [type |-> t, x |-> CenterX(b), low |-> FALSE]
  <2>3. r \in Items /\ r # NoItem
    <3>1. r \in Items
      BY <2>2 DEF Items
    <3> QED
      BY <3>1, NoItemApart
  <2> HIDE DEF r
  <2>4. items' = [items EXCEPT ![s] = r] /\ active_items' = active_items + 1
    BY <1>2, <2>2 DEF SpawnItem, r
  <2>5. items' \in [Slots -> Items \cup {NoItem}]
    BY <2>1, <2>3, <2>4 DEF TypeOK
  <2>6. ItemSlots' = ItemSlots \cup {s}
    BY <2>1, <2>3, <2>4 DEF ItemSlots, TypeOK
  <2>7. ItemSlots \in SUBSET Slots
    BY DEF ItemSlots
  <2>8. Cardinality(ItemSlots') = Cardinality(ItemSlots) + 1
    BY <2>1, <2>6, <2>7, SlotsFinite, FS_AddElement
  <2>9. active_items \in Int /\ Cardinality(ItemSlots) \in Nat
    BY <2>7, SlotsFinite DEF TypeOK
  <2> QED
    BY <2>4, <2>5, <2>8, <2>9 DEF ItemsCounted
<1> QED
  BY <1>1, <1>2

LEMMA HitInv ==
  ASSUME Inv, at = "balls", NEW i \in balls, i >= next, Hit,
         at' = "balls", next' = i + 1,
         UNCHANGED <<screen, level, paddle_x, paddle_width>>
  PROVE  Inv'
<1>1. PICK b \in Standing :
        /\ bricks' = [bricks EXCEPT ![b] = @ - 1]
        /\ score' = score + (IF bricks[b] = 1 THEN 10 ELSE 5)
        /\ SpawnItem(b) \/ UNCHANGED <<items, active_items>>
        /\ UNCHANGED <<game_running, lives, balls, active_balls, reports>>
  BY DEF Hit
<1>2. b \in Bricks /\ bricks[b] > 0 /\ bricks \in [Bricks -> 0 .. 5]
  BY DEF Standing, Inv, TypeOK
<1>3. bricks' \in [Bricks -> 0 .. 5] /\ score' \in Nat
  BY <1>1, <1>2 DEF Inv, TypeOK
<1>4. i \in Nat /\ next' \in Nat
  BY BreakoutAssumption DEF Inv, TypeOK, BallIds
<1>5. /\ items' \in [Slots -> Items \cup {NoItem}]
      /\ active_items' \in Int /\ ItemsCounted'
  BY <1>1, <1>2, SpawnItemSound DEF Inv, TypeOK, ItemsCounted, ItemSlots
<1>6. TypeOK' /\ BallsCounted'
  BY <1>1, <1>3, <1>4, <1>5 DEF Inv, TypeOK, BallsCounted
<1>7. game_running /\ i < next'
  BY <1>4 DEF Inv, Play, Played
<1>8. Play' /\ ReportSound'
  BY <1>1, <1>7 DEF Inv, Play, Played, ReportSound
<1> QED
  BY <1>5, <1>6, <1>8 DEF Inv

LEMMA MoveBallInv == Inv /\ MoveBall => Inv'
<1> SUFFICES ASSUME Inv, MoveBall PROVE Inv'
  OBVIOUS
<1>1. at = "balls" /\ UNCHANGED <<screen, level, paddle_x, paddle_width>>
  BY DEF MoveBall
<1>2. CASE Ahead = {}
  BY <1>1, <1>2, FlyInv DEF MoveBall
<1>3. CASE Ahead # {}
  <2>1. PICK i \in balls : i >= next /\ i \in Nat /\ i = Least(Ahead)
    BY <1>3, NextBall
  <2>2. at' = "balls" /\ next' = i + 1 /\ (Fly \/ Fall(i) \/ Hit)
    BY <1>1, <1>3, <2>1 DEF MoveBall
  <2>3. next' \in Nat /\ next' >= next
    BY <2>1, <2>2 DEF Inv, TypeOK
  <2> QED
    BY <1>1, <2>1, <2>2, <2>3, FlyInv, FallInv, HitInv
<1> QED
  BY <1>2, <1>3
-----------------------------------------------------------------------------
(***************************************************************************)
(* The loop over the items, and the bricks.                                *)
(***************************************************************************)
LEMMA AddNewBallSound ==
  ASSUME Inv, AddNewBall
  PROVE  /\ balls' \subseteq BallIds /\ active_balls' \in 0 .. MaxBalls
         /\ BallsCounted' /\ balls \subseteq balls'
         /\ balls = {} => balls' = {}
<1>1. balls \in SUBSET BallIds /\ IsFiniteSet(balls)
  BY BallsFinite DEF Inv, TypeOK
<1>2. CASE active_balls >= MaxBalls \/ balls = {} \/ balls = BallIds
  BY <1>2 DEF AddNewBall, Inv, TypeOK, BallsCounted
<1>3. CASE ~(active_balls >= MaxBalls \/ balls = {} \/ balls = BallIds)
  <2> DEFINE k == Least(BallIds \ balls)
  <2>1. k \in BallIds \ balls
    <3>1. BallIds \ balls # {}
      BY <1>1, <1>3
    <3>2. BallIds \subseteq Nat
      BY BreakoutAssumption DEF BallIds
    <3> QED
      BY <3>1, <3>2, LeastElement
  <2>2. balls' = balls \cup {k} /\ active_balls' = active_balls + 1
    BY <1>3 DEF AddNewBall
  <2> HIDE DEF k
  <2>3. balls' \in SUBSET BallIds /\ balls # {}
    BY <1>1, <1>3, <2>1, <2>2
  <2>4. Cardinality(balls') = Cardinality(balls) + 1
    BY <1>1, <2>1, <2>2, FS_AddElement
  <2>5. Cardinality(balls') \in 0 .. MaxBalls
    BY <2>3, BallsFinite
  <2> QED
    BY <2>2, <2>3, <2>4, <2>5 DEF Inv, BallsCounted
<1> QED
  BY <1>2, <1>3

\* The effect of an item: no ball and no life is taken.
LEMMA EffectSound ==
  ASSUME Inv, NEW type, ApplyItemEffect(type)
  PROVE  /\ balls' \subseteq BallIds /\ active_balls' \in 0 .. MaxBalls
         /\ BallsCounted' /\ (balls = {} <=> balls' = {})
         /\ lives' \in 0 .. MaxLives /\ lives' >= lives
         /\ paddle_width' \in {0, PADDLE_WIDTH, ExtendedWidth}
<1>1. balls \subseteq BallIds /\ active_balls \in 0 .. MaxBalls
      /\ active_balls = Cardinality(balls) /\ lives \in 0 .. MaxLives
      /\ paddle_width \in {0, PADDLE_WIDTH, ExtendedWidth}
  BY DEF Inv, TypeOK, BallsCounted
<1>2. CASE type = "extend" /\ paddle_width' = ExtendedWidth
           /\ UNCHANGED <<balls, active_balls, lives>>
  BY <1>1, <1>2, BreakoutAssumption DEF BallsCounted
<1>3. CASE AddNewBall /\ UNCHANGED <<paddle_width, lives>>
  <2>1. /\ balls' \subseteq BallIds /\ active_balls' \in 0 .. MaxBalls
        /\ BallsCounted' /\ balls \subseteq balls'
        /\ balls = {} => balls' = {}
    BY <1>3, AddNewBallSound
  <2>2. balls = {} <=> balls' = {}
    BY <2>1
  <2> QED
    BY <1>1, <1>3, <2>1, <2>2, BreakoutAssumption
<1>4. CASE lives' = ExtraLife(lives)
           /\ UNCHANGED <<balls, active_balls, paddle_width>>
  BY <1>1, <1>4, BreakoutAssumption DEF BallsCounted, ExtraLife
<1> QED
  BY <1>2, <1>3, <1>4 DEF ApplyItemEffect

\* An item that falls is counted down at least once when it goes.
LEMMA DropItemSound ==
  ASSUME Inv, NEW s \in ItemSlots, DropItem(s)
  PROVE  /\ balls' \subseteq BallIds /\ active_balls' \in 0 .. MaxBalls
         /\ BallsCounted' /\ (balls = {} <=> balls' = {})
         /\ lives' \in 0 .. MaxLives /\ lives' >= lives
         /\ paddle_width' \in {0, PADDLE_WIDTH, ExtendedWidth}
         /\ items' \in [Slots -> Items \cup {NoItem}]
         /\ active_items' \in Int /\ ItemsCounted'
<1>1. s \in Slots /\ items \in [Slots -> Items \cup {NoItem}]
      /\ items[s] \in Items /\ items[s] # NoItem
  BY DEF ItemSlots, Inv, TypeOK
<1>2. PICK y \in {"low", "out", "high"}, caught \in BOOLEAN, downs \in 0 .. 2 :
        /\ IF caught THEN ApplyItemEffect(items[s].type)
           ELSE UNCHANGED <<balls, active_balls, lives, paddle_width>>
        /\ items' = [items EXCEPT ![s] =
             IF caught \/ y = "out" THEN NoItem
             ELSE [items[s] EXCEPT !.low = (y = "low")]]
        /\ active_items' = active_items - downs
        /\ caught \/ y = "out" => downs >= 1
  <2>1. PICK y \in {"low", "out", "high"} :
          LET caught == y # "high" /\ OverPaddle(items[s].x)
              gone == caught \/ y = "out"
              downs == (IF caught THEN 1 ELSE 0) + (IF y = "out" THEN 1 ELSE 0)
          IN /\ IF caught THEN ApplyItemEffect(items[s].type)
                ELSE UNCHANGED <<balls, active_balls, lives, paddle_width>>
             /\ items' = [items EXCEPT ![s] =
                  IF gone THEN NoItem ELSE [@ EXCEPT !.low = (y = "low")]]
             /\ active_items' = active_items - downs
    BY DEF DropItem
  <2> DEFINE caught == y # "high" /\ OverPaddle(items[s].x)
             downs == (IF caught THEN 1 ELSE 0) + (IF y = "out" THEN 1 ELSE 0)
  <2>2. caught \in BOOLEAN /\ downs \in 0 .. 2
        /\ (caught \/ y = "out" => downs >= 1)
    BY DEF OverPaddle
  <2>3. /\ IF caught THEN ApplyItemEffect(items[s].type)
           ELSE UNCHANGED <<balls, active_balls, lives, paddle_width>>
        /\ items' = [items EXCEPT ![s] =
             IF caught \/ y = "out" THEN NoItem
             ELSE [items[s] EXCEPT !.low = (y = "low")]]
        /\ active_items' = active_items - downs
    BY <2>1, <1>1
  <2> HIDE DEF caught, downs
  <2> QED
    BY <2>2, <2>3
<1>3. /\ balls' \subseteq BallIds /\ active_balls' \in 0 .. MaxBalls
      /\ BallsCounted' /\ (balls = {} <=> balls' = {})
      /\ lives' \in 0 .. MaxLives /\ lives' >= lives
      /\ paddle_width' \in {0, PADDLE_WIDTH, ExtendedWidth}
  <2>1. CASE caught
    BY <1>2, <2>1, EffectSound
  <2>2. CASE ~caught
    BY <1>2, <2>2, BreakoutAssumption DEF Inv, TypeOK, BallsCounted
  <2> QED
    BY <2>1, <2>2
<1>4. ItemSlots \in SUBSET Slots /\ IsFiniteSet(ItemSlots)
      /\ Cardinality(ItemSlots) \in Nat /\ active_items \in Int
  BY SlotsFinite DEF ItemSlots, Inv, TypeOK
<1>5. CASE caught \/ y = "out"
  <2>1. items' = [items EXCEPT ![s] = NoItem]
        /\ active_items' = active_items - downs /\ downs >= 1
    BY <1>2, <1>5
  <2>2. ItemSlots' = ItemSlots \ {s}
    BY <1>1, <2>1 DEF ItemSlots
  <2>3. Cardinality(ItemSlots') = Cardinality(ItemSlots) - 1
    BY <1>4, <2>2, FS_RemoveElement
  <2>4. items' \in [Slots -> Items \cup {NoItem}]
    BY <1>1, <2>1
  <2>5. active_items' \in Int /\ ItemsCounted'
    BY <1>4, <2>1, <2>3 DEF Inv, ItemsCounted
  <2> QED
    BY <1>3, <2>4, <2>5
<1>6. CASE ~(caught \/ y = "out")
  <2> DEFINE r == [items[s] EXCEPT !.low = (y = "low")]
  <2>1. r \in Items
    BY <1>1 DEF Items
  <2>2. items' = [items EXCEPT ![s] = r] /\ active_items' = active_items - downs
    BY <1>2, <1>6
  <2> HIDE DEF r
  <2>3. items' \in [Slots -> Items \cup {NoItem}]
    BY <1>1, <2>1, <2>2
  <2>4. ItemSlots' = ItemSlots
    BY <1>1, <2>1, <2>2, NoItemApart DEF ItemSlots
  <2>5. active_items' \in Int /\ ItemsCounted'
    BY <1>4, <2>2, <2>4 DEF Inv, ItemsCounted
  <2> QED
    BY <1>3, <2>3, <2>5
<1> QED
  BY <1>5, <1>6

LEMMA MoveItemInv == Inv /\ MoveItem => Inv'
<1> SUFFICES ASSUME Inv, MoveItem PROVE Inv'
  OBVIOUS
<1>1. /\ at = "items"
      /\ UNCHANGED <<screen, game_running, level, score, bricks, paddle_x,
                     reports>>
  BY DEF MoveItem
<1>2. CASE ItemsAhead = {}
  BY <1>1, <1>2
  DEF MoveItem, Inv, TypeOK, BallsCounted, ItemsCounted, ItemSlots, Play, Played,
      Standing, ReportSound
<1>3. CASE ItemsAhead # {}
  <2>1. \A s \in ItemSlots : s \in Nat
    BY BreakoutAssumption DEF ItemSlots, Slots
  <2>2. Least(ItemsAhead) \in ItemsAhead
    <3>1. ItemsAhead \subseteq Nat
      BY <2>1 DEF ItemsAhead
    <3> QED
      BY <1>3, <3>1, LeastElement
  <2>3. PICK s \in ItemSlots : s = Least(ItemsAhead)
    BY <2>2 DEF ItemsAhead
  <2>4. next' = s + 1 /\ at' = "items" /\ DropItem(s)
    BY <1>1, <1>3, <2>3 DEF MoveItem
  <2>5. next' \in Nat
    BY <2>1, <2>4
  <2>6. /\ balls' \subseteq BallIds /\ active_balls' \in 0 .. MaxBalls
        /\ BallsCounted' /\ (balls = {} <=> balls' = {})
        /\ lives' \in 0 .. MaxLives /\ lives' >= lives
        /\ paddle_width' \in {0, PADDLE_WIDTH, ExtendedWidth}
        /\ items' \in [Slots -> Items \cup {NoItem}]
        /\ active_items' \in Int /\ ItemsCounted'
    BY <2>4, DropItemSound
  <2>7. TypeOK'
    BY <1>1, <2>4, <2>5, <2>6 DEF Inv, TypeOK
  <2>8. lives \in Nat /\ lives' \in Nat
    BY <2>6, BreakoutAssumption DEF Inv, TypeOK
  <2>9. Play' /\ ReportSound'
    BY <1>1, <2>4, <2>6, <2>8 DEF Inv, Play, Played, Standing, ReportSound
  <2> QED
    BY <2>6, <2>7, <2>9 DEF Inv
<1> QED
  BY <1>2, <1>3

LEMMA EndOfFrameInv == Inv /\ EndOfFrame => Inv'
<1> SUFFICES ASSUME Inv, EndOfFrame PROVE Inv'
  OBVIOUS
<1>1. at = "bricks" /\ at' = "idle" /\ next' = 0 /\ screen' = screen
  BY DEF EndOfFrame
<1>2. Played
  BY <1>1 DEF Played
<1>3. CASE Standing = {}
  <2>1. game_running /\ NextLevel
    BY <1>2, <1>3 DEF EndOfFrame, Inv, Play
  <2> QED
    BY <1>1, <2>1, NextLevelInv
<1>4. CASE Standing # {}
  <2>1. UNCHANGED <<game_running, level, lives, score, balls, active_balls,
                    bricks, items, active_items, paddle_x, paddle_width,
                    reports>>
    BY <1>4 DEF EndOfFrame
  <2>2. TypeOK' /\ BallsCounted' /\ ItemsCounted' /\ ReportSound'
    BY <1>1, <2>1
    DEF Inv, TypeOK, BallsCounted, ItemsCounted, ItemSlots, Played, ReportSound
  <2>3. Standing' = Standing
    BY <2>1 DEF Standing
  <2>4. Play'
    BY <1>1, <1>4, <2>1, <2>3 DEF Inv, Play, Played
  <2> QED
    BY <2>2, <2>4 DEF Inv
<1> QED
  BY <1>3, <1>4
-----------------------------------------------------------------------------
LEMMA InitInv == Init => Inv
<1> SUFFICES ASSUME Init PROVE Inv
  OBVIOUS
<1>1. BallsCounted /\ ItemsCounted
  <2>1. ItemSlots = {}
    BY DEF Init, ItemSlots
  <2> QED
    BY <2>1, FS_EmptySet DEF Init, BallsCounted, ItemsCounted
<1>2. TypeOK
  <2>1. 0 \in 0 .. MaxLevel /\ 0 \in 0 .. MaxLives /\ 0 \in 0 .. MaxBalls
    BY BreakoutAssumption
  <2>2. 0 \in 0 .. WINDOW_WIDTH - PADDLE_WIDTH
    BY DEF WINDOW_WIDTH, PADDLE_WIDTH
  <2>3. bricks \in [Bricks -> 0 .. 5]
    BY DEF Init
  <2>4. items \in [Slots -> Items \cup {NoItem}]
    BY DEF Init
  <2>5. reports \in [sent : Nat, last : Nat]
    BY DEF Init
  <2>6. score \in Nat /\ next \in Nat /\ active_items \in Int
    BY DEF Init
  <2>7. game_running \in BOOLEAN /\ balls \subseteq BallIds
    BY DEF Init
  <2> QED
    BY <2>1, <2>2, <2>3, <2>4, <2>5, <2>6, <2>7, Zenon DEF Init, TypeOK
<1>3. Play /\ ReportSound
  BY DEF Init, Play, Played, ReportSound
<1> QED
  BY <1>1, <1>2, <1>3 DEF Inv

LEMMA NextInv == Inv /\ [Next]_vars => Inv'
<1> SUFFICES ASSUME Inv, [Next]_vars PROVE Inv'
  OBVIOUS
<1>1. CASE Start \/ Restart \/ KeyK \/ Motion \/ Back \/ MenuShown
  BY <1>1, CallbackInv
<1>2. CASE Frame
  BY <1>2
  DEF Frame, Inv, TypeOK, BallsCounted, ItemsCounted, ItemSlots, Play, Played,
      Standing, ReportSound
<1>3. CASE MoveBall
  BY <1>3, MoveBallInv
<1>4. CASE MoveItem
  BY <1>4, MoveItemInv
<1>5. CASE EndOfFrame
  BY <1>5, EndOfFrameInv
<1>6. CASE UNCHANGED vars
  BY <1>6
  DEF vars, Inv, TypeOK, BallsCounted, ItemsCounted, ItemSlots, Play, Played,
      Standing, ReportSound
<1> QED
  BY <1>1, <1>2, <1>3, <1>4, <1>5, <1>6 DEF Next

LEMMA SpecInv == Spec => []Inv
  BY InitInv, NextInv, PTL DEF Spec

\* The arrays, counters and the paddle of brick.c stay in their ranges.
THEOREM TypeCorrect == Spec => []TypeOK
  BY SpecInv, PTL DEF Inv

\* active_balls is the number of active balls, whatever falls, respawns or is
\* added and however a frame is cut by new levels.
THEOREM BallsAreCounted == Spec => []BallsCounted
  BY SpecInv, PTL DEF Inv

\* A running game has a ball, a life and, between frames, a brick.
THEOREM GameGoesOn == Spec => []GameCanGoOn
<1>1. Inv => GameCanGoOn
  BY DEF Inv, Play, Played, GameCanGoOn
<1> QED
  BY <1>1, SpecInv, PTL

\* A game on the screen has sent its score exactly once when it is lost, no game
\* does while it runs, on the screen or behind the menu, and none scores after it
\* was lost.
THEOREM LostGameIsReported == Spec => []LostGameReported
<1>1. Inv => LostGameReported
  BY DEF Inv, ReportSound, Played, LostGameReported
<1> QED
  BY <1>1, SpecInv, PTL

\* spawn_item is never turned away by its counter while a slot is free.
THEOREM SpawnAlwaysFinds == Spec => []SpawnFindsFreeSlot
<1>1. Inv => SpawnFindsFreeSlot
  <2> SUFFICES ASSUME Inv, active_items >= MaxItems PROVE ItemSlots = Slots
    BY DEF SpawnFindsFreeSlot
  <2>1. ItemSlots \in SUBSET Slots
    BY DEF ItemSlots
  <2>2. Cardinality(ItemSlots) \in Nat /\ Cardinality(ItemSlots) >= MaxItems
    BY <2>1, SlotsFinite, BreakoutAssumption DEF Inv, TypeOK, ItemsCounted
  <2> QED
    BY <2>1, <2>2, SlotsFinite
<1> QED
  BY <1>1, SpecInv, PTL
=============================================================================
