------------------------------ MODULE Breakout ------------------------------
(***************************************************************************)
(* The game of games/brick.c.  GTK runs one callback at a time: start,     *)
(* restart, back, the mouse, the K key and, every 16 ms, update_game.  The *)
(* loops of update_game are steps of their own, in their order, and no     *)
(* other callback runs before the frame is over.  All of this may happen   *)
(* in the main loop that a key handler of 2048 runs, which then shows the  *)
(* menu.                                                                   *)
(*                                                                         *)
(* Positions are abstracted to what a frame can find out: a ball flies on, *)
(* falls below the screen or hits a standing brick, and an item keeps the  *)
(* column of its brick and is high, low (level with the paddle) or gone.   *)
(* A ball below the screen is far from every brick, so it does not hit one *)
(* in that frame.  The bounces, and the speed and the angle of a ball, are *)
(* left out; so is paddle_extend_time, which is never read.                *)
(***************************************************************************)
EXTENDS Integers, FiniteSets

CONSTANTS
  MaxBalls,      \* length of balls, 10 in brick.c
  MaxItems,      \* length of items, 20
  StartLives,    \* 3
  MaxLives,      \* 5
  Bricks,        \* <<row, column>> of the bricks of the wall
  MouseX,        \* bound: the x of a motion event
  MaxLevel       \* bound: the last brick of this level is not broken

ASSUME BreakoutAssumption ==
  /\ MaxBalls \in Nat \ {0} /\ MaxItems \in Nat
  /\ StartLives \in 1 .. MaxLives /\ MaxLives \in Nat
  /\ Bricks # {} /\ Bricks \subseteq Nat \X Nat
  /\ MouseX \subseteq Int
  /\ MaxLevel \in Nat \ {0}

WINDOW_WIDTH == 1000
PADDLE_WIDTH == 100
ExtendedWidth == (PADDLE_WIDTH * 3) \div 2

BallIds == 0 .. MaxBalls - 1
Slots == 0 .. MaxItems - 1
ItemTypes == {"extend", "multi", "life"}
\* The middle of a brick's column, where its item falls.
CenterX(b) == 72 + 85 * b[2] + 45
NoItem == [type |-> "none", x |-> 0, low |-> FALSE]
Items == [type : ItemTypes, x : {CenterX(b) : b \in Bricks}, low : BOOLEAN]

VARIABLES
  screen,        \* the visible child of the stack
  game_running,
  level, lives, score,
  balls,         \* the balls that are active
  active_balls,
  bricks,        \* durability left of each brick
  items,         \* the item of each slot, or NoItem
  active_items,
  paddle_x, paddle_width,
  at,            \* the loop update_game is in, "idle" between callbacks
  next           \* the index that loop looks at next

\* The scores sent since the game began; no callback reads it.
VARIABLE reports

frame == <<at, next>>
vars == <<screen, game_running, level, lives, score, balls, active_balls,
          bricks, items, active_items, paddle_x, paddle_width, at, next,
          reports>>

Standing == {b \in Bricks : bricks[b] > 0}
ItemSlots == {s \in Slots : items[s] # NoItem}
Least(S) == CHOOSE i \in S : \A j \in S : i <= j

AtMost(a, b) == IF a <= b THEN a ELSE b
AtLeast(a, b) == IF a >= b THEN a ELSE b

TypeOK ==
  /\ screen \in {"menu", "breakout"} /\ game_running \in BOOLEAN
  /\ level \in 0 .. MaxLevel /\ lives \in 0 .. MaxLives /\ score \in Nat
  /\ balls \subseteq BallIds /\ active_balls \in 0 .. MaxBalls
  /\ bricks \in [Bricks -> 0 .. 5]
  /\ items \in [Slots -> Items \cup {NoItem}] /\ active_items \in Int
  /\ paddle_x \in 0 .. WINDOW_WIDTH - PADDLE_WIDTH
  /\ paddle_width \in {0, PADDLE_WIDTH, ExtendedWidth}
  /\ at \in {"idle", "balls", "items", "bricks"} /\ next \in Nat
  /\ reports \in [sent : Nat, last : Nat]
-----------------------------------------------------------------------------
(***************************************************************************)
(* init_game: a fresh wall for level n.                                    *)
(***************************************************************************)
Durability(n) ==
  IF n = 1 THEN 1 .. 2
  ELSE AtLeast(1, AtMost(3, n \div 2)) .. AtMost(5, n + 1)

\* Mutant: the balls of the level before stay in play.
ServeAnotherBall == balls' = balls \cup {0} /\ active_balls' = 1
ServeBall == balls' = {0} /\ active_balls' = 1

\* Mutant: the counter survives the items.
ClearSlots == items' = [s \in Slots |-> NoItem] /\ UNCHANGED active_items
ClearItems == items' = [s \in Slots |-> NoItem] /\ active_items' = 0

InitGame(n) ==
  /\ level' = n /\ game_running' = TRUE /\ lives' = StartLives
  /\ bricks' \in [Bricks -> Durability(n)]
  /\ ServeBall
  /\ ClearItems
  /\ paddle_x' = (WINDOW_WIDTH - PADDLE_WIDTH) \div 2
  /\ paddle_width' = PADDLE_WIDTH

\* level = 0 before init_game: it resets the score and makes the level 1.
NewGame ==
  InitGame(1) /\ score' = 0 /\ reports' = [sent |-> 0, last |-> 0]
NextLevel ==
  level < MaxLevel /\ InitGame(level + 1) /\ UNCHANGED <<score, reports>>
-----------------------------------------------------------------------------
(***************************************************************************)
(* The callbacks of the widgets.                                           *)
(***************************************************************************)
Start == at = "idle" /\ screen = "menu" /\ screen' = "breakout"
         /\ NewGame /\ UNCHANGED frame

Restart == at = "idle" /\ screen = "breakout"
           /\ NewGame /\ UNCHANGED <<screen, frame>>

\* The K key.
KeyK == at = "idle" /\ screen = "breakout" /\ game_running
        /\ NextLevel /\ UNCHANGED <<screen, frame>>

Motion ==
  /\ at = "idle" /\ screen = "breakout"
  /\ \E x \in MouseX :
       paddle_x' = AtMost(WINDOW_WIDTH - PADDLE_WIDTH,
                          AtLeast(0, x - PADDLE_WIDTH \div 2))
  /\ UNCHANGED <<screen, game_running, level, lives, score, balls,
                 active_balls, bricks, items, active_items, paddle_width,
                 frame, reports>>

Back ==
  /\ at = "idle" /\ screen = "breakout"
  /\ screen' = "menu" /\ game_running' = FALSE
  /\ UNCHANGED <<level, lives, score, balls, active_balls, bricks, items,
                 active_items, paddle_x, paddle_width, frame, reports>>

\* The handler of a 2048 key that was pressed before this game began goes on and
\* shows the menu; the game runs on behind it.
MenuShown ==
  /\ at = "idle" /\ screen = "breakout"
  /\ screen' = "menu"
  /\ UNCHANGED <<game_running, level, lives, score, balls, active_balls, bricks,
                 items, active_items, paddle_x, paddle_width, frame, reports>>
-----------------------------------------------------------------------------
(***************************************************************************)
(* update_game.                                                            *)
(***************************************************************************)
\* The timer fires.  Without a running game the callback does nothing.
Frame ==
  /\ at = "idle" /\ game_running
  /\ at' = "balls" /\ next' = 0
  /\ UNCHANGED <<screen, game_running, level, lives, score, balls,
                 active_balls, bricks, items, active_items, paddle_x,
                 paddle_width, reports>>

\* Active balls the loop has not looked at.
Ahead == {i \in balls : i >= next}
ItemsAhead == {s \in ItemSlots : s >= next}

Fly == UNCHANGED <<game_running, lives, score, balls, active_balls, bricks,
                   items, active_items, reports>>

\* The last ball is down.  Mutant: < 0 for <= 0.
LosesBelowZero(n) == n < 0
Loses(n) == n <= 0

Fall(i) ==
  /\ IF active_balls - 1 # 0
     THEN /\ balls' = balls \ {i} /\ active_balls' = active_balls - 1
          /\ UNCHANGED <<game_running, lives, reports>>
     ELSE /\ lives' = lives - 1
          /\ IF Loses(lives - 1)
             THEN /\ game_running' = FALSE
                  /\ reports' = [sent |-> reports.sent + 1, last |-> score]
                  /\ balls' = balls \ {i} /\ active_balls' = 0
             ELSE /\ balls' = (balls \ {i}) \cup {0} /\ active_balls' = 1
                  /\ UNCHANGED <<game_running, reports>>
  /\ UNCHANGED <<score, bricks, items, active_items>>

SpawnItem(b) ==
  IF active_items >= MaxItems \/ ItemSlots = Slots
  THEN UNCHANGED <<items, active_items>>
  ELSE /\ \E t \in ItemTypes :
            items' = [items EXCEPT ![Least(Slots \ ItemSlots)] =
                        [type |-> t, x |-> CenterX(b), low |-> FALSE]]
       /\ active_items' = active_items + 1

\* original_durability is 1 when the brick breaks.  An item drops from three
\* hits in ten.
Hit ==
  \E b \in Standing :
    /\ level < MaxLevel \/ Standing # {b} \/ bricks[b] > 1
    /\ bricks' = [bricks EXCEPT ![b] = @ - 1]
    /\ score' = score + (IF bricks[b] = 1 THEN 10 ELSE 5)
    /\ SpawnItem(b) \/ UNCHANGED <<items, active_items>>
    /\ UNCHANGED <<game_running, lives, balls, active_balls, reports>>

MoveBall ==
  /\ at = "balls"
  /\ IF Ahead = {}
     THEN at' = "items" /\ next' = 0 /\ Fly
     ELSE LET i == Least(Ahead)
          IN next' = i + 1 /\ at' = at /\ (Fly \/ Fall(i) \/ Hit)
  /\ UNCHANGED <<screen, level, paddle_x, paddle_width>>

\* add_new_ball copies the first active ball into a free place; without an
\* active ball there is nothing to copy.  Mutant: the ball is not counted.
AddUncountedBall ==
  IF active_balls >= MaxBalls \/ balls = {} \/ balls = BallIds
  THEN UNCHANGED <<balls, active_balls>>
  ELSE balls' = balls \cup {Least(BallIds \ balls)} /\ UNCHANGED active_balls
AddNewBall ==
  IF active_balls >= MaxBalls \/ balls = {} \/ balls = BallIds
  THEN UNCHANGED <<balls, active_balls>>
  ELSE /\ balls' = balls \cup {Least(BallIds \ balls)}
       /\ active_balls' = active_balls + 1

\* Mutant: without the limit.
OneMore(n) == n + 1
ExtraLife(n) == IF n < MaxLives THEN n + 1 ELSE n

ApplyItemEffect(type) ==
  \/ /\ type = "extend" /\ paddle_width' = ExtendedWidth
     /\ UNCHANGED <<balls, active_balls, lives>>
  \/ type = "multi" /\ AddNewBall /\ UNCHANGED <<paddle_width, lives>>
  \/ /\ type = "life" /\ lives' = ExtraLife(lives)
     /\ UNCHANGED <<balls, active_balls, paddle_width>>

OverPaddle(x) == paddle_x <= x /\ x <= paddle_x + paddle_width

\* An item falls: it stays high, gets or stays low, or leaves the screen.  At
\* the bottom it is caught and lost in one frame when the paddle comes under
\* it in that frame, and counted down for both.
DropItem(s) ==
  \E y \in (IF items[s].low THEN {"low", "out"} ELSE {"high", "low"}) :
    LET caught == y # "high" /\ OverPaddle(items[s].x)
        gone == caught \/ y = "out"
        downs == (IF caught THEN 1 ELSE 0) + (IF y = "out" THEN 1 ELSE 0)
    IN /\ IF caught THEN ApplyItemEffect(items[s].type)
          ELSE UNCHANGED <<balls, active_balls, lives, paddle_width>>
       /\ items' = [items EXCEPT ![s] =
                      IF gone THEN NoItem ELSE [@ EXCEPT !.low = (y = "low")]]
       /\ active_items' = active_items - downs

MoveItem ==
  /\ at = "items"
  /\ IF ItemsAhead = {}
     THEN /\ at' = "bricks" /\ next' = 0
          /\ UNCHANGED <<balls, active_balls, lives, paddle_width, items,
                         active_items>>
     ELSE LET s == Least(ItemsAhead)
          IN next' = s + 1 /\ at' = at /\ DropItem(s)
  /\ UNCHANGED <<screen, game_running, level, score, bricks, paddle_x, reports>>

EndOfFrame ==
  /\ at = "bricks"
  /\ at' = "idle" /\ next' = 0 /\ UNCHANGED screen
  /\ IF Standing = {} THEN NextLevel
     ELSE UNCHANGED <<game_running, level, lives, score, balls, active_balls,
                      bricks, items, active_items, paddle_x, paddle_width,
                      reports>>
-----------------------------------------------------------------------------
\* game_state is static: all zero.
Init ==
  /\ screen = "menu" /\ game_running = FALSE
  /\ level = 0 /\ lives = 0 /\ score = 0
  /\ balls = {} /\ active_balls = 0
  /\ bricks = [b \in Bricks |-> 0]
  /\ items = [s \in Slots |-> NoItem] /\ active_items = 0
  /\ paddle_x = 0 /\ paddle_width = 0
  /\ at = "idle" /\ next = 0
  /\ reports = [sent |-> 0, last |-> 0]

Next == Start \/ Restart \/ KeyK \/ Motion \/ Back \/ MenuShown
        \/ Frame \/ MoveBall \/ MoveItem \/ EndOfFrame

Spec == Init /\ [][Next]_vars
-----------------------------------------------------------------------------
\* active_balls, which decides when a life is lost and whether add_new_ball
\* may add, is the number of active balls: through falls, respawns, added
\* balls and new levels.
BallsCounted == active_balls = Cardinality(balls)

\* A running game can go on and can end: a ball is in play, a life is left,
\* and between frames a brick stands.
GameCanGoOn ==
  game_running =>
    balls # {} /\ lives >= 1 /\ (at = "idle" => Standing # {})

\* Between callbacks, a game on the screen has sent its score exactly once
\* when it is lost, and no game has while it runs, on the screen or behind the
\* menu; what was sent is the score on display, so nothing scored after the
\* report and no lost game runs again.
LostGameReported ==
  at = "idle" /\ (screen = "breakout" \/ game_running) =>
    reports = IF game_running THEN [sent |-> 0, last |-> 0]
              ELSE [sent |-> 1, last |-> score]

\* spawn_item drops no item for a full counter while a slot is free.  The
\* counter may fall below the number of items (an item caught while it leaves
\* the screen counts twice), never above it.
SpawnFindsFreeSlot == active_items >= MaxItems => ItemSlots = Slots
=============================================================================
