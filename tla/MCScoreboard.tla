---------------------------- MODULE MCScoreboard ----------------------------
(* Scoreboard on small sets, for TLC.  The name annlong is too long and cut to *)
(* that of ann.                                                              *)
EXTENDS Scoreboard

CONSTANTS ann, bob, annlong

MCCut == [n \in Names |-> IF n = annlong THEN ann ELSE n]

\* Bounds: bob and annlong play in different behaviours, and one game at a time
\* is left behind the screens.
MCBound ==
  /\ ~({bob, annlong} \subseteq accounts \cup erased \cup {player, accepted})
  /\ Cardinality(running) + moves <= 1
=============================================================================
