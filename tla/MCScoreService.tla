--------------------------- MODULE MCScoreService ---------------------------
(* ScoreService on small sets, for TLC. *)
EXTENDS ScoreService, TLC

CONSTANTS r1, r2, r3, ann, bob

\* Handlers are interchangeable slots.
MCSymmetry == Permutations(Handlers)

MCSchemas == AllSchemas

\* A foreign key, no NULL owners.
MCStrictSchema == {[key |-> "user_id", nullable |-> FALSE, onDelete |-> "restrict"]}

=============================================================================
