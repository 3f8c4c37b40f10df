----------------------------- MODULE MCTttRoom -----------------------------
(* TttRoom on small sets, for TLC. *)
EXTENDS TttRoom, TLC

CONSTANTS s1, s2, s3, u1, u2, u3, lobby, den, c1, c2, c3

MCSymmetry == Permutations(Sockets) \cup Permutations(Users) \cup Permutations(Rooms)
              \cup Permutations(Cells)

=============================================================================
