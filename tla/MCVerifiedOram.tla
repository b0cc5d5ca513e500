--------------------------- MODULE MCVerifiedOram ---------------------------
(* VerifiedOram for TLC: ids are interchangeable, and so are values. *)
EXTENDS VerifiedOram, TLC

Symmetric == Permutations(Ids) \cup Permutations(Values)
=============================================================================
