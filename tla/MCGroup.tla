------------------------------- MODULE MCGroup -------------------------------
(* Group for TLC: the members that are not the founder are interchangeable. *)
EXTENDS Group, TLC

Symmetric == Permutations(Members \ {Founder})
=============================================================================
