------------------------------- MODULE MCOram -------------------------------
(***************************************************************************)
(* The Path ORAM client for TLC, with and without the encryption layer:    *)
(* ids are interchangeable, and so are values.                             *)
(***************************************************************************)
EXTENDS SealedOram

Symmetric == Permutations(Ids) \cup Permutations(Values)

\* One value has no bytes, the other only the byte that padding has.
EmptyAndZero == {<<>>, <<0>>}
=============================================================================
