------------------------------ MODULE MCChannel ------------------------------
(***************************************************************************)
(* The channel for TLC: two handshakes between the same two peers side by  *)
(* side, then records over a window of three, plain or paced.              *)
(***************************************************************************)
EXTENDS Channel

CONSTANTS A, B

SideBySide == [a \in 1 .. 4 |-> IF a <= 2 THEN A ELSE B]

\* Three of these fit a bucket, two of them just so; one fits none.
SomeMessages == {<< >>, <<1>>, <<1, 0, 1>>, <<0, 0, 0, 0>>}
=============================================================================
