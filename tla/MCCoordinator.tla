---------------------------- MODULE MCCoordinator ----------------------------
(***************************************************************************)
(* Key generation with its complaint round and the coordinator beside it,  *)
(* for TLC: three participants, threshold two, the integers modulo 5.      *)
(***************************************************************************)
EXTENDS Coordinator

\* Dealer 3 may broadcast the commitments of its other polynomial: the two agree
\* at participant 1, which finds nothing wrong with its share.
TwoDraws == {<< <<1, 2>>, <<3, 0>>, <<2, 1>> >>, << <<4, 4>>, <<1, 3>>, <<1, 2>> >>}
FirstToSecond == {<<1, 2>>}
\* One names id 0; one comes in the name of the participant whose share is altered
\* and claims the right share of one of dealer 1's polynomials.
Lies == {[accuser |-> 0, dealer_index |-> 1, received_share |-> 0],
         [accuser |-> 2, dealer_index |-> 1, received_share |-> 0]}
=============================================================================
