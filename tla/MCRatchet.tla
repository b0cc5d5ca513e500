------------------------------ MODULE MCRatchet ------------------------------
(* Instances of Ratchet for TLC. *)
EXTENDS Ratchet

MCSplits == {<<1, 1>>, <<2, 1>>}
MCNoSplits == {}

\* One chatty peer: enough records on a chain for skips to add up.
MCChatty == [p \in Parties |-> IF p = Initiator THEN 3 ELSE 1]
MCTwoEach == [p \in Parties |-> 2]
MCSilent == [p \in Parties |-> 0]
=============================================================================
