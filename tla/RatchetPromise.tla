--------------------------- MODULE RatchetPromise ----------------------------
(***************************************************************************)
(* What a pair of ratcheted sessions promises, with no chains, records or  *)
(* chunks: each payload is handed to the peer's caller at most once and    *)
(* only if it was sealed, and both peers walk one lineage of step secrets, *)
(* never more than one step apart.  A peer that is ahead takes no further  *)
(* step before the other has followed.                                     *)
(***************************************************************************)
EXTENDS Integers, Sequences

CONSTANTS Initiator, Responder

VARIABLES
  lineage,  \* the step secrets agreed so far
  at,       \* at[p]: how many of them p has mixed in, its epoch
  root,     \* root[p]: the secrets p has mixed in
  sealed,   \* sealed[p]: number of payloads p has sealed
  log       \* log[p]: the payloads p's caller was handed, <<sender, number>>

Parties == {Initiator, Responder}
Other(p) == IF p = Initiator THEN Responder ELSE Initiator
Handed(p) == {log[p][i] : i \in 1 .. Len(log[p])}

Init ==
  /\ lineage = <<>>
  /\ at = [p \in Parties |-> 0]
  /\ root = [p \in Parties |-> <<>>]
  /\ sealed = [p \in Parties |-> 0]
  /\ log = [p \in Parties |-> <<>>]

Seal(p) ==
  /\ sealed' = [sealed EXCEPT ![p] = @ + 1]
  /\ UNCHANGED <<lineage, at, root, log>>

Deliver(p) ==
  /\ \E n \in 1 .. sealed[Other(p)] :
       /\ <<Other(p), n>> \notin Handed(p)
       /\ log' = [log EXCEPT ![p] = Append(@, <<Other(p), n>>)]
  /\ UNCHANGED <<lineage, at, root, sealed>>

\* The responder of a step mixes its secret in first.
Extend(p) ==
  /\ at[p] = Len(lineage) /\ at[Other(p)] = Len(lineage)
  /\ Len(lineage') = Len(lineage) + 1
  /\ SubSeq(lineage', 1, Len(lineage)) = lineage
  /\ at' = [at EXCEPT ![p] = @ + 1]
  /\ root' = [root EXCEPT ![p] = lineage']
  /\ UNCHANGED <<sealed, log>>

\* Its initiator follows, on the same secret.
Follow(p) ==
  /\ at[p] + 1 = Len(lineage)
  /\ at' = [at EXCEPT ![p] = @ + 1]
  /\ root' = [root EXCEPT ![p] = lineage]
  /\ UNCHANGED <<lineage, sealed, log>>

Next == \E p \in Parties : Seal(p) \/ Deliver(p) \/ Extend(p) \/ Follow(p)

Spec == Init /\ [][Next]_<<lineage, at, root, sealed, log>>
=============================================================================
