------------------------------ MODULE KeyValue ------------------------------
(***************************************************************************)
(* What an ORAM client promises its caller, whatever it does to storage    *)
(* underneath: a map from block ids to values.  An access answers with the *)
(* value the last write of that id left, and a write changes that id only. *)
(* An Option is a set with at most one element.                            *)
(***************************************************************************)
CONSTANTS Ids, Values

VARIABLES
  store,  \* store[id]: the value of id, {} when it was never written
  reply   \* the last access and what it answered

Init ==
  /\ store = [id \in Ids |-> {}]
  /\ reply = <<>>

\* read (new = {}) or write (new = {value}).
Access(id, new) ==
  /\ reply' = <<id, store[id]>>
  /\ store' = IF new = {} THEN store ELSE [store EXCEPT ![id] = new]

Next == \E id \in Ids : Access(id, {}) \/ \E v \in Values : Access(id, {v})

vars == <<store, reply>>

Spec == Init /\ [][Next]_vars
=============================================================================
