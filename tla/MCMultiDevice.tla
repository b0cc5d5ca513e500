---------------------------- MODULE MCMultiDevice ----------------------------
(***************************************************************************)
(* MultiDevice for TLC: two devices go by the same id, one replacing the   *)
(* other; a third has its own.                                             *)
(***************************************************************************)
EXTENDS MultiDevice, TLC

CONSTANTS phone, newphone, laptop, k

Ids12 == {1, 2}
SameId == phone :> 1 @@ newphone :> 1 @@ laptop :> 2
\* The second list replaces the phone and drops the laptop.
PhoneReplaced == <<{phone, laptop}, {newphone}>>
\* The laptop has run out of one-time prekeys.
OnPhones == phone :> {k} @@ newphone :> {k} @@ laptop :> {}
=============================================================================
