------------------------------ MODULE MCSessions ------------------------------
(***************************************************************************)
(* The ways to a session for TLC.  Two peers that are both there shake     *)
(* hands (Channel); towards an account whose devices are offline a sender  *)
(* starts sessions from prekey bundles (MultiDevice).  A behaviour is of   *)
(* one kind or the other: the two share no state.                          *)
(***************************************************************************)
EXTENDS MCChannel, MCMultiDevice

NoHandshake == mode = "handshake" /\ attempts = << >> /\ issued = {} /\ now = 0

SessionsInit == ChannelInit /\ DevicesInit

SessionsNext ==
  \/ calls = 0 /\ ChannelNext /\ UNCHANGED deviceVars
  \/ NoHandshake /\ DevicesNext /\ UNCHANGED channelVars

SessionsSpec == SessionsInit /\ [][SessionsNext]_<<channelVars, deviceVars>>
=============================================================================
