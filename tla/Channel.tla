------------------------------- MODULE Channel -------------------------------
(***************************************************************************)
(* A channel from handshake to records: once two attempts hold each        *)
(* other's keys, their record layers start (EstablishedSession), and what  *)
(* one end seals may be paced by cover traffic (crates/core/examples/      *)
(* echo.rs; crates/dp, "pad first, then seal the padded bytes").  Sealed   *)
(* sender needs no channel: it runs in the place of the handshake.         *)
(***************************************************************************)
EXTENDS Transport, CoverTraffic, SealedSender

CONSTANT PacedDir  \* the direction in which records may be paced

ASSUME PacedDirAssumption == PacedDir \in Dirs

VARIABLE mode  \* "handshake", then "records" or "paced"

channelVars == <<vars, pacingVars, handshakeVars, sealedVars, mode>>

ChannelInit ==
  /\ Init /\ PacingIdle /\ HandshakeInit /\ SealedInit
  /\ mode = "handshake"

Handshaking ==
  /\ mode = "handshake" /\ issued = {}
  /\ HandshakeNext
  /\ UNCHANGED <<vars, pacingVars, sealedVars, mode>>

\* Each end has a Sender and a Receiver at number zero; the handshake is over.
BeginRecords ==
  /\ mode = "handshake"
  /\ \E i \in Initiators, r \in Responders :
       /\ Waiting(i, "established") /\ Waiting(r, "established")
       /\ Mirrored(attempts[i].keys, attempts[r].keys)
  /\ attempts' = << >> /\ msg1s' = {} /\ msg2s' = {} /\ msg3s' = {}
  /\ \/ mode' = "records" /\ UNCHANGED pacingVars
     \/ mode' = "paced" /\ NewScheduler
  /\ UNCHANGED <<vars, sealedVars>>

Records ==
  /\ mode = "records" /\ Next
  /\ UNCHANGED <<pacingVars, handshakeVars, sealedVars, mode>>

\* What a slot sends, real or dummy, is sealed; enqueueing sends nothing.
PacedSlot ==
  /\ Tick
  /\ IF SlotOutput.kind = "Silent" THEN UNCHANGED vars ELSE Seal(PacedDir)

Paced ==
  /\ mode = "paced"
  /\ \/ PacedSlot
     \/ (\E text \in Messages : Enqueue(text)) /\ UNCHANGED vars
  /\ UNCHANGED <<handshakeVars, sealedVars, mode>>

Sealing ==
  /\ mode = "handshake" /\ attempts = << >> /\ SealedNext
  /\ UNCHANGED <<vars, pacingVars, handshakeVars, mode>>

ChannelNext == Handshaking \/ BeginRecords \/ Records \/ Paced \/ Sealing

ChannelSpec == ChannelInit /\ [][ChannelNext]_channelVars
=============================================================================
