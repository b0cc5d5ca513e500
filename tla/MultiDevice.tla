----------------------------- MODULE MultiDevice -----------------------------
(***************************************************************************)
(* Multi-device sessions of novachannel (crates/core/src/multidevice.rs):  *)
(* sending devices, each with a MultiDeviceSession towards one account,    *)
(* and the account's ReceivingDevices.  The account issues numbered device *)
(* lists; a device may be replaced by another one under the same id.  The  *)
(* prekey server may serve a one-time prekey to several senders, or after  *)
(* it was used.  The network loses, repeats, delays and misroutes.         *)
(*                                                                         *)
(* Abstractions.  A RatchetedSession (module Ratchet) appears by what it   *)
(* promises: a receiver opens each record sealed under its secret, once;   *)
(* gaps of more than MAX_SKIPPED_KEYS records are left to that module.     *)
(* The account's signature is ideal: a list is one the account issued.     *)
(***************************************************************************)
EXTENDS X3dh, Sequences

CONSTANTS
  Ids,         \* DeviceIds, numbers: maps keyed by them iterate in order
  IdOf,        \* the id a receiving device goes by
  Signed,      \* senders that sync from signed device lists only
  NoSession,
  Lists,       \* Lists[v]: the devices on version v of the signed list
  PreKeys,     \* PreKeys[d]: the one-time prekeys d was built with
  Faulty,      \* devices whose bundles may be unusable
  MaxCalls,    \* bound on the sync calls of all senders
  MaxRecords   \* bound on the records of a session

ASSUME IdsAssumption == Ids \subseteq Nat /\ IdOf \in [Devices -> Ids]
ASSUME PreKeysAssumption == PreKeys \in [Devices -> SUBSET PreKeyIds]
\* An account gives one entry to an id.
ASSUME ListsAssumption ==
  /\ Lists \in Seq(SUBSET Devices)
  /\ \A v \in DOMAIN Lists : \A d, e \in Lists[v] : IdOf[d] = IdOf[e] => d = e
ASSUME SignedAssumption == Signed \subseteq Senders

VARIABLES
  store,       \* store[d]: d's OneTimePreKeyStore
  session,     \* session[s][i]: s's RatchetedSession with device id i
  last_seen,   \* last_seen[s]: last_seen_device_list_version, 0 for None
  calls,       \* sync calls made, which keep ephemeral keys apart
  sent,        \* init messages that sync calls returned
  records,     \* records fanned out
  live,        \* live[d][s]: d's session with s
  established, \* history: established[d], secrets respond has derived
  handed,      \* history: records whose payload was handed over
  again        \* history: those handed over more than once

senders == <<session, last_seen, calls, sent>>
receivers == <<store, live, established>>
deviceVars == <<senders, records, receivers, handed, again>>

IdsOn(list) == {IdOf[d] : d \in list}

\* RemoteAccount: bundles by device id.
RemoteAccounts ==
  LET Offered(i) == {b \in Bundles : /\ IdOf[b.device] = i
                                     /\ b.opk \in PreKeys[b.device] \cup {NoPreKey}
                                     /\ b.device \in Faulty \/ b.fault = "none"}
  IN UNION {{r \in [I -> UNION {Offered(i) : i \in I}] : \A i \in I : r[i] \in Offered(i)} : I \in SUBSET Ids}

DevicesInit ==
  /\ store = PreKeys
  /\ session = [s \in Senders |-> [i \in Ids |-> NoSession]]
  /\ last_seen = [s \in Senders |-> 0]
  /\ calls = 0
  /\ sent = {}
  /\ records = {}
  /\ live = [d \in Devices |-> [s \in Senders |-> NoSession]]
  /\ established = [d \in Devices |-> {}]
  /\ handed = {}
  /\ again = {}

-----------------------------------------------------------------------------
\* A sender.

\* sync_devices goes through the ids without a session in order and returns
\* at the first bundle it cannot use, so that it makes the sessions before.
Needed(kept, remote) == {i \in DOMAIN remote : kept[i] = NoSession}

UnusableBundles(kept, remote) ==
  {i \in Needed(kept, remote) : ~ (Verifies(remote[i]) /\ KeysContribute(remote[i]))}

Made(kept, remote) ==
  {i \in Needed(kept, remote) : \A j \in UnusableBundles(kept, remote) : i < j}

\* sync_devices, over the sessions kept: those made stay when a later bundle
\* fails, but the init messages are returned only if none does.
SyncDevices(s, kept, remote) ==
  LET made == Made(kept, remote)
      message(i) == InitMessage(s, <<calls, i>>, remote[i])
  IN /\ calls < MaxCalls
     /\ calls' = calls + 1
     /\ session' = [session EXCEPT ![s] =
                      [i \in Ids |-> IF i \in made THEN [secret |-> message(i).sealed, sealed |-> 0]
                                     ELSE kept[i]]]
     /\ sent' = IF UnusableBundles(kept, remote) = {} THEN sent \cup {message(i) : i \in made} ELSE sent

\* sync_devices called with a RemoteAccount put together by add_device.
SyncUnsigned(s) ==
  /\ s \notin Signed
  /\ \E remote \in RemoteAccounts : SyncDevices(s, session[s], remote)
  /\ UNCHANGED <<last_seen, records, receivers, handed, again>>

Newer_Any(s, v) == TRUE  \* faulty variant

Newer(s, v) == v > last_seen[s]

\* from_signed_device_list: every bundle is the listed device's, and verifies.
Authorized(list, remote) ==
  \A i \in DOMAIN remote : remote[i].device \in list /\ Verifies(remote[i])

Kept_All(s, list) == session[s]  \* faulty variant

\* Sessions with ids that the list drops are revoked.
Kept(s, list) == [i \in Ids |-> IF i \in IdsOn(list) THEN session[s][i] ELSE NoSession]

\* sync_from_signed_device_list: revocations stay when sync_devices fails, the
\* version is recorded only if it does not.
SyncSigned(s) ==
  /\ s \in Signed
  /\ \E v \in DOMAIN Lists, remote \in RemoteAccounts :
       LET kept == Kept(s, Lists[v])
       IN /\ Newer(s, v)
          /\ Authorized(Lists[v], remote)
          /\ SyncDevices(s, kept, remote)
          /\ last_seen' = IF UnusableBundles(kept, remote) = {} THEN [last_seen EXCEPT ![s] = v] ELSE last_seen
  /\ UNCHANGED <<records, receivers, handed, again>>

\* revoke_device.
RevokeDevice(s, i) ==
  /\ session[s][i] # NoSession
  /\ session' = [session EXCEPT ![s][i] = NoSession]
  /\ UNCHANGED <<last_seen, calls, sent, records, receivers, handed, again>>

Reached(s) == {i \in Ids : session[s][i] # NoSession}

\* RatchetedSession::seal.
Advanced(on) == [on EXCEPT !.sealed = @ + 1]

\* fan_out: one record under every session.
FanOut(s) ==
  /\ Reached(s) # {}
  /\ \A i \in Reached(s) : session[s][i].sealed < MaxRecords
  /\ records' = records \cup {[secret |-> session[s][i].secret, num |-> session[s][i].sealed] : i \in Reached(s)}
  /\ session' = [session EXCEPT ![s] =
                   [i \in Ids |-> IF i \in Reached(s) THEN Advanced(session[s][i]) ELSE NoSession]]
  /\ UNCHANGED <<last_seen, calls, sent, receivers, handed, again>>

-----------------------------------------------------------------------------
\* A receiving device.

\* receive_init: respond, and the session takes the place of the one on file.
ReceiveInit(d, m) ==
  /\ Found(store[d], m)
  /\ store' = [store EXCEPT ![d] = Remaining(@, d, m)]
  /\ IF Genuine(d, m)
     THEN /\ live' = [live EXCEPT ![d][m.ik] = [secret |-> m.sealed, opened |-> {}]]
          /\ established' = [established EXCEPT ![d] = @ \cup {m.sealed}]
     ELSE UNCHANGED <<live, established>>
  /\ UNCHANGED <<senders, records, handed, again>>

\* RatchetedSession::open.
Opens(s, d, r) ==
  /\ live[d][s] # NoSession
  /\ live[d][s].secret = r.secret
  /\ r.num \notin live[d][s].opened

\* open_from.
OpenFrom(d, s, r) ==
  /\ Opens(s, d, r)
  /\ live' = [live EXCEPT ![d][s].opened = @ \cup {r.num}]
  /\ handed' = handed \cup {r}
  /\ again' = again \cup ({r} \cap handed)
  /\ UNCHANGED <<senders, records, store, established>>

-----------------------------------------------------------------------------
DevicesNext ==
  \/ \E s \in Senders : SyncUnsigned(s) \/ SyncSigned(s) \/ FanOut(s)
  \/ \E s \in Senders, i \in Ids : RevokeDevice(s, i)
  \/ \E d \in Devices, m \in sent : ReceiveInit(d, m)
  \/ \E d \in Devices, s \in Senders, r \in records : OpenFrom(d, s, r)

DevicesSpec == DevicesInit /\ [][DevicesNext]_deviceVars
-----------------------------------------------------------------------------
Secrets ==
  {e \in [ik : Senders, ek : (0 .. MaxCalls - 1) \X Ids, device : Devices, opk : OptionalPreKey] :
     e.opk \in PreKeys[e.device] \cup {NoPreKey}}
InitMessages == [ik : Senders, ek : (0 .. MaxCalls - 1) \X Ids, opk : OptionalPreKey, sealed : Secrets]
FannedRecords == [secret : Secrets, num : 0 .. MaxRecords - 1]
SenderSessions == [secret : Secrets, sealed : 0 .. MaxRecords]
ReceiverSessions == [secret : Secrets, opened : SUBSET (0 .. MaxRecords - 1)]

ASSUME NoSessionAssumption == NoSession \notin SenderSessions \cup ReceiverSessions
ASSUME BoundsAssumption == MaxCalls \in Nat /\ MaxRecords \in Nat

\* The state has the types of the code, a version accepted was issued, and a
\* device files a session under the sender whose message named that device
\* (ReceivingDevice::receive_init).
DevicesTypeOK ==
  /\ store \in [Devices -> SUBSET PreKeyIds]
  /\ session \in [Senders -> [Ids -> SenderSessions \cup {NoSession}]]
  /\ last_seen \in [Senders -> Nat]
  /\ calls \in 0 .. MaxCalls
  /\ sent \subseteq InitMessages
  /\ records \subseteq FannedRecords
  /\ live \in [Devices -> [Senders -> ReceiverSessions \cup {NoSession}]]
  /\ established \in [Devices -> SUBSET Secrets]
  /\ handed \subseteq records
  /\ again \subseteq handed
  /\ \A s \in Senders : last_seen[s] <= Len(Lists)
  /\ \A d \in Devices, s \in Senders :
       live[d][s] # NoSession => live[d][s].secret.ik = s /\ live[d][s].secret.device = d

\* A one-time prekey serves one session, though it was served to two senders,
\* or to one sender twice, and init messages overtake each other
\* (OneTimePreKeyStore::consume).
OneTimeOnce ==
  \A d \in Devices : \A a, b \in established[d] : a.opk = b.opk /\ a.opk # NoPreKey => a = b

\* A payload is handed over twice only if its session used no one-time prekey:
\* then a repeated init message sets the same session up again, as the module
\* doc of x3dh says, and with a prekey it is refused.
ReadOnce == \A r \in again : r.secret.opk = NoPreKey

\* Init messages of one sender that one device accepted other than this one.
Replaced(secret) ==
  \E e \in established[secret.device] : e.ik = secret.ik /\ e # secret

\* The one-time prekey went to another session.
Taken(secret) ==
  \E e \in established[secret.device] : e.opk = secret.opk /\ e # secret

\* The init message never left the sender: its sync call failed later on.
Dropped(secret) == \A m \in sent : m.sealed # secret

\* The init message is on its way, and the device can set the session up.
Expected(secret) ==
  /\ \E m \in sent : m.sealed = secret
  /\ secret \notin established[secret.device]
  /\ secret.opk # NoPreKey => secret.opk \in store[secret.device]

\* A payload fanned out stays readable, or its init message can still arrive
\* and make it so, whatever misrouted or repeated messages the device meets:
\* the only ways to lose it are a sync call that failed, a second session of
\* the same sender, and a one-time prekey served twice.
NothingLost ==
  \A r \in records \ handed :
    \/ Opens(r.secret.ik, r.secret.device, r)
    \/ Expected(r.secret)
    \/ Replaced(r.secret)
    \/ r.secret.opk # NoPreKey /\ Taken(r.secret)
    \/ Dropped(r.secret)

\* The lists a sender may go by: none older than the last it accepted.
Current(s) == {v \in DOMAIN Lists : v >= last_seen[s]}

\* All sessions of a sender on the signed path are with ids of one list that is
\* not older than the last it accepted, also after a call failed half way
\* (sync_from_signed_device_list: revocations come first).
OnlyAuthorized ==
  \A s \in Signed :
    \/ Reached(s) = {}
    \/ \E v \in Current(s) : Reached(s) \subseteq IdsOn(Lists[v])

\* A session on the signed path begins only with a device of a list newer than
\* the last one accepted: no older list brings a revoked device back, and no bundle
\* of another device passes for a listed one.
NoRollback ==
  [][\A s \in Signed, i \in Ids :
       session[s][i] = NoSession /\ session'[s][i] # NoSession =>
         \E v \in DOMAIN Lists : v > last_seen[s] /\ session'[s][i].secret.device \in Lists[v]]_deviceVars

\* The module doc: a device that was re-keyed under its id is handled by the
\* signed path, so sessions are with the devices of the list last accepted.
\* The code leaves the session with the old device in place.
RekeyFollowed ==
  \A s \in Signed, i \in Ids :
    i \in Reached(s) /\ last_seen[s] # 0 => session[s][i].secret.device \in Lists[last_seen[s]]
=============================================================================
