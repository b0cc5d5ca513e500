-------------------------- MODULE MultiDeviceProofs --------------------------
(***************************************************************************)
(* Proofs about MultiDevice, for any senders, devices, prekeys and lists:  *)
(* a one-time prekey serves one session, payloads are read once unless     *)
(* their session used none, a payload is lost in the four ways named and   *)
(* no other, and the signed path neither leaves its list nor goes back to  *)
(* an older one.  The invariant relates a device's store of prekeys, the   *)
(* secrets it ever derived, the session on file and what it opened.        *)
(***************************************************************************)
EXTENDS MultiDevice, TLAPS

\* What a device knows of a secret it derived: the key it used is gone.
Spent ==
  \A d \in Devices : \A e \in established[d] :
    e.device = d /\ (e.opk # NoPreKey => e.opk \notin store[d])

\* A key that is gone was used.
Accounted ==
  \A d \in Devices : \A k \in PreKeys[d] :
    k \in store[d] \/ \E e \in established[d] : e.opk = k

\* The session of a secret is on file, unless another took its place.
OnFile ==
  \A d \in Devices : \A e \in established[d] :
    Replaced(e) \/ (live[d][e.ik] # NoSession /\ live[d][e.ik].secret = e)

\* A session on file was derived, and opened what was handed over.
Filed ==
  \A d \in Devices, s \in Senders :
    live[d][s] # NoSession =>
      /\ live[d][s].secret \in established[d]
      /\ \A n \in live[d][s].opened : [secret |-> live[d][s].secret, num |-> n] \in handed

\* A session with a one-time prekey remembers all that was handed over.
Remembers ==
  \A r \in handed :
    /\ r.secret \in established[r.secret.device]
    /\ LET on == live[r.secret.device][r.secret.ik]
       IN r.secret.opk # NoPreKey /\ on # NoSession /\ on.secret = r.secret => r.num \in on.opened

\* What the receivers know, which a sender's step leaves alone.
Receiving == Spent /\ Accounted /\ OnFile /\ Filed /\ Remembers /\ OneTimeOnce /\ ReadOnce

DeviceInv == DevicesTypeOK /\ Receiving

-----------------------------------------------------------------------------
\* A bundle of a RemoteAccount is of a device that goes by its id.
LEMMA BundleOfId ==
  ASSUME NEW remote \in RemoteAccounts, NEW i \in DOMAIN remote
  PROVE  /\ i \in Ids
         /\ remote[i] \in Bundles
         /\ IdOf[remote[i].device] = i
         /\ remote[i].opk \in PreKeys[remote[i].device] \cup {NoPreKey}
  BY DEF RemoteAccounts

\* sync_devices: a session is kept, or made with the bundle of its id.
LEMMA SyncMakes ==
  ASSUME DevicesTypeOK, NEW s \in Senders, NEW remote \in RemoteAccounts,
         NEW kept \in [Ids -> SenderSessions \cup {NoSession}], SyncDevices(s, kept, remote)
  PROVE  /\ session' \in [Senders -> [Ids -> SenderSessions \cup {NoSession}]]
         /\ sent' \subseteq InitMessages
         /\ calls' \in 0 .. MaxCalls
         /\ \A i \in Ids : \/ session'[s][i] = kept[i]
                           \/ /\ kept[i] = NoSession
                              /\ i \in DOMAIN remote
                              /\ session'[s][i].secret.device = remote[i].device
         /\ \A t \in Senders \ {s} : session'[t] = session[t]
<1> DEFINE made == Made(kept, remote)
           message(i) == InitMessage(s, <<calls, i>>, remote[i])
           one(i) == IF i \in made THEN [secret |-> message(i).sealed, sealed |-> 0] ELSE kept[i]
<1>1. calls \in Nat /\ calls < MaxCalls /\ MaxCalls \in Nat /\ MaxRecords \in Nat
  BY BoundsAssumption DEF DevicesTypeOK, SyncDevices
<1>2. calls' = calls + 1 /\ calls' \in 0 .. MaxCalls
  BY <1>1 DEF SyncDevices
<1>3. session' = [session EXCEPT ![s] = [i \in Ids |-> one(i)]]
  BY DEF SyncDevices
<1>4. \A i \in made : i \in DOMAIN remote /\ kept[i] = NoSession
  BY DEF Made, Needed
<1>5. ASSUME NEW i \in made
      PROVE  /\ message(i).sealed \in Secrets
             /\ message(i).sealed.device = remote[i].device
             /\ message(i) \in InitMessages
  <2>1. i \in Ids /\ remote[i] \in Bundles /\ remote[i].opk \in PreKeys[remote[i].device] \cup {NoPreKey}
    BY <1>4, BundleOfId
  <2>2. remote[i].device \in Devices /\ remote[i].opk \in OptionalPreKey
    BY <2>1 DEF Bundles
  <2>3. <<calls, i>> \in (0 .. MaxCalls - 1) \X Ids
    BY <1>1, <2>1
  <2>4. message(i).sealed \in Secrets /\ message(i).sealed.device = remote[i].device
    BY <2>1, <2>2, <2>3 DEF InitMessage, Secret, Secrets
  <2>5. QED
    BY <2>2, <2>3, <2>4 DEF InitMessage, InitMessages
<1>6. \A i \in Ids : one(i) \in SenderSessions \cup {NoSession}
  BY <1>1, <1>5 DEF SenderSessions
<1>7. session' \in [Senders -> [Ids -> SenderSessions \cup {NoSession}]]
  BY <1>3, <1>6 DEF DevicesTypeOK
<1>8. \A i \in Ids : session'[s][i] = one(i)
  BY <1>3 DEF DevicesTypeOK
<1>9. \A i \in Ids : \/ one(i) = kept[i]
                     \/ i \in made /\ one(i).secret.device = remote[i].device
  BY <1>5
<1>10. \A t \in Senders \ {s} : session'[t] = session[t]
  BY <1>3 DEF DevicesTypeOK
<1>11. sent' \subseteq InitMessages
  BY <1>5 DEF SyncDevices, DevicesTypeOK
<1>12. QED
  BY <1>2, <1>4, <1>7, <1>8, <1>9, <1>10, <1>11

LEMMA SendersLeaveReceivers ==
  ASSUME Receiving, UNCHANGED <<receivers, handed, again>>
  PROVE  Receiving'
  BY DEF Receiving, receivers, Spent, Accounted, OnFile, Replaced, Filed, Remembers, OneTimeOnce, ReadOnce

-----------------------------------------------------------------------------
\* Every step keeps the types.
LEMMA TypeInit == DevicesInit => DevicesTypeOK
  BY BoundsAssumption, PreKeysAssumption DEF DevicesInit, DevicesTypeOK

LEMMA TypeSync ==
  ASSUME DevicesTypeOK, NEW s \in Senders, SyncUnsigned(s) \/ SyncSigned(s)
  PROVE  DevicesTypeOK'
<1>1. UNCHANGED <<records, store, live, established, handed, again>>
  BY DEF SyncUnsigned, SyncSigned, receivers
<1>2. session' \in [Senders -> [Ids -> SenderSessions \cup {NoSession}]]
      /\ sent' \subseteq InitMessages /\ calls' \in 0 .. MaxCalls
  <2>1. CASE SyncUnsigned(s)
    <3>1. PICK remote \in RemoteAccounts : SyncDevices(s, session[s], remote)
      BY <2>1 DEF SyncUnsigned
    <3>2. session[s] \in [Ids -> SenderSessions \cup {NoSession}]
      BY DEF DevicesTypeOK
    <3>3. QED
      BY <3>1, <3>2, SyncMakes
  <2>2. CASE SyncSigned(s)
    <3>1. PICK v \in DOMAIN Lists, remote \in RemoteAccounts : SyncDevices(s, Kept(s, Lists[v]), remote)
      BY <2>2 DEF SyncSigned
    <3>2. Kept(s, Lists[v]) \in [Ids -> SenderSessions \cup {NoSession}]
      BY DEF DevicesTypeOK, Kept
    <3>3. QED
      BY <3>1, <3>2, SyncMakes
  <2>3. QED
    BY <2>1, <2>2
<1>3. last_seen' \in [Senders -> Nat] /\ \A t \in Senders : last_seen'[t] <= Len(Lists)
  <2>1. CASE last_seen' = last_seen
    BY <2>1 DEF DevicesTypeOK
  <2>2. ASSUME NEW v \in DOMAIN Lists, last_seen' = [last_seen EXCEPT ![s] = v]
        PROVE  last_seen' \in [Senders -> Nat] /\ \A t \in Senders : last_seen'[t] <= Len(Lists)
    <3>1. v \in Nat /\ v <= Len(Lists)
      BY ListsAssumption
    <3>2. QED
      BY <2>2, <3>1 DEF DevicesTypeOK
  <2>3. QED
    BY <2>1, <2>2 DEF SyncUnsigned, SyncSigned
<1>4. QED
  BY <1>1, <1>2, <1>3 DEF DevicesTypeOK

LEMMA TypeRevoke ==
  ASSUME DevicesTypeOK, NEW s \in Senders, NEW i \in Ids, RevokeDevice(s, i)
  PROVE  DevicesTypeOK'
  BY DEF DevicesTypeOK, RevokeDevice, receivers

LEMMA TypeFanOut ==
  ASSUME DevicesTypeOK, NEW s \in Senders, FanOut(s)
  PROVE  DevicesTypeOK'
<1>1. MaxRecords \in Nat
  BY BoundsAssumption
<1>2. \A i \in Reached(s) : session[s][i] \in SenderSessions /\ session[s][i].sealed < MaxRecords
  BY DEF DevicesTypeOK, Reached, FanOut
<1>3. records' \subseteq FannedRecords
  <2>1. \A i \in Reached(s) : [secret |-> session[s][i].secret, num |-> session[s][i].sealed] \in FannedRecords
    BY <1>1, <1>2 DEF SenderSessions, FannedRecords
  <2>2. QED
    BY <2>1 DEF DevicesTypeOK, FanOut
<1>4. session' \in [Senders -> [Ids -> SenderSessions \cup {NoSession}]]
  <2>1. \A i \in Reached(s) : Advanced(session[s][i]) \in SenderSessions
    BY <1>1, <1>2 DEF SenderSessions, Advanced
  <2>2. QED
    BY <2>1 DEF DevicesTypeOK, FanOut, Reached
<1>5. records \subseteq records'
  BY DEF FanOut
<1>6. QED
  BY <1>3, <1>4, <1>5 DEF DevicesTypeOK, FanOut, receivers

\* What a device is sure of when a payload opened.
LEMMA Accepted ==
  ASSUME DevicesTypeOK, NEW d \in Devices, NEW m \in sent, Genuine(d, m)
  PROVE  m.ik \in Senders /\ m.sealed \in Secrets
         /\ m.sealed.ik = m.ik /\ m.sealed.device = d /\ m.sealed.opk = m.opk
  BY DEF DevicesTypeOK, Genuine, Secret, InitMessages

LEMMA TypeReceive ==
  ASSUME DevicesTypeOK, NEW d \in Devices, NEW m \in sent, ReceiveInit(d, m)
  PROVE  DevicesTypeOK'
<1>1. store' \in [Devices -> SUBSET PreKeyIds]
  BY DEF DevicesTypeOK, ReceiveInit, Remaining
<1>2. /\ live' \in [Devices -> [Senders -> ReceiverSessions \cup {NoSession}]]
      /\ established' \in [Devices -> SUBSET Secrets]
      /\ \A e \in Devices, s \in Senders :
           live'[e][s] # NoSession => live'[e][s].secret.ik = s /\ live'[e][s].secret.device = e
  <2>1. CASE Genuine(d, m)
    <3> DEFINE fresh == [secret |-> m.sealed, opened |-> {}]
    <3>1. fresh \in ReceiverSessions /\ fresh.secret.ik = m.ik /\ fresh.secret.device = d
      BY <2>1, Accepted DEF ReceiverSessions
    <3>2. live' = [live EXCEPT ![d][m.ik] = fresh] /\ established' = [established EXCEPT ![d] = @ \cup {m.sealed}]
      BY <2>1 DEF ReceiveInit
    <3>3. QED
      BY <2>1, <3>1, <3>2, Accepted DEF DevicesTypeOK
  <2>2. CASE ~ Genuine(d, m)
    BY <2>2 DEF DevicesTypeOK, ReceiveInit
  <2>3. QED
    BY <2>1, <2>2
<1>3. QED
  BY <1>1, <1>2 DEF DevicesTypeOK, ReceiveInit, senders

LEMMA TypeOpen ==
  ASSUME DevicesTypeOK, NEW d \in Devices, NEW s \in Senders, NEW r \in records, OpenFrom(d, s, r)
  PROVE  DevicesTypeOK'
<1>1. live[d][s] \in ReceiverSessions
  BY DEF DevicesTypeOK, OpenFrom, Opens
<1>2. r.num \in 0 .. MaxRecords - 1
  BY DEF DevicesTypeOK, FannedRecords
<1>3. [live[d][s] EXCEPT !.opened = @ \cup {r.num}] \in ReceiverSessions
  BY <1>1, <1>2 DEF ReceiverSessions
<1>4. live' \in [Devices -> [Senders -> ReceiverSessions \cup {NoSession}]]
  BY <1>3 DEF DevicesTypeOK, OpenFrom
<1>5. \A e \in Devices, t \in Senders :
        /\ live'[e][t] # NoSession => live[e][t] # NoSession
        /\ live'[e][t] # NoSession => live'[e][t].secret = live[e][t].secret
  BY <1>1 DEF DevicesTypeOK, OpenFrom, Opens, ReceiverSessions
<1>6. QED
  BY <1>4, <1>5 DEF DevicesTypeOK, OpenFrom, senders

-----------------------------------------------------------------------------
\* Steps of a receiving device keep what the receivers know.
LEMMA ReceiveRefused ==
  ASSUME DeviceInv, NEW d \in Devices, NEW m \in sent, ReceiveInit(d, m), ~ Genuine(d, m)
  PROVE  Receiving'
<1>1. UNCHANGED <<receivers, handed, again>>
  BY DEF ReceiveInit, Remaining, receivers, DeviceInv, DevicesTypeOK
<1>2. QED
  BY <1>1, SendersLeaveReceivers DEF DeviceInv

LEMMA ReceiveAccepted ==
  ASSUME DeviceInv, NEW d \in Devices, NEW m \in sent, ReceiveInit(d, m), Genuine(d, m)
  PROVE  Receiving'
<1> DEFINE new == m.sealed
<1>1. /\ m.ik \in Senders /\ new.ik = m.ik /\ new.device = d /\ new.opk = m.opk
  BY Accepted DEF DeviceInv
<1>2. /\ store' = [store EXCEPT ![d] = @ \ {new.opk}]
      /\ live' = [live EXCEPT ![d][m.ik] = [secret |-> new, opened |-> {}]]
      /\ established' = [established EXCEPT ![d] = @ \cup {new}]
      /\ handed' = handed /\ again' = again
      /\ new.opk # NoPreKey => new.opk \in store[d]
  BY <1>1 DEF ReceiveInit, Remaining, Found
<1>3. /\ store'[d] = store[d] \ {new.opk}
      /\ established'[d] = established[d] \cup {new}
      /\ \A e \in Devices \ {d} : store'[e] = store[e] /\ established'[e] = established[e]
  BY <1>2 DEF DeviceInv, DevicesTypeOK
<1>4. /\ live'[d][m.ik] = [secret |-> new, opened |-> {}]
      /\ \A e \in Devices, s \in Senders : <<e, s>> # <<d, m.ik>> => live'[e][s] = live[e][s]
  BY <1>1, <1>2 DEF DeviceInv, DevicesTypeOK
<1>5. live'[d][m.ik] # NoSession
  <2>1. [secret |-> new, opened |-> {}] \in ReceiverSessions
    BY Accepted DEF DeviceInv, ReceiverSessions
  <2>2. QED
    BY <1>4, <2>1, NoSessionAssumption
<1>6. new.opk # NoPreKey => \A e \in established[d] : e.opk # new.opk
  BY <1>2 DEF DeviceInv, Receiving, Spent
<1>7. Spent'
  BY <1>1, <1>3 DEF DeviceInv, Receiving, Spent
<1>8. Accounted'
  BY <1>3 DEF DeviceInv, Receiving, Accounted
<1>9. OnFile'
  <2> SUFFICES ASSUME NEW e \in Devices, NEW a \in established'[e]
               PROVE  Replaced(a)' \/ (live'[e][a.ik] # NoSession /\ live'[e][a.ik].secret = a)
    BY DEF OnFile
  <2>1. a.device = e
    BY <1>7 DEF Spent
  <2>2. CASE a = new /\ e = d
    BY <1>1, <1>4, <1>5, <2>2
  <2>3. CASE ~ (a = new /\ e = d)
    <3>1. a \in established[e]
      BY <1>3, <2>3
    <3>2. CASE e = d /\ a.ik = m.ik
      BY <1>1, <1>3, <2>1, <2>3, <3>2 DEF Replaced
    <3>3. CASE ~ (e = d /\ a.ik = m.ik)
      <4>1. a.ik \in Senders
        BY <3>1 DEF DeviceInv, DevicesTypeOK, Secrets
      <4>2. live'[e][a.ik] = live[e][a.ik]
        BY <1>4, <3>3, <4>1
      <4>3. Replaced(a) => Replaced(a)'
        BY <1>3, <2>1 DEF Replaced
      <4>4. QED
        BY <3>1, <4>2, <4>3 DEF DeviceInv, Receiving, OnFile
    <3>4. QED
      BY <3>2, <3>3
  <2>4. QED
    BY <2>2, <2>3
<1>10. Filed'
  <2> SUFFICES ASSUME NEW e \in Devices, NEW s \in Senders, live'[e][s] # NoSession
               PROVE  /\ live'[e][s].secret \in established'[e]
                      /\ \A n \in live'[e][s].opened : [secret |-> live'[e][s].secret, num |-> n] \in handed'
    BY DEF Filed
  <2>1. CASE e = d /\ s = m.ik
    BY <1>3, <1>4, <2>1
  <2>2. CASE ~ (e = d /\ s = m.ik)
    BY <1>2, <1>3, <1>4, <2>2 DEF DeviceInv, Receiving, Filed
  <2>3. QED
    BY <2>1, <2>2
<1>11. Remembers'
  <2> SUFFICES ASSUME NEW r \in handed
               PROVE  /\ r.secret \in established'[r.secret.device]
                      /\ LET on == live'[r.secret.device][r.secret.ik]
                         IN r.secret.opk # NoPreKey /\ on # NoSession /\ on.secret = r.secret => r.num \in on.opened
    BY <1>2 DEF Remembers
  <2>1. r.secret \in established[r.secret.device] /\ r.secret.device \in Devices /\ r.secret.ik \in Senders
    BY DEF DeviceInv, DevicesTypeOK, Receiving, Remembers, FannedRecords, Secrets
  <2>2. r.secret \in established'[r.secret.device]
    BY <1>3, <2>1
  <2>3. CASE r.secret.device = d /\ r.secret.ik = m.ik
    \* A key still in the store was used by no session, so nothing was read.
    <3>1. r.secret.opk # NoPreKey => r.secret # new
      BY <1>6, <2>1, <2>3
    <3>2. QED
      BY <1>4, <2>2, <2>3, <3>1
  <2>4. CASE ~ (r.secret.device = d /\ r.secret.ik = m.ik)
    BY <1>4, <2>1, <2>2, <2>4 DEF DeviceInv, Receiving, Remembers
  <2>5. QED
    BY <2>3, <2>4
<1>12. OneTimeOnce'
  BY <1>3, <1>6 DEF DeviceInv, Receiving, OneTimeOnce
<1>13. ReadOnce'
  BY <1>2 DEF DeviceInv, Receiving, ReadOnce
<1>14. QED
  BY <1>7, <1>8, <1>9, <1>10, <1>11, <1>12, <1>13 DEF Receiving

LEMMA OpenKeeps ==
  ASSUME DeviceInv, NEW d \in Devices, NEW s \in Senders, NEW r \in records, OpenFrom(d, s, r)
  PROVE  Receiving'
<1>1. /\ live[d][s] # NoSession /\ live[d][s] \in ReceiverSessions
      /\ live[d][s].secret = r.secret /\ r.num \notin live[d][s].opened
      /\ r.secret.ik = s /\ r.secret.device = d
  BY DEF OpenFrom, Opens, DeviceInv, DevicesTypeOK
<1>2. r = [secret |-> r.secret, num |-> r.num]
  BY DEF DeviceInv, DevicesTypeOK, FannedRecords
<1>3. /\ live'[d][s] = [live[d][s] EXCEPT !.opened = @ \cup {r.num}]
      /\ \A e \in Devices, t \in Senders : <<e, t>> # <<d, s>> => live'[e][t] = live[e][t]
  BY DEF OpenFrom, DeviceInv, DevicesTypeOK
<1>4. /\ live'[d][s].secret = r.secret /\ live'[d][s].opened = live[d][s].opened \cup {r.num}
      /\ live'[d][s] # NoSession
  <2>1. live'[d][s].secret = r.secret /\ live'[d][s].opened = live[d][s].opened \cup {r.num}
    BY <1>1, <1>3 DEF ReceiverSessions
  <2>2. live'[d][s] \in ReceiverSessions
    BY <1>1, <1>3 DEF ReceiverSessions, DeviceInv, DevicesTypeOK, FannedRecords
  <2>3. QED
    BY <2>1, <2>2, NoSessionAssumption
<1>5. /\ store' = store /\ established' = established
      /\ handed' = handed \cup {r} /\ again' = again \cup ({r} \cap handed)
  BY DEF OpenFrom
<1>6. \A e \in Devices, t \in Senders :
        (live'[e][t] # NoSession <=> live[e][t] # NoSession) /\ live'[e][t].secret = live[e][t].secret
  BY <1>1, <1>3, <1>4
<1>7. Spent' /\ Accounted' /\ OneTimeOnce'
  BY <1>5 DEF DeviceInv, Receiving, Spent, Accounted, OneTimeOnce
<1>8. OnFile'
  <2>1. \A e \in Devices : \A a \in established[e] : a.ik \in Senders
    BY DEF DeviceInv, DevicesTypeOK, Secrets
  <2>2. QED
    BY <1>5, <1>6, <2>1 DEF DeviceInv, Receiving, OnFile, Replaced
<1>9. Filed'
  <2> SUFFICES ASSUME NEW e \in Devices, NEW t \in Senders, live'[e][t] # NoSession
               PROVE  /\ live'[e][t].secret \in established'[e]
                      /\ \A n \in live'[e][t].opened : [secret |-> live'[e][t].secret, num |-> n] \in handed'
    BY DEF Filed
  <2>1. live'[e][t].secret \in established'[e]
    BY <1>5, <1>6 DEF DeviceInv, Receiving, Filed
  <2>2. CASE e = d /\ t = s
    BY <1>1, <1>2, <1>4, <1>5, <2>1, <2>2 DEF DeviceInv, Receiving, Filed
  <2>3. CASE ~ (e = d /\ t = s)
    BY <1>3, <1>5, <2>1, <2>3 DEF DeviceInv, Receiving, Filed
  <2>4. QED
    BY <2>1, <2>2, <2>3
<1>10. r.secret \in established[d]
  BY <1>1 DEF DeviceInv, Receiving, Filed
<1>11. Remembers'
  <2> SUFFICES ASSUME NEW q \in handed'
               PROVE  /\ q.secret \in established[q.secret.device]
                      /\ LET on == live'[q.secret.device][q.secret.ik]
                         IN q.secret.opk # NoPreKey /\ on # NoSession /\ on.secret = q.secret => q.num \in on.opened
    BY <1>5 DEF Remembers
  <2>1. CASE q = r
    BY <1>1, <1>4, <1>10, <2>1
  <2>2. CASE q \in handed /\ q # r
    <3>1. q.secret.device \in Devices /\ q.secret.ik \in Senders
      BY <2>2 DEF DeviceInv, DevicesTypeOK, FannedRecords, Secrets
    <3>2. CASE q.secret.device = d /\ q.secret.ik = s
      BY <1>1, <1>4, <2>2, <3>2 DEF DeviceInv, Receiving, Remembers
    <3>3. CASE ~ (q.secret.device = d /\ q.secret.ik = s)
      BY <1>3, <2>2, <3>1, <3>3 DEF DeviceInv, Receiving, Remembers
    <3>4. QED
      BY <3>2, <3>3
  <2>3. QED
    BY <1>5, <2>1, <2>2
<1>12. ReadOnce'
  <2>1. r \in handed => r.secret.opk = NoPreKey
    BY <1>1 DEF DeviceInv, Receiving, Remembers
  <2>2. QED
    BY <1>5, <2>1 DEF DeviceInv, Receiving, ReadOnce
<1>13. QED
  BY <1>7, <1>8, <1>9, <1>11, <1>12 DEF Receiving

-----------------------------------------------------------------------------
LEMMA DeviceInvInit == DevicesInit => DeviceInv
<1> SUFFICES ASSUME DevicesInit PROVE DeviceInv
  OBVIOUS
<1>1. Spent /\ Accounted /\ OnFile /\ Filed /\ Remembers /\ OneTimeOnce /\ ReadOnce
  BY DEF DevicesInit, Spent, Accounted, OnFile, Filed, Remembers, OneTimeOnce, ReadOnce
<1>2. QED
  BY <1>1, TypeInit DEF DeviceInv, Receiving

LEMMA DeviceInvNext == DeviceInv /\ [DevicesNext]_deviceVars => DeviceInv'
<1> SUFFICES ASSUME DeviceInv, [DevicesNext]_deviceVars PROVE DeviceInv'
  OBVIOUS
<1>0. DevicesTypeOK
  BY DEF DeviceInv
<1>1. ASSUME NEW s \in Senders, SyncUnsigned(s) \/ SyncSigned(s) PROVE DeviceInv'
  <2>1. UNCHANGED <<receivers, handed, again>>
    BY <1>1 DEF SyncUnsigned, SyncSigned
  <2>2. QED
    BY <1>0, <1>1, <2>1, TypeSync, SendersLeaveReceivers DEF DeviceInv
<1>2. ASSUME NEW s \in Senders, FanOut(s) PROVE DeviceInv'
  BY <1>0, <1>2, TypeFanOut, SendersLeaveReceivers DEF DeviceInv, FanOut
<1>3. ASSUME NEW s \in Senders, NEW i \in Ids, RevokeDevice(s, i) PROVE DeviceInv'
  BY <1>0, <1>3, TypeRevoke, SendersLeaveReceivers DEF DeviceInv, RevokeDevice
<1>4. ASSUME NEW d \in Devices, NEW m \in sent, ReceiveInit(d, m) PROVE DeviceInv'
  BY <1>0, <1>4, TypeReceive, ReceiveRefused, ReceiveAccepted DEF DeviceInv
<1>5. ASSUME NEW d \in Devices, NEW s \in Senders, NEW r \in records, OpenFrom(d, s, r) PROVE DeviceInv'
  BY <1>0, <1>5, TypeOpen, OpenKeeps DEF DeviceInv
<1>6. CASE UNCHANGED deviceVars
  <2>1. DevicesTypeOK'
    BY <1>0, <1>6 DEF DevicesTypeOK, deviceVars, senders, receivers
  <2>2. QED
    BY <1>6, <2>1, SendersLeaveReceivers DEF DeviceInv, deviceVars
<1>7. QED
  BY <1>1, <1>2, <1>3, <1>4, <1>5, <1>6 DEF DevicesNext

LEMMA DeviceInvHolds == DevicesSpec => []DeviceInv
  BY DeviceInvInit, DeviceInvNext, PTL DEF DevicesSpec

\* Types hold throughout, and a session is filed under the sender whose message
\* was for that device (ReceivingDevice::receive_init).
THEOREM DeviceTypeCorrect == DevicesSpec => []DevicesTypeOK
<1>1. DeviceInv => DevicesTypeOK
  BY DEF DeviceInv
<1>2. QED
  BY <1>1, DeviceInvHolds, PTL

\* A one-time prekey serves one session, however often a server hands it out
\* (peek and consume in respond).
THEOREM OneTimeKeysServeOnce == DevicesSpec => []OneTimeOnce
<1>1. DeviceInv => OneTimeOnce
  BY DEF DeviceInv, Receiving
<1>2. QED
  BY <1>1, DeviceInvHolds, PTL

\* A payload is handed over twice only in a session without a one-time prekey,
\* though init messages and records are repeated at will.
THEOREM PayloadsReadOnce == DevicesSpec => []ReadOnce
<1>1. DeviceInv => ReadOnce
  BY DEF DeviceInv, Receiving
<1>2. QED
  BY <1>1, DeviceInvHolds, PTL

\* The ways to lose a payload are the four that NothingLost names.
LEMMA LostInFourWays == DeviceInv => NothingLost
<1> SUFFICES ASSUME DeviceInv, NEW r \in records \ handed
             PROVE  \/ Opens(r.secret.ik, r.secret.device, r)
                    \/ Expected(r.secret)
                    \/ Replaced(r.secret)
                    \/ r.secret.opk # NoPreKey /\ Taken(r.secret)
                    \/ Dropped(r.secret)
  BY DEF NothingLost
<1> DEFINE e == r.secret
           d == e.device
<1>1. /\ r = [secret |-> e, num |-> r.num]
      /\ d \in Devices /\ e.ik \in Senders /\ e.opk \in PreKeys[d] \cup {NoPreKey}
  BY DEF DeviceInv, DevicesTypeOK, FannedRecords, Secrets
<1>2. CASE e \in established[d]
  <2>1. Replaced(e) \/ (live[d][e.ik] # NoSession /\ live[d][e.ik].secret = e)
    BY <1>1, <1>2 DEF DeviceInv, Receiving, OnFile
  <2>2. ASSUME live[d][e.ik] # NoSession, live[d][e.ik].secret = e PROVE Opens(e.ik, d, r)
    BY <1>1, <2>2 DEF DeviceInv, Receiving, Filed, Opens
  <2>3. QED
    BY <2>1, <2>2
<1>3. CASE e \notin established[d]
  <2>1. CASE e.opk # NoPreKey /\ e.opk \notin store[d]
    <3>1. \E a \in established[d] : a.opk = e.opk
      BY <1>1, <2>1 DEF DeviceInv, Receiving, Accounted
    <3>2. QED
      BY <1>3, <2>1, <3>1 DEF Taken
  <2>2. CASE ~ (e.opk # NoPreKey /\ e.opk \notin store[d])
    BY <1>3, <2>2 DEF Expected, Dropped
  <2>3. QED
    BY <2>1, <2>2
<1>4. QED
  BY <1>2, <1>3

\* A payload fanned out can be read or can become readable, but for a failed
\* sync, a second session of its sender, and a prekey served twice.
THEOREM NoPayloadLost == DevicesSpec => []NothingLost
  BY DeviceInvHolds, LostInFourWays, PTL

-----------------------------------------------------------------------------
\* The signed path.
LEMMA SignedSync ==
  ASSUME DevicesTypeOK, NEW s \in Senders, SyncSigned(s)
  PROVE  \E v \in DOMAIN Lists :
           /\ v > last_seen[s]
           /\ last_seen' = last_seen \/ last_seen' = [last_seen EXCEPT ![s] = v]
           /\ Reached(s)' \subseteq IdsOn(Lists[v])
           /\ \A i \in Ids : session[s][i] = NoSession /\ session'[s][i] # NoSession
                               => session'[s][i].secret.device \in Lists[v]
           /\ \A t \in Senders \ {s} : session'[t] = session[t]
<1>1. PICK v \in DOMAIN Lists, remote \in RemoteAccounts :
             /\ Newer(s, v)
             /\ Authorized(Lists[v], remote)
             /\ SyncDevices(s, Kept(s, Lists[v]), remote)
             /\ last_seen' = last_seen \/ last_seen' = [last_seen EXCEPT ![s] = v]
  BY DEF SyncSigned
<1> DEFINE kept == Kept(s, Lists[v])
<1>2. kept \in [Ids -> SenderSessions \cup {NoSession}]
  BY DEF DevicesTypeOK, Kept
<1>3. /\ \A i \in Ids : \/ session'[s][i] = kept[i]
                        \/ /\ kept[i] = NoSession
                           /\ i \in DOMAIN remote
                           /\ session'[s][i].secret.device = remote[i].device
      /\ \A t \in Senders \ {s} : session'[t] = session[t]
  BY <1>1, <1>2, SyncMakes
<1>4. \A i \in DOMAIN remote : remote[i].device \in Lists[v] /\ IdOf[remote[i].device] = i
  BY <1>1, BundleOfId DEF Authorized
<1>5. \A i \in DOMAIN remote : i \in IdsOn(Lists[v])
  BY <1>4 DEF IdsOn
<1>6. Reached(s)' \subseteq IdsOn(Lists[v])
  BY <1>3, <1>5 DEF Reached, Kept
<1>7. \A i \in Ids : session[s][i] = NoSession /\ session'[s][i] # NoSession
                       => session'[s][i].secret.device \in Lists[v]
  BY <1>3, <1>4 DEF Kept
<1>8. QED
  BY <1>1, <1>3, <1>6, <1>7 DEF Newer

\* What other steps do to the sessions of a sender on the signed path.
LEMMA OtherSteps ==
  ASSUME DevicesTypeOK, NEW s \in Signed, DevicesNext, ~ SyncSigned(s)
  PROVE  Reached(s)' \subseteq Reached(s) /\ last_seen'[s] = last_seen[s]
<1>0. s \in Senders
  BY SignedAssumption
<1>1. ASSUME NEW t \in Senders, SyncUnsigned(t) PROVE session'[s] = session[s] /\ last_seen'[s] = last_seen[s]
  <2>1. t # s
    BY <1>1 DEF SyncUnsigned
  <2>2. session[t] \in [Ids -> SenderSessions \cup {NoSession}]
    BY DEF DevicesTypeOK
  <2>3. QED
    BY <1>0, <1>1, <2>1, <2>2, SyncMakes DEF SyncUnsigned
<1>2. ASSUME NEW t \in Senders, SyncSigned(t) PROVE session'[s] = session[s] /\ last_seen'[s] = last_seen[s]
  <2>1. t # s
    BY <1>2
  <2>2. PICK v \in DOMAIN Lists : /\ last_seen' = last_seen \/ last_seen' = [last_seen EXCEPT ![t] = v]
                                  /\ \A u \in Senders \ {t} : session'[u] = session[u]
    BY <1>2, SignedSync
  <2>3. QED
    BY <1>0, <2>1, <2>2 DEF DevicesTypeOK
<1>3. ASSUME NEW t \in Senders, FanOut(t) PROVE Reached(s)' \subseteq Reached(s) /\ last_seen'[s] = last_seen[s]
  <2>1. \A i \in Ids : session'[s][i] # NoSession => session[s][i] # NoSession
    BY <1>0, <1>3 DEF FanOut, Reached, DevicesTypeOK
  <2>2. QED
    BY <1>3, <2>1 DEF Reached, FanOut
<1>4. ASSUME NEW t \in Senders, NEW i \in Ids, RevokeDevice(t, i)
      PROVE  Reached(s)' \subseteq Reached(s) /\ last_seen'[s] = last_seen[s]
  <2>1. \A j \in Ids : session'[s][j] # NoSession => session[s][j] # NoSession
    BY <1>0, <1>4 DEF RevokeDevice, DevicesTypeOK
  <2>2. QED
    BY <1>4, <2>1 DEF Reached, RevokeDevice
<1>5. ASSUME UNCHANGED senders PROVE session'[s] = session[s] /\ last_seen'[s] = last_seen[s]
  BY <1>5 DEF senders
<1>6. (session'[s] = session[s]) => Reached(s)' \subseteq Reached(s)
  BY DEF Reached
<1>7. QED
  BY <1>1, <1>2, <1>3, <1>4, <1>5, <1>6 DEF DevicesNext, ReceiveInit, OpenFrom

LEMMA AuthorizedNext == DevicesTypeOK /\ OnlyAuthorized /\ [DevicesNext]_deviceVars => OnlyAuthorized'
<1> SUFFICES ASSUME DevicesTypeOK, OnlyAuthorized, [DevicesNext]_deviceVars, NEW s \in Signed
             PROVE  \/ Reached(s)' = {}
                    \/ \E v \in Current(s)' : Reached(s)' \subseteq IdsOn(Lists[v])
  BY DEF OnlyAuthorized
<1>0. s \in Senders
  BY SignedAssumption
<1>1. CASE SyncSigned(s)
  <2>1. PICK v \in DOMAIN Lists : /\ v > last_seen[s]
                                  /\ last_seen' = last_seen \/ last_seen' = [last_seen EXCEPT ![s] = v]
                                  /\ Reached(s)' \subseteq IdsOn(Lists[v])
    BY <1>0, <1>1, SignedSync
  <2>2. v \in Nat /\ last_seen[s] \in Nat
    BY <1>0, ListsAssumption DEF DevicesTypeOK
  <2>3. last_seen'[s] \in {last_seen[s], v}
    BY <1>0, <2>1 DEF DevicesTypeOK
  <2>4. v \in Current(s)'
    BY <2>1, <2>2, <2>3 DEF Current
  <2>5. QED
    BY <2>1, <2>4
<1>2. CASE DevicesNext /\ ~ SyncSigned(s)
  <2>1. Reached(s)' \subseteq Reached(s) /\ Current(s)' = Current(s)
    BY <1>2, OtherSteps DEF Current
  <2>2. QED
    BY <2>1 DEF OnlyAuthorized
<1>3. CASE UNCHANGED deviceVars
  BY <1>3 DEF deviceVars, senders, OnlyAuthorized, Reached, Current
<1>4. QED
  BY <1>1, <1>2, <1>3

\* On the signed path all sessions are with ids of one list, none older than
\* the last accepted (sync_from_signed_device_list).
THEOREM SessionsAuthorized == DevicesSpec => []OnlyAuthorized
<1>1. DevicesInit => OnlyAuthorized
  <2>1. ASSUME DevicesInit, NEW s \in Signed PROVE Reached(s) = {}
    <3>1. s \in Senders /\ session = [t \in Senders |-> [i \in Ids |-> NoSession]]
      BY <2>1, SignedAssumption DEF DevicesInit
    <3>2. \A i \in Ids : session[s][i] = NoSession
      BY <3>1
    <3>3. QED
      BY <3>2 DEF Reached
  <2>2. QED
    BY <2>1 DEF OnlyAuthorized
<1>2. QED
  BY <1>1, AuthorizedNext, DeviceTypeCorrect, PTL DEF DevicesSpec

\* No older list brings a revoked device back on the signed path.
THEOREM NoListRollback == DevicesSpec => NoRollback
<1>1. DevicesTypeOK /\ [DevicesNext]_deviceVars =>
        [\A s \in Signed, i \in Ids :
           session[s][i] = NoSession /\ session'[s][i] # NoSession =>
             \E v \in DOMAIN Lists : v > last_seen[s] /\ session'[s][i].secret.device \in Lists[v]]_deviceVars
  <2> SUFFICES ASSUME DevicesTypeOK, DevicesNext, NEW s \in Signed, NEW i \in Ids,
                      session[s][i] = NoSession, session'[s][i] # NoSession
               PROVE  \E v \in DOMAIN Lists : v > last_seen[s] /\ session'[s][i].secret.device \in Lists[v]
    OBVIOUS
  <2>1. s \in Senders
    BY SignedAssumption
  <2>2. SyncSigned(s)
    BY OtherSteps DEF Reached
  <2>3. QED
    BY <2>1, <2>2, SignedSync
<1>2. QED
  BY <1>1, DeviceTypeCorrect, PTL DEF DevicesSpec, NoRollback
=============================================================================
