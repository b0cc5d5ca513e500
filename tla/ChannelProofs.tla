---------------------------- MODULE ChannelProofs ----------------------------
(***************************************************************************)
(* Proofs about a channel from handshake to records, for any peers, any    *)
(* number of attempts side by side, every width of the replay window and   *)
(* any number of certificates and envelopes.  Each part keeps an invariant *)
(* of its own, and the steps of the composition are steps of the parts.    *)
(***************************************************************************)
EXTENDS Channel, NumberLemmas, TLAPS

-----------------------------------------------------------------------------
(***************************************************************************)
(* The handshake: who is established agrees with the very peer it names,   *)
(* and no key serves two attempts.                                         *)
(***************************************************************************)
\* What the states and the messages in flight say of each other.  An answer names
\* its responder and the message it answers, in the text that is signed.
AnswersDistinct ==
  \A m, n \in msg2s : m.x25519 = n.x25519 => m = n

AnswersMade ==
  \A m \in msg2s : \E r \in Responders \cap Known : \E msg1 : m = Msg2(r, msg1)

RespondersWait ==
  \A r \in Responders : Waiting(r, "msg2") =>
    LET state == attempts[r]
    IN /\ state.msg2_full = Msg2(r, state.msg1) /\ state.msg2_full \in msg2s
       /\ state.shared_secret = ResponderSecret(r, state.msg1, Msg2(r, state.msg1).ct)

InitiatorsWait ==
  \A i \in Initiators : Waiting(i, "msg1") => attempts[i].msg1 = Msg1(i)

\* i is established on r's answer to its own first message.
Paired(i, r) ==
  /\ Msg2(r, Msg1(i)) \in msg2s
  /\ Msg3(i, Msg1(i), Msg2(r, Msg1(i))) \in msg3s
  /\ attempts[i] = Initiated(i, Msg1(i), Msg2(r, Msg1(i)))

LastMessages ==
  \A m \in msg3s : \E i \in Initiators \cap Known : \E r \in Responders \cap Known :
    m = Msg3(i, Msg1(i), Msg2(r, Msg1(i))) /\ Paired(i, r)

InitiatorsDone ==
  \A i \in Initiators : Waiting(i, "established") => \E r \in Responders \cap Known : Paired(i, r)

\* What a responder makes of the last message of i.
Answered(r, i) ==
  LET msg2 == Msg2(r, Msg1(i))
  IN Established(Public(Owner[i]),
       FinalizeKeys(ResponderSecret(r, Msg1(i), msg2.ct),
         <<Transcript2(Msg1(i), msg2, Public(Owner[i])), Msg3(i, Msg1(i), msg2).sig>>, FALSE))

RespondersDone ==
  \A r \in Responders : Waiting(r, "established") =>
    \E i \in Initiators \cap Known : Paired(i, r) /\ attempts[r] = Answered(r, i)

HandshakeInv ==
  /\ Known \subseteq Initiators \cup Responders
  /\ AnswersDistinct /\ AnswersMade
  /\ RespondersWait /\ InitiatorsWait
  /\ LastMessages /\ InitiatorsDone /\ RespondersDone

-----------------------------------------------------------------------------
(***************************************************************************)
(* The terms: an answer tells its responder and what it answers, and the   *)
(* keys of the two ends are each other's.                                  *)
(***************************************************************************)
LEMMA Msg2Injective ==
  ASSUME NEW r, NEW s, NEW m, NEW n, Msg2(r, m) = Msg2(s, n)
  PROVE  r = s /\ m = n
<1>1. r = s
  BY DEF Msg2
<1>2. Msg2(r, m).sig.ed25519[2][1] = m /\ Msg2(s, n).sig.ed25519[2][1] = n
  BY DEF Msg2, TrySign, Transcript1
<1>3. QED
  BY <1>1, <1>2

LEMMA Msg1Injective ==
  ASSUME NEW i, NEW j, Msg1(i) = Msg1(j)
  PROVE  i = j
<1>1. Msg1(i).x25519 = i /\ Msg1(j).x25519 = j
  BY DEF Msg1
<1>2. QED
  BY <1>1

LEMMA Msg2Fields ==
  ASSUME NEW r, NEW m
  PROVE  /\ Msg2(r, m).x25519 = r /\ Msg2(r, m).ct = Encapsulate(m.ml_kem, r)
         /\ Msg2(r, m).identity = Public(Owner[r])
         /\ Msg2(r, m).sig = TrySign(Owner[r], Transcript1(m, Msg2(r, m)))
<1>1. Unsigned([x25519 |-> r, ct |-> Encapsulate(m.ml_kem, r), identity |-> Public(Owner[r])])
        = Unsigned(Msg2(r, m))
  BY DEF Unsigned, Msg2
<1>2. QED
  BY <1>1 DEF Msg2, Transcript1

LEMMA SameSecret ==
  ASSUME NEW r, NEW i
  PROVE  InitiatorSecret(i, Msg2(r, Msg1(i)).x25519, Msg2(r, Msg1(i)).ct)
           = ResponderSecret(r, Msg1(i), Msg2(r, Msg1(i)).ct)
<1>1. Msg1(i).x25519 = i /\ Msg1(i).ml_kem = i
  BY DEF Msg1
<1>2. DiffieHellman(i, r) = DiffieHellman(r, i)
  BY DEF DiffieHellman
<1>3. QED
  BY <1>1, <1>2, Msg2Fields DEF InitiatorSecret, ResponderSecret

LEMMA SwappedKeys ==
  ASSUME NEW secret, NEW transcript
  PROVE  /\ Mirrored(FinalizeKeys(secret, transcript, TRUE), FinalizeKeys(secret, transcript, FALSE))
         /\ Mirrored(FinalizeKeys(secret, transcript, FALSE), FinalizeKeys(secret, transcript, TRUE))
BY DEF Mirrored, FinalizeKeys

LEMMA EndsMirrored ==
  ASSUME NEW r, NEW i
  PROVE  /\ Mirrored(Answered(r, i).keys, Initiated(i, Msg1(i), Msg2(r, Msg1(i))).keys)
         /\ Answered(r, i).peer = Public(Owner[i])
         /\ Initiated(i, Msg1(i), Msg2(r, Msg1(i))).peer = Public(Owner[r])
         /\ Answered(r, i).stage = "established"
         /\ Initiated(i, Msg1(i), Msg2(r, Msg1(i))).stage = "established"
BY SameSecret, SwappedKeys, Msg2Fields DEF Answered, Initiated, Established

LEMMA KeysTell ==
  ASSUME NEW secret, NEW m1, NEW m2, NEW id, NEW sig, NEW end \in BOOLEAN,
         NEW secret2, NEW n1, NEW n2, NEW id2, NEW sig2, NEW end2 \in BOOLEAN
  PROVE  LET keys == FinalizeKeys(secret, <<Transcript2(m1, m2, id), sig>>, end)
             others == FinalizeKeys(secret2, <<Transcript2(n1, n2, id2), sig2>>, end2)
         IN /\ keys.sender = others.sender => end = end2 /\ m1 = n1 /\ m2 = n2
            /\ keys.receiver = others.receiver => end = end2 /\ m1 = n1 /\ m2 = n2
            /\ keys.ratchet_root \notin {others.sender, others.receiver}
<1> DEFINE t == Transcript2(m1, m2, id)
           u == Transcript2(n1, n2, id2)
           prk == <<secret, <<t, sig>>>>
           prk2 == <<secret2, <<u, sig2>>>>
<1>1. prk = prk2 => m1 = n1 /\ m2 = n2
  BY DEF Transcript2
<1> HIDE DEF prk, prk2
<1>2. \A k, l : Derive(prk, k) = Derive(prk2, l) => k = l /\ prk = prk2
  BY DEF Derive
<1> DEFINE keys == FinalizeKeys(secret, <<t, sig>>, end)
           others == FinalizeKeys(secret2, <<u, sig2>>, end2)
           i2r == "initiator->responder"
           r2i == "responder->initiator"
           root == "ratchet root"
<1>3. /\ keys.sender = Derive(prk, IF end THEN i2r ELSE r2i)
      /\ keys.receiver = Derive(prk, IF end THEN r2i ELSE i2r)
      /\ keys.ratchet_root = Derive(prk, root)
  BY DEF FinalizeKeys, prk
<1>4. /\ others.sender = Derive(prk2, IF end2 THEN i2r ELSE r2i)
      /\ others.receiver = Derive(prk2, IF end2 THEN r2i ELSE i2r)
  BY DEF FinalizeKeys, prk2
<1>5. i2r # r2i /\ root # i2r /\ root # r2i
  OBVIOUS
<1> HIDE DEF keys, others, i2r, r2i, root
<1>6. /\ keys.sender = others.sender => end = end2 /\ m1 = n1 /\ m2 = n2
      /\ keys.receiver = others.receiver => end = end2 /\ m1 = n1 /\ m2 = n2
      /\ keys.ratchet_root \notin {others.sender, others.receiver}
  BY <1>1, <1>2, <1>3, <1>4, <1>5
<1>7. QED
  BY <1>6 DEF keys, others

-----------------------------------------------------------------------------
(***************************************************************************)
(* Each step keeps the invariant.                                          *)
(***************************************************************************)
LEMMA BecomesKeeps ==
  ASSUME NEW a, NEW state, Becomes(a, state)
  PROVE  /\ Known' = Known \cup {a} /\ attempts'[a] = state
         /\ \A b \in Known : b # a => attempts'[b] = attempts[b]
         /\ \A b, stage : b # a => (Waiting(b, stage)' <=> Waiting(b, stage))
         /\ \A stage : Waiting(a, stage)' <=> state.stage = stage
<1>1. attempts' = [b \in Known \cup {a} |-> IF b = a THEN state ELSE attempts[b]]
  BY DEF Becomes
<1>2. Known' = Known \cup {a}
  BY <1>1 DEF Known
<1>3. attempts'[a] = state /\ \A b \in Known : b # a => attempts'[b] = attempts[b]
  BY <1>1
<1>4. \A b, stage : b # a => (Waiting(b, stage)' <=> Waiting(b, stage))
  BY <1>2, <1>3 DEF Waiting
<1>5. \A stage : Waiting(a, stage)' <=> state.stage = stage
  BY <1>2, <1>3 DEF Waiting
<1>6. QED
  BY <1>2, <1>3, <1>4, <1>5

\* What is settled of two attempts stays so when a third changes.
LEMMA PairedStays ==
  ASSUME NEW a, NEW state, Becomes(a, state), NEW i \in Known, NEW r, Paired(i, r), i # a,
         msg2s \subseteq msg2s', msg3s \subseteq msg3s'
  PROVE  Paired(i, r)'
BY BecomesKeeps DEF Paired

LEMMA PairedStage ==
  ASSUME NEW i, NEW r, Paired(i, r)
  PROVE  attempts[i].stage = "established"
BY EndsMirrored DEF Paired

\* While only a moves on, to a state that is not established, the rest stays.
LEMMA OthersStay ==
  ASSUME HandshakeInv, NEW a \in Initiators \cup Responders, NEW state, Becomes(a, state),
         a \in Known => attempts[a].stage # "established", state.stage # "established",
         msg2s \subseteq msg2s', msg3s' = msg3s
  PROVE  /\ (Known \subseteq Initiators \cup Responders)'
         /\ LastMessages' /\ InitiatorsDone' /\ RespondersDone'
<1>1. /\ Known' = Known \cup {a}
      /\ \A b \in Known : b # a => attempts'[b] = attempts[b]
      /\ \A b, stage : b # a => (Waiting(b, stage)' <=> Waiting(b, stage))
      /\ ~Waiting(a, "established")'
  BY BecomesKeeps
<1>2. ASSUME NEW i \in Known, NEW r, Paired(i, r)
      PROVE  i # a /\ Paired(i, r)'
  BY <1>2, PairedStage, PairedStays
<1>3. (Known \subseteq Initiators \cup Responders)'
  BY <1>1 DEF HandshakeInv
<1>4. LastMessages'
  BY <1>1, <1>2 DEF HandshakeInv, LastMessages
<1>5. InitiatorsDone'
  <2>1. SUFFICES ASSUME NEW i \in Initiators, Waiting(i, "established")'
                 PROVE  \E r \in (Responders \cap Known)' : Paired(i, r)'
    BY DEF InitiatorsDone
  <2>2. Waiting(i, "established")
    BY <1>1, <2>1
  <2>3. i \in Known
    BY <2>2 DEF Waiting
  <2>4. PICK r \in Responders \cap Known : Paired(i, r)
    BY <2>2 DEF HandshakeInv, InitiatorsDone
  <2>5. QED
    BY <1>1, <1>2, <2>3, <2>4
<1>6. RespondersDone'
  <2>1. SUFFICES ASSUME NEW r \in Responders, Waiting(r, "established")'
                 PROVE  \E i \in (Initiators \cap Known)' :
                          Paired(i, r)' /\ attempts'[r] = Answered(r, i)
    BY DEF RespondersDone, Answered, Msg1, Msg2, Msg3, ResponderSecret, Established, Transcript2,
           FinalizeKeys, Public
  <2>2. Waiting(r, "established") /\ r # a
    BY <1>1, <2>1
  <2>3. r \in Known
    BY <2>2 DEF Waiting
  <2>4. PICK i \in Initiators \cap Known : Paired(i, r) /\ attempts[r] = Answered(r, i)
    BY <2>2 DEF HandshakeInv, RespondersDone
  <2>5. QED
    BY <1>1, <1>2, <2>2, <2>3, <2>4
<1>7. QED
  BY <1>3, <1>4, <1>5, <1>6

LEMMA HandshakeInitInv == HandshakeInit => HandshakeInv
BY DEF HandshakeInit, HandshakeInv, Known, Waiting, AnswersDistinct, AnswersMade, RespondersWait,
       InitiatorsWait, LastMessages, InitiatorsDone, RespondersDone

LEMMA StartKeeps ==
  ASSUME HandshakeInv, NEW a \in Initiators, NEW expected, InitiatorStart(a, expected)
  PROVE  HandshakeInv'
<1> DEFINE state == [stage |-> "msg1", msg1 |-> Msg1(a), expected |-> expected]
<1>1. /\ Becomes(a, state) /\ a \notin Known /\ state.stage = "msg1" /\ state.msg1 = Msg1(a)
      /\ msg2s' = msg2s /\ msg3s' = msg3s
  BY DEF InitiatorStart
<1> HIDE DEF state
<1>2. /\ Known' = Known \cup {a} /\ attempts'[a] = state
      /\ \A b \in Known : b # a => attempts'[b] = attempts[b]
      /\ \A b, stage : b # a => (Waiting(b, stage)' <=> Waiting(b, stage))
      /\ ~Waiting(a, "msg2")'
  BY <1>1, BecomesKeeps
<1>3. /\ (Known \subseteq Initiators \cup Responders)'
      /\ LastMessages' /\ InitiatorsDone' /\ RespondersDone'
  BY <1>1, OthersStay
<1>4. AnswersDistinct' /\ AnswersMade'
  BY <1>1, <1>2 DEF HandshakeInv, AnswersDistinct, AnswersMade
<1>5. RespondersWait'
  <2>1. SUFFICES ASSUME NEW r \in Responders, Waiting(r, "msg2")'
                 PROVE  LET was == attempts'[r]
                        IN /\ was.msg2_full = Msg2(r, was.msg1) /\ was.msg2_full \in msg2s'
                           /\ was.shared_secret = ResponderSecret(r, was.msg1, Msg2(r, was.msg1).ct)
    BY DEF RespondersWait
  <2>2. Waiting(r, "msg2") /\ r # a
    BY <1>2, <2>1
  <2>3. r \in Known
    BY <2>2 DEF Waiting
  <2>4. QED
    BY <1>1, <1>2, <2>2, <2>3 DEF HandshakeInv, RespondersWait
<1>6. InitiatorsWait'
  <2>1. SUFFICES ASSUME NEW i \in Initiators, Waiting(i, "msg1")'
                 PROVE  attempts'[i].msg1 = Msg1(i)
    BY DEF InitiatorsWait
  <2>2. CASE i = a
    BY <1>1, <1>2, <2>2
  <2>3. CASE i # a
    <3>1. Waiting(i, "msg1") /\ i \in Known
      BY <1>2, <2>1, <2>3 DEF Waiting
    <3>2. QED
      BY <1>2, <2>3, <3>1 DEF HandshakeInv, InitiatorsWait
  <2>4. QED
    BY <2>2, <2>3
<1>7. QED
  BY <1>3, <1>4, <1>5, <1>6 DEF HandshakeInv

LEMMA RespondKeeps ==
  ASSUME HandshakeInv, NEW a \in Responders, NEW expected, NEW msg1,
         ResponderRespond(a, expected, msg1)
  PROVE  HandshakeInv'
<1> DEFINE msg2 == Msg2(a, msg1)
           state == [stage |-> "msg2", msg1 |-> msg1, msg2_full |-> msg2,
                     shared_secret |-> ResponderSecret(a, msg1, msg2.ct), expected |-> expected]
<1>1. /\ Becomes(a, state) /\ a \notin Known
      /\ msg2s' = msg2s \cup {msg2} /\ msg3s' = msg3s
  BY DEF ResponderRespond
<1>2. /\ state.stage = "msg2" /\ state.msg1 = msg1 /\ state.msg2_full = Msg2(a, msg1)
      /\ state.shared_secret = ResponderSecret(a, msg1, Msg2(a, msg1).ct)
      /\ msg2 = Msg2(a, msg1)
  OBVIOUS
<1> HIDE DEF state, msg2
<1>3. /\ Known' = Known \cup {a} /\ attempts'[a] = state
      /\ \A b \in Known : b # a => attempts'[b] = attempts[b]
      /\ \A b, stage : b # a => (Waiting(b, stage)' <=> Waiting(b, stage))
      /\ ~Waiting(a, "msg1")'
  BY <1>1, <1>2, BecomesKeeps
<1>4. /\ (Known \subseteq Initiators \cup Responders)'
      /\ LastMessages' /\ InitiatorsDone' /\ RespondersDone'
  BY <1>1, <1>2, OthersStay
<1>5. AnswersDistinct'
  <2>1. \A m \in msg2s : m.x25519 # msg2.x25519
    BY <1>1, <1>2, Msg2Fields DEF HandshakeInv, AnswersMade
  <2>2. QED
    BY <1>1, <2>1 DEF HandshakeInv, AnswersDistinct
<1>6. AnswersMade'
  BY <1>1, <1>2, <1>3 DEF HandshakeInv, AnswersMade
<1>7. RespondersWait'
  <2>1. SUFFICES ASSUME NEW r \in Responders, Waiting(r, "msg2")'
                 PROVE  LET was == attempts'[r]
                        IN /\ was.msg2_full = Msg2(r, was.msg1) /\ was.msg2_full \in msg2s'
                           /\ was.shared_secret = ResponderSecret(r, was.msg1, Msg2(r, was.msg1).ct)
    BY DEF RespondersWait
  <2>2. CASE r = a
    BY <1>1, <1>2, <1>3, <2>2
  <2>3. CASE r # a
    <3>1. Waiting(r, "msg2") /\ r \in Known
      BY <1>3, <2>1, <2>3 DEF Waiting
    <3>2. QED
      BY <1>1, <1>3, <2>3, <3>1 DEF HandshakeInv, RespondersWait
  <2>4. QED
    BY <2>2, <2>3
<1>8. InitiatorsWait'
  <2>1. SUFFICES ASSUME NEW i \in Initiators, Waiting(i, "msg1")'
                 PROVE  attempts'[i].msg1 = Msg1(i)
    BY DEF InitiatorsWait
  <2>2. Waiting(i, "msg1") /\ i # a
    BY <1>3, <2>1
  <2>3. i \in Known
    BY <2>2 DEF Waiting
  <2>4. QED
    BY <1>3, <2>2, <2>3 DEF HandshakeInv, InitiatorsWait
<1>9. QED
  BY <1>4, <1>5, <1>6, <1>7, <1>8 DEF HandshakeInv

\* A second message that verifies as the answer to msg1 is one that was sent: both
\* legs of the signature name the responder and the whole text.
LEMMA SecondMessageWhole ==
  ASSUME HandshakeInv, NEW msg2 \in JoinedMsg2s, NEW msg1,
         VerifyIdentity(msg2.identity, Transcript1(msg1, msg2), msg2.sig)
  PROVE  \E r \in Responders \cap Known : msg2 = Msg2(r, msg1) /\ msg2 \in msg2s
<1>1. /\ msg2 = [x25519 |-> msg2.x25519, ct |-> msg2.ct, identity |-> msg2.identity, sig |-> msg2.sig]
      /\ msg2.identity \in Identities
      /\ msg2.sig \in Signatures(msg2s)
  BY DEF JoinedMsg2s
<1>2. PICK m \in msg2s : msg2.sig.ed25519 = m.sig.ed25519
  BY <1>1 DEF Signatures
<1>3. PICK r \in Responders \cap Known : \E n : m = Msg2(r, n)
  BY DEF HandshakeInv, AnswersMade
<1>4. PICK n : m = Msg2(r, n)
  BY <1>3
<1>5. m.sig = [ed25519 |-> <<Owner[r], Transcript1(n, m)>>, ml_dsa |-> <<Owner[r], Transcript1(n, m)>>]
  BY <1>4, Msg2Fields DEF TrySign
<1>6. Owner[r] = msg2.identity.ed25519 /\ Transcript1(n, m) = Transcript1(msg1, msg2)
  BY <1>2, <1>5 DEF VerifyIdentity
<1>7. n = msg1 /\ m.x25519 = msg2.x25519 /\ m.ct = msg2.ct /\ m.identity = msg2.identity
  BY <1>6 DEF Transcript1, Unsigned
<1>8. msg2.identity = Public(Owner[r])
  BY <1>4, <1>7, Msg2Fields
<1>9. msg2.sig.ml_dsa = <<Owner[r], Transcript1(n, m)>>
  BY <1>6, <1>8 DEF VerifyIdentity, Public
<1>10. msg2.sig = [ed25519 |-> msg2.sig.ed25519, ml_dsa |-> msg2.sig.ml_dsa]
  BY <1>1 DEF Signatures
<1>11. msg2.sig = m.sig
  BY <1>2, <1>5, <1>9, <1>10
<1>12. m = [x25519 |-> m.x25519, ct |-> m.ct, identity |-> m.identity, sig |-> m.sig]
  BY <1>4 DEF Msg2
<1>13. QED
  BY <1>1, <1>4, <1>7, <1>11, <1>12

\* Whoever waited before and still waits has what it had, when an attempt that is
\* in flight is decided one way or the other.
LEMMA WaitersStay ==
  ASSUME HandshakeInv, NEW a \in Known, NEW state, Becomes(a, state),
         state.stage \notin {"msg1", "msg2"}, msg2s' = msg2s
  PROVE  AnswersDistinct' /\ AnswersMade' /\ RespondersWait' /\ InitiatorsWait'
<1>1. /\ Known' = Known
      /\ \A b \in Known : b # a => attempts'[b] = attempts[b]
      /\ \A b, stage : b # a => (Waiting(b, stage)' <=> Waiting(b, stage))
      /\ ~Waiting(a, "msg1")' /\ ~Waiting(a, "msg2")'
  BY BecomesKeeps
<1>2. AnswersDistinct' /\ AnswersMade'
  BY <1>1 DEF HandshakeInv, AnswersDistinct, AnswersMade
<1>3. RespondersWait'
  <2>1. SUFFICES ASSUME NEW r \in Responders, Waiting(r, "msg2")'
                 PROVE  LET was == attempts'[r]
                        IN /\ was.msg2_full = Msg2(r, was.msg1) /\ was.msg2_full \in msg2s'
                           /\ was.shared_secret = ResponderSecret(r, was.msg1, Msg2(r, was.msg1).ct)
    BY DEF RespondersWait
  <2>2. Waiting(r, "msg2") /\ r # a
    BY <1>1, <2>1
  <2>3. r \in Known
    BY <2>2 DEF Waiting
  <2>4. QED
    BY <1>1, <2>2, <2>3 DEF HandshakeInv, RespondersWait
<1>4. InitiatorsWait'
  <2>1. SUFFICES ASSUME NEW i \in Initiators, Waiting(i, "msg1")'
                 PROVE  attempts'[i].msg1 = Msg1(i)
    BY DEF InitiatorsWait
  <2>2. Waiting(i, "msg1") /\ i # a
    BY <1>1, <2>1
  <2>3. i \in Known
    BY <2>2 DEF Waiting
  <2>4. QED
    BY <1>1, <2>2, <2>3 DEF HandshakeInv, InitiatorsWait
<1>5. QED
  BY <1>2, <1>3, <1>4

LEMMA FailureKeeps ==
  ASSUME HandshakeInv, NEW a \in Initiators \cup Responders, a \in Known,
         attempts[a].stage # "established", Becomes(a, [stage |-> "failed"]),
         UNCHANGED <<msg2s, msg3s>>
  PROVE  HandshakeInv'
<1> DEFINE state == [stage |-> "failed"]
<1>1. state.stage \notin {"msg1", "msg2"} /\ state.stage # "established" /\ Becomes(a, state)
  OBVIOUS
<1> HIDE DEF state
<1>2. /\ (Known \subseteq Initiators \cup Responders)'
      /\ LastMessages' /\ InitiatorsDone' /\ RespondersDone'
  BY <1>1, OthersStay
<1>3. AnswersDistinct' /\ AnswersMade' /\ RespondersWait' /\ InitiatorsWait'
  BY <1>1, WaitersStay
<1>4. QED
  BY <1>2, <1>3 DEF HandshakeInv

LEMMA InitiatedKeeps ==
  ASSUME HandshakeInv, NEW a \in Initiators, Waiting(a, "msg1"),
         NEW r \in Responders \cap Known, Msg2(r, Msg1(a)) \in msg2s,
         Becomes(a, Initiated(a, Msg1(a), Msg2(r, Msg1(a)))),
         msg3s' = msg3s \cup {Msg3(a, Msg1(a), Msg2(r, Msg1(a)))}, msg2s' = msg2s
  PROVE  HandshakeInv'
<1> DEFINE state == Initiated(a, Msg1(a), Msg2(r, Msg1(a)))
<1>1. state.stage = "established" /\ Becomes(a, state)
  BY EndsMirrored
<1>2. a \in Known /\ attempts[a].stage = "msg1"
  BY DEF Waiting
<1>3. /\ Known' = Known /\ attempts'[a] = state
      /\ \A b \in Known : b # a => attempts'[b] = attempts[b]
      /\ \A b, stage : b # a => (Waiting(b, stage)' <=> Waiting(b, stage))
  BY <1>1, <1>2, BecomesKeeps
<1>4. Paired(a, r)'
  BY <1>3 DEF Paired
<1> HIDE DEF state
<1>5. ASSUME NEW i \in Known, NEW s, Paired(i, s)
      PROVE  i # a /\ Paired(i, s)'
  BY <1>1, <1>2, <1>5, PairedStage, PairedStays
<1>6. AnswersDistinct' /\ AnswersMade' /\ RespondersWait' /\ InitiatorsWait'
  BY <1>1, <1>2, WaitersStay
<1>7. LastMessages'
  BY <1>2, <1>3, <1>4, <1>5 DEF HandshakeInv, LastMessages
<1>8. InitiatorsDone'
  <2>1. SUFFICES ASSUME NEW i \in Initiators, Waiting(i, "established")', i # a
                 PROVE  \E s \in (Responders \cap Known)' : Paired(i, s)'
    BY <1>3, <1>4 DEF InitiatorsDone
  <2>2. Waiting(i, "established")
    BY <1>3, <2>1
  <2>3. i \in Known
    BY <2>2 DEF Waiting
  <2>4. PICK s \in Responders \cap Known : Paired(i, s)
    BY <2>2 DEF HandshakeInv, InitiatorsDone
  <2>5. QED
    BY <1>3, <1>5, <2>3, <2>4
<1>9. RespondersDone'
  <2>1. SUFFICES ASSUME NEW s \in Responders, Waiting(s, "established")'
                 PROVE  \E i \in (Initiators \cap Known)' :
                          Paired(i, s)' /\ attempts'[s] = Answered(s, i)
    BY DEF RespondersDone, Answered, Msg1, Msg2, Msg3, ResponderSecret, Established, Transcript2,
           FinalizeKeys, Public
  <2>2. s # a
    BY AttemptAssumption
  <2>3. Waiting(s, "established")
    BY <1>3, <2>1, <2>2
  <2>4. s \in Known
    BY <2>3 DEF Waiting
  <2>5. PICK i \in Initiators \cap Known : Paired(i, s) /\ attempts[s] = Answered(s, i)
    BY <2>3 DEF HandshakeInv, RespondersDone
  <2>6. QED
    BY <1>3, <1>5, <2>2, <2>4, <2>5
<1>10. QED
  BY <1>3, <1>6, <1>7, <1>8, <1>9 DEF HandshakeInv

LEMMA InitiatorCompleteKeeps ==
  ASSUME HandshakeInv, NEW a \in Initiators, NEW msg2 \in JoinedMsg2s, InitiatorComplete(a, msg2)
  PROVE  HandshakeInv'
<1>1. /\ Waiting(a, "msg1") /\ a \in Known /\ attempts[a].stage = "msg1"
      /\ attempts[a].msg1 = Msg1(a) /\ UNCHANGED <<msg1s, msg2s>>
  BY DEF InitiatorComplete, Waiting, HandshakeInv, InitiatorsWait
<1>2. CASE Becomes(a, [stage |-> "failed"]) /\ UNCHANGED msg3s
  BY <1>1, <1>2, FailureKeeps
<1>3. CASE /\ Authentic(attempts[a].expected, msg2.identity, Transcript1(Msg1(a), msg2), msg2.sig)
           /\ Becomes(a, Initiated(a, Msg1(a), msg2))
           /\ msg3s' = msg3s \cup {Msg3(a, Msg1(a), msg2)}
  <2>1. PICK r \in Responders \cap Known : msg2 = Msg2(r, Msg1(a)) /\ msg2 \in msg2s
    BY <1>3, SecondMessageWhole DEF Authentic
  <2>2. QED
    BY <1>1, <1>3, <2>1, InitiatedKeeps
<1>4. QED
  BY <1>1, <1>2, <1>3 DEF InitiatorComplete

\* A last message that verifies under a responder's transcript is the one its
\* initiator sent in answer to that responder.
LEMMA ThirdMessageWhole ==
  ASSUME HandshakeInv, NEW r \in Responders, Waiting(r, "msg2"), NEW msg3 \in JoinedMsg3s,
         VerifyIdentity(msg3.identity,
           Transcript2(attempts[r].msg1, attempts[r].msg2_full, msg3.identity), msg3.sig)
  PROVE  \E i \in Initiators \cap Known :
           /\ Paired(i, r) /\ attempts[r].msg1 = Msg1(i)
           /\ attempts[r].msg2_full = Msg2(r, Msg1(i))
           /\ msg3 = Msg3(i, Msg1(i), Msg2(r, Msg1(i)))
<1> DEFINE was == attempts[r]
<1>1. was.msg2_full = Msg2(r, was.msg1)
  BY DEF HandshakeInv, RespondersWait
<1>2. /\ msg3 = [identity |-> msg3.identity, sig |-> msg3.sig] /\ msg3.sig \in Signatures(msg3s)
      /\ msg3.sig = [ed25519 |-> msg3.sig.ed25519, ml_dsa |-> msg3.sig.ml_dsa]
  BY DEF JoinedMsg3s, Signatures
<1>3. PICK m \in msg3s : msg3.sig.ed25519 = m.sig.ed25519
  BY <1>2 DEF Signatures
<1>4. PICK i \in Initiators \cap Known : \E s \in Responders \cap Known :
        m = Msg3(i, Msg1(i), Msg2(s, Msg1(i))) /\ Paired(i, s)
  BY DEF HandshakeInv, LastMessages
<1>5. PICK s \in Responders \cap Known : m = Msg3(i, Msg1(i), Msg2(s, Msg1(i))) /\ Paired(i, s)
  BY <1>4
<1> DEFINE text == Transcript2(Msg1(i), Msg2(s, Msg1(i)), Public(Owner[i]))
           seen == Transcript2(was.msg1, was.msg2_full, msg3.identity)
<1>6. m = [identity |-> Public(Owner[i]),
           sig |-> [ed25519 |-> <<Owner[i], text>>, ml_dsa |-> <<Owner[i], text>>]]
  BY <1>5 DEF Msg3, TrySign
<1>7. /\ msg3.sig.ed25519 = <<msg3.identity.ed25519, seen>>
      /\ msg3.sig.ml_dsa = <<msg3.identity.ml_dsa, seen>>
  BY DEF VerifyIdentity
<1>8. text = seen
  <2> HIDE DEF text, seen
  <2>1. QED
    BY <1>3, <1>6, <1>7
<1>9. /\ was.msg1 = Msg1(i) /\ was.msg2_full = Msg2(s, Msg1(i))
      /\ msg3.identity = Public(Owner[i])
  BY <1>8 DEF Transcript2
<1>10. s = r
  BY <1>1, <1>9, Msg2Injective
<1>11. msg3.identity.ml_dsa = Owner[i]
  BY <1>9 DEF Public
<1>12. msg3 = m
  <2> HIDE DEF text, seen
  <2>1. QED
    BY <1>2, <1>3, <1>6, <1>7, <1>8, <1>9, <1>11
<1>13. QED
  BY <1>5, <1>9, <1>10, <1>12

\* What a responder makes of its initiator's last message.
LEMMA CompletedWhole ==
  ASSUME HandshakeInv, NEW r \in Responders, Waiting(r, "msg2"), NEW i,
         attempts[r].msg1 = Msg1(i),
         \A pinned \in attempts[r].expected : pinned = Public(Owner[i])
  PROVE  Completed(attempts[r], Msg3(i, Msg1(i), Msg2(r, Msg1(i)))) = Answered(r, i)
<1> DEFINE was == attempts[r]
           msg3 == Msg3(i, Msg1(i), Msg2(r, Msg1(i)))
           text == Transcript2(Msg1(i), Msg2(r, Msg1(i)), Public(Owner[i]))
<1>1. /\ was.msg2_full = Msg2(r, Msg1(i))
      /\ was.shared_secret = ResponderSecret(r, Msg1(i), Msg2(r, Msg1(i)).ct)
  BY DEF HandshakeInv, RespondersWait
<1>2. msg3.identity = Public(Owner[i]) /\ msg3.sig = TrySign(Owner[i], text)
  BY DEF Msg3
<1>3. VerifyIdentity(Public(Owner[i]), text, msg3.sig)
  BY <1>2 DEF VerifyIdentity, Public, TrySign
<1>4. Authentic(was.expected, msg3.identity, text, msg3.sig)
  BY <1>2, <1>3 DEF Authentic
<1> HIDE DEF msg3
<1>5. Completed(was, msg3) =
        Established(Public(Owner[i]), FinalizeKeys(was.shared_secret, <<text, msg3.sig>>, FALSE))
  BY <1>1, <1>2, <1>4 DEF Completed
<1>6. QED
  BY <1>1, <1>5 DEF Answered, msg3

LEMMA ResponderCompleteKeeps ==
  ASSUME HandshakeInv, NEW a \in Responders, NEW msg3 \in JoinedMsg3s, ResponderComplete(a, msg3)
  PROVE  HandshakeInv'
<1>1. /\ Waiting(a, "msg2") /\ a \in Known /\ attempts[a].stage = "msg2"
      /\ Becomes(a, Completed(attempts[a], msg3)) /\ UNCHANGED <<msg1s, msg2s, msg3s>>
  BY DEF ResponderComplete, Waiting
<1> DEFINE seen == Transcript2(attempts[a].msg1, attempts[a].msg2_full, msg3.identity)
<1>2. CASE ~Authentic(attempts[a].expected, msg3.identity, seen, msg3.sig)
  <2>1. Completed(attempts[a], msg3) = [stage |-> "failed"]
    BY <1>2 DEF Completed
  <2>2. QED
    BY <1>1, <2>1, FailureKeeps
<1>3. CASE Authentic(attempts[a].expected, msg3.identity, seen, msg3.sig)
  <2>1. PICK i \in Initiators \cap Known :
          /\ Paired(i, a) /\ attempts[a].msg1 = Msg1(i)
          /\ msg3 = Msg3(i, Msg1(i), Msg2(a, Msg1(i)))
    BY <1>1, <1>3, ThirdMessageWhole DEF Authentic
  <2>2. \A pinned \in attempts[a].expected : pinned = Public(Owner[i])
    BY <1>3, <2>1 DEF Authentic, Msg3
  <2> DEFINE state == Answered(a, i)
  <2>3. Becomes(a, state)
    BY <1>1, <2>1, <2>2, CompletedWhole
  <2>4. state.stage = "established"
    BY EndsMirrored
  <2>5. /\ Known' = Known /\ attempts'[a] = state
        /\ \A b \in Known : b # a => attempts'[b] = attempts[b]
        /\ \A b, stage : b # a => (Waiting(b, stage)' <=> Waiting(b, stage))
    BY <1>1, <2>3, BecomesKeeps
  <2>6. ASSUME NEW j \in Known, NEW s, Paired(j, s)
        PROVE  Paired(j, s)'
    BY <1>1, <2>3, <2>6, PairedStage, PairedStays
  <2>7. AnswersDistinct' /\ AnswersMade' /\ RespondersWait' /\ InitiatorsWait'
    <3> HIDE DEF state
    <3>1. QED
      BY <1>1, <2>3, <2>4, WaitersStay
  <2>8. LastMessages'
    BY <1>1, <2>5, <2>6 DEF HandshakeInv, LastMessages
  <2>9. InitiatorsDone'
    <3>1. SUFFICES ASSUME NEW j \in Initiators, Waiting(j, "established")'
                   PROVE  \E s \in (Responders \cap Known)' : Paired(j, s)'
      BY DEF InitiatorsDone
    <3>2. Waiting(j, "established")
      BY <2>5, <3>1, AttemptAssumption
    <3>3. PICK s \in Responders \cap Known : Paired(j, s)
      BY <3>2 DEF HandshakeInv, InitiatorsDone
    <3>4. QED
      BY <2>5, <2>6, <3>2, <3>3 DEF Waiting
  <2>10. RespondersDone'
    <3>1. SUFFICES ASSUME NEW s \in Responders, Waiting(s, "established")'
                   PROVE  \E j \in (Initiators \cap Known)' :
                            Paired(j, s)' /\ attempts'[s] = Answered(s, j)
      BY DEF RespondersDone, Answered, Msg1, Msg2, Msg3, ResponderSecret, Established,
             Transcript2, FinalizeKeys, Public
    <3>2. CASE s = a
      BY <2>1, <2>5, <2>6, <3>2
    <3>3. CASE s # a
      <4>1. Waiting(s, "established") /\ s \in Known
        BY <2>5, <3>1, <3>3 DEF Waiting
      <4>2. PICK j \in Initiators \cap Known : Paired(j, s) /\ attempts[s] = Answered(s, j)
        BY <4>1 DEF HandshakeInv, RespondersDone
      <4>3. QED
        BY <2>5, <2>6, <3>3, <4>1, <4>2
    <3>4. QED
      BY <3>2, <3>3
  <2>11. QED
    BY <2>5, <2>7, <2>8, <2>9, <2>10 DEF HandshakeInv
<1>4. QED
  BY <1>2, <1>3

LEMMA HandshakeNextInv ==
  HandshakeInv /\ (HandshakeNext \/ UNCHANGED handshakeVars) => HandshakeInv'
<1>1. SUFFICES ASSUME HandshakeInv, HandshakeNext \/ UNCHANGED handshakeVars
               PROVE  HandshakeInv'
  OBVIOUS
<1>2. CASE \E a \in Initiators : \E expected \in Pins : InitiatorStart(a, expected)
  BY <1>1, <1>2, StartKeeps
<1>3. CASE \E a \in Responders : \E expected \in Pins, msg1 \in JoinedMsg1s :
             ResponderRespond(a, expected, msg1)
  BY <1>1, <1>3, RespondKeeps
<1>4. CASE \E a \in Initiators : \E msg2 \in JoinedMsg2s : InitiatorComplete(a, msg2)
  BY <1>1, <1>4, InitiatorCompleteKeeps
<1>5. CASE \E a \in Responders : \E msg3 \in JoinedMsg3s : ResponderComplete(a, msg3)
  BY <1>1, <1>5, ResponderCompleteKeeps
<1>6. CASE UNCHANGED handshakeVars
  BY <1>1, <1>6 DEF handshakeVars, HandshakeInv, Known, Waiting, AnswersDistinct, AnswersMade,
    RespondersWait, InitiatorsWait, LastMessages, InitiatorsDone, RespondersDone, Paired
<1>7. QED
  BY <1>1, <1>2, <1>3, <1>4, <1>5, <1>6 DEF HandshakeNext

-----------------------------------------------------------------------------
(***************************************************************************)
(* The invariant gives both properties.                                    *)
(***************************************************************************)
\* One answer of a responder, hence one partner of it.
LEMMA OnePartner ==
  ASSUME HandshakeInv, NEW r, NEW i, NEW j, Paired(i, r), Paired(j, r)
  PROVE  i = j
<1>1. Msg2(r, Msg1(i)) = Msg2(r, Msg1(j))
  BY Msg2Fields DEF HandshakeInv, AnswersDistinct, Paired
<1>2. QED
  BY <1>1, Msg2Injective, Msg1Injective

LEMMA InvAgree == HandshakeInv => PeersAgree
<1>1. SUFFICES ASSUME HandshakeInv PROVE PeersAgree
  OBVIOUS
<1>2. ASSUME NEW r \in Responders, Waiting(r, "established")
      PROVE  \E i \in Initiators :
               /\ Waiting(i, "established") /\ Mirrored(attempts[r].keys, attempts[i].keys)
               /\ attempts[r].peer = Public(Owner[i]) /\ attempts[i].peer = Public(Owner[r])
  <2>1. PICK i \in Initiators \cap Known : Paired(i, r) /\ attempts[r] = Answered(r, i)
    BY <1>1, <1>2 DEF HandshakeInv, RespondersDone
  <2>2. attempts[i] = Initiated(i, Msg1(i), Msg2(r, Msg1(i)))
    BY <2>1 DEF Paired
  <2>3. QED
    BY <2>1, <2>2, EndsMirrored DEF Waiting
<1>3. ASSUME NEW i \in Initiators, Waiting(i, "established")
      PROVE  \E r \in Responders \cap Known :
               /\ attempts[i].peer = Public(Owner[r])
               /\ Waiting(r, "established") => Mirrored(attempts[r].keys, attempts[i].keys)
               /\ Waiting(r, "msg2") /\ attempts[r].expected \subseteq {Public(Owner[i])} =>
                    \E msg3 \in msg3s :
                      LET done == Completed(attempts[r], msg3)
                      IN done.stage = "established" /\ Mirrored(done.keys, attempts[i].keys)
  <2>1. PICK r \in Responders \cap Known : Paired(i, r)
    BY <1>1, <1>3 DEF HandshakeInv, InitiatorsDone
  <2>2. /\ attempts[i] = Initiated(i, Msg1(i), Msg2(r, Msg1(i)))
        /\ Msg3(i, Msg1(i), Msg2(r, Msg1(i))) \in msg3s
        /\ Msg2(r, Msg1(i)) \in msg2s
    BY <2>1 DEF Paired
  <2>3. attempts[i].peer = Public(Owner[r]) /\ Mirrored(Answered(r, i).keys, attempts[i].keys)
    BY <2>2, EndsMirrored
  <2>4. ASSUME Waiting(r, "established")
        PROVE  Mirrored(attempts[r].keys, attempts[i].keys)
    <3>1. PICK j \in Initiators \cap Known : Paired(j, r) /\ attempts[r] = Answered(r, j)
      BY <1>1, <2>4 DEF HandshakeInv, RespondersDone
    <3>2. QED
      BY <1>1, <2>1, <2>3, <3>1, OnePartner
  <2>5. ASSUME Waiting(r, "msg2"), attempts[r].expected \subseteq {Public(Owner[i])}
        PROVE  \E msg3 \in msg3s :
                 LET done == Completed(attempts[r], msg3)
                 IN done.stage = "established" /\ Mirrored(done.keys, attempts[i].keys)
    <3>1. /\ attempts[r].msg2_full = Msg2(r, attempts[r].msg1)
          /\ attempts[r].msg2_full \in msg2s
      BY <1>1, <2>5 DEF HandshakeInv, RespondersWait
    <3>2. Msg2(r, attempts[r].msg1) = Msg2(r, Msg1(i))
      BY <1>1, <2>2, <3>1, Msg2Fields DEF HandshakeInv, AnswersDistinct
    <3>3. attempts[r].msg1 = Msg1(i)
      BY <3>2, Msg2Injective
    <3>4. Completed(attempts[r], Msg3(i, Msg1(i), Msg2(r, Msg1(i)))) = Answered(r, i)
      BY <1>1, <2>5, <3>3, CompletedWhole
    <3>5. QED
      BY <2>2, <2>3, <3>4, EndsMirrored
  <2>6. QED
    BY <2>3, <2>4, <2>5
<1>4. QED
  BY <1>2, <1>3 DEF PeersAgree

\* The keys of an established attempt are made from messages that name it.
KeysOfEnd(a, end, msg1, msg2) ==
  \E secret, id, sig :
    attempts[a].keys = FinalizeKeys(secret, <<Transcript2(msg1, msg2, id), sig>>, end)

LEMMA InvSeparate == HandshakeInv => KeysSeparate
<1>1. SUFFICES ASSUME HandshakeInv PROVE KeysSeparate
  OBVIOUS
<1> DEFINE Live == {a \in Known : Waiting(a, "established")}
<1>2. ASSUME NEW i \in Initiators \cap Live
      PROVE  \E msg2 : KeysOfEnd(i, TRUE, Msg1(i), msg2)
  <2>1. PICK r \in Responders \cap Known : Paired(i, r)
    BY <1>1, <1>2 DEF HandshakeInv, InitiatorsDone
  <2>2. attempts[i].keys = Initiated(i, Msg1(i), Msg2(r, Msg1(i))).keys
    BY <2>1 DEF Paired
  <2>3. QED
    BY <2>2 DEF KeysOfEnd, Initiated, Established
<1>3. ASSUME NEW r \in Responders \cap Live
      PROVE  \E msg1 : KeysOfEnd(r, FALSE, msg1, Msg2(r, msg1))
  <2>1. PICK i \in Initiators \cap Known : attempts[r] = Answered(r, i)
    BY <1>1, <1>3 DEF HandshakeInv, RespondersDone
  <2> DEFINE msg2 == Msg2(r, Msg1(i))
  <2>2. attempts[r].keys =
          FinalizeKeys(ResponderSecret(r, Msg1(i), msg2.ct),
            <<Transcript2(Msg1(i), msg2, Public(Owner[i])), Msg3(i, Msg1(i), msg2).sig>>, FALSE)
    BY <2>1 DEF Answered, Established
  <2>3. KeysOfEnd(r, FALSE, Msg1(i), msg2)
    BY <2>2 DEF KeysOfEnd
  <2>4. QED
    BY <2>3
<1>4. ASSUME NEW a \in Live
      PROVE  \E end \in BOOLEAN : \E msg1, msg2 :
               /\ KeysOfEnd(a, end, msg1, msg2)
               /\ end => msg1 = Msg1(a)
               /\ ~end => msg2 = Msg2(a, msg1)
  <2>1. a \in Initiators \/ a \in Responders
    BY <1>1 DEF HandshakeInv
  <2>2. QED
    BY <1>2, <1>3, <2>1
<1>5. ASSUME NEW a \in Live, NEW b \in Live
      PROVE  /\ attempts[a].keys.sender = attempts[b].keys.sender => a = b
             /\ attempts[a].keys.receiver = attempts[b].keys.receiver => a = b
             /\ attempts[a].keys.ratchet_root
                  \notin {attempts[b].keys.sender, attempts[b].keys.receiver}
  <2>1. PICK end \in BOOLEAN : \E msg1, msg2 :
               /\ KeysOfEnd(a, end, msg1, msg2)
               /\ end => msg1 = Msg1(a)
               /\ ~end => msg2 = Msg2(a, msg1)
    BY <1>4
  <2>2. PICK m1, m2 : /\ KeysOfEnd(a, end, m1, m2)
                      /\ end => m1 = Msg1(a)
                      /\ ~end => m2 = Msg2(a, m1)
    BY <2>1
  <2>3. PICK end2 \in BOOLEAN : \E msg1, msg2 :
               /\ KeysOfEnd(b, end2, msg1, msg2)
               /\ end2 => msg1 = Msg1(b)
               /\ ~end2 => msg2 = Msg2(b, msg1)
    BY <1>4
  <2>4. PICK n1, n2 : /\ KeysOfEnd(b, end2, n1, n2)
                      /\ end2 => n1 = Msg1(b)
                      /\ ~end2 => n2 = Msg2(b, n1)
    BY <2>3
  <2>5. ASSUME end = end2, m1 = n1, m2 = n2
        PROVE  a = b
    <3>1. CASE end
      BY <2>2, <2>4, <2>5, <3>1, Msg1Injective
    <3>2. CASE ~end
      BY <2>2, <2>4, <2>5, <3>2, Msg2Injective
    <3>3. QED
      BY <3>1, <3>2
  <2>6. /\ attempts[a].keys.sender = attempts[b].keys.sender => end = end2 /\ m1 = n1 /\ m2 = n2
        /\ attempts[a].keys.receiver = attempts[b].keys.receiver
             => end = end2 /\ m1 = n1 /\ m2 = n2
        /\ attempts[a].keys.ratchet_root
             \notin {attempts[b].keys.sender, attempts[b].keys.receiver}
    BY <2>2, <2>4, KeysTell DEF KeysOfEnd
  <2>7. QED
    BY <2>5, <2>6
<1>6. QED
  BY <1>5 DEF KeysSeparate

-----------------------------------------------------------------------------
(***************************************************************************)
(* The record layer: for every window width and every counter width the    *)
(* filter opens each record once and refuses nothing else.  The filter     *)
(* keeps only a window, so the invariant says what the window knows: the   *)
(* highest number opened, and of each number within the window's reach     *)
(* whether it was opened.                                                  *)
(***************************************************************************)
\* A filter rx that has opened the numbers t counts.
Knows(rx, t) ==
  \/ rx.highest_seq = {} /\ rx.window = {} /\ \A n \in Seqs : t[n] = 0
  \/ \E h \in Seqs :
       /\ rx.highest_seq = {h}
       /\ t[h] = 1
       /\ \A n \in Seqs : n > h => t[n] = 0
       /\ \A n \in Seqs : (n < h /\ h - n \in Ages) => (h - n \in rx.window <=> t[n] = 1)

WindowInv ==
  /\ TypeOK
  /\ OpenedOnce
  /\ \A d \in Dirs : Knows(receiver[d], times[d])

Receivers == [highest_seq : SUBSET Seqs, window : SUBSET Ages]

LEMMA Sizes == REPLAY_WINDOW \in Nat /\ REPLAY_WINDOW >= 1 /\ MaxSeq \in Nat
  BY WindowAssumption

\* A filter that knows what was opened accepts exactly the rest in its reach.
LEMMA KnowsAccepts ==
  ASSUME NEW rx \in Receivers, NEW t \in [Seqs -> Nat], Knows(rx, t),
         \A m \in Seqs : t[m] <= 1, NEW n \in Seqs
  PROVE  Accepts(rx, n)
           <=> (t[n] = 0 /\ \A m \in Seqs : t[m] > 0 => m <= n + REPLAY_WINDOW)
<1>1. CASE rx.highest_seq = {} /\ \A m \in Seqs : t[m] = 0
  BY <1>1 DEF Accepts
<1>2. ASSUME NEW h \in Seqs, rx.highest_seq = {h}, t[h] = 1,
             \A m \in Seqs : m > h => t[m] = 0,
             \A m \in Seqs : (m < h /\ h - m \in Ages) => (h - m \in rx.window <=> t[m] = 1)
      PROVE  Accepts(rx, n)
               <=> (t[n] = 0 /\ \A m \in Seqs : t[m] > 0 => m <= n + REPLAY_WINDOW)
  <2>1. Accepts(rx, n) <=> (n > h \/ (n < h /\ h - n \in Ages /\ h - n \notin rx.window))
    BY <1>2 DEF Accepts
  <2>2. (\A m \in Seqs : t[m] > 0 => m <= n + REPLAY_WINDOW) <=> h <= n + REPLAY_WINDOW
    BY <1>2, Sizes DEF Seqs
  <2>3. t[n] \in {0, 1}
    OBVIOUS
  <2>4. (n > h \/ (n < h /\ h - n \in Ages /\ h - n \notin rx.window))
          <=> (t[n] = 0 /\ h <= n + REPLAY_WINDOW)
    <3>1. h \in Nat /\ n \in Nat /\ REPLAY_WINDOW \in Nat
      BY Sizes DEF Seqs
    <3>2. CASE n > h
      BY <1>2, <3>1, <3>2
    <3>3. CASE n = h
      BY <1>2, <3>1, <3>3
    <3>4. CASE n < h
      <4>1. h - n \in Ages <=> h <= n + REPLAY_WINDOW
        BY <3>1, <3>4 DEF Ages
      <4>2. QED
        BY <1>2, <2>3, <3>1, <3>4, <4>1
    <3>5. QED
      BY <3>1, <3>2, <3>3, <3>4
  <2>5. QED
    BY <2>1, <2>2, <2>4
<1>3. QED
  BY <1>1, <1>2 DEF Knows

\* record_seen keeps the filter's knowledge exact, whichever way the window moves.
LEMMA SeenKnows ==
  ASSUME NEW rx \in Receivers, NEW t \in [Seqs -> Nat], Knows(rx, t),
         \A m \in Seqs : t[m] <= 1, NEW n \in Seqs, Accepts(rx, n)
  PROVE  /\ RecordSeen(rx, n) \in Receivers
         /\ t[n] = 0
         /\ Knows(RecordSeen(rx, n), [t EXCEPT ![n] = @ + 1])
<1> DEFINE seen == RecordSeen(rx, n)
           u == [t EXCEPT ![n] = @ + 1]
<1>1. t[n] = 0
  BY KnowsAccepts
<1>2. u[n] = 1 /\ \A m \in Seqs : m # n => u[m] = t[m]
  BY <1>1
<1>3. CASE rx.highest_seq = {} /\ rx.window = {} /\ \A m \in Seqs : t[m] = 0
  <2>1. seen = [highest_seq |-> {n}, window |-> {}]
    BY <1>3 DEF RecordSeen
  <2>2. seen \in Receivers /\ seen.highest_seq = {n} /\ seen.window = {}
    BY <2>1 DEF Receivers
  <2>3. \A m \in Seqs : m # n => u[m] = 0
    BY <1>2, <1>3
  <2>4. n \in Nat /\ \A m \in Seqs : m \in Nat
    BY DEF Seqs
  <2>5. Knows(seen, u)
    <3> HIDE DEF seen, u
    <3>1. QED
      BY <1>2, <2>2, <2>3, <2>4 DEF Knows
  <2>6. QED
    BY <1>1, <2>2, <2>5
<1>4. ASSUME NEW h \in Seqs, rx.highest_seq = {h}, t[h] = 1,
             \A m \in Seqs : m > h => t[m] = 0,
             \A m \in Seqs : (m < h /\ h - m \in Ages) => (h - m \in rx.window <=> t[m] = 1)
      PROVE  seen \in Receivers /\ Knows(seen, u)
  <2>1. h \in Nat /\ n \in Nat /\ n # h
    BY <1>1, <1>4 DEF Seqs
  <2>2. CASE n > h
    <3> DEFINE shift == n - h
    <3>1. seen = [highest_seq |-> {n}, window |-> Slide(rx.window, shift)]
      BY <1>4, <2>2 DEF RecordSeen
    <3>2. shift \in Nat /\ shift >= 1
      BY <2>1, <2>2
    <3>3. rx.window \subseteq Ages
      BY DEF Receivers
    <3>4. Slide(rx.window, shift) \subseteq Ages
      BY <3>2, <3>3, Sizes DEF Slide, Ages
    <3>5. \A a \in Ages : a \in Slide(rx.window, shift)
                            <=> (a = shift \/ (a > shift /\ a - shift \in rx.window))
      BY <3>2, <3>3, Sizes DEF Slide, Ages
    <3>6. ASSUME NEW m \in Seqs, m < n, n - m \in Ages
          PROVE  n - m \in Slide(rx.window, shift) <=> u[m] = 1
      <4>1. m \in Nat
        BY DEF Seqs
      <4>2. CASE m > h
        BY <1>2, <1>4, <2>1, <3>5, <3>6, <4>1, <4>2 DEF Ages
      <4>3. CASE m = h
        BY <1>2, <1>4, <2>1, <3>5, <3>6, <4>1, <4>3
      <4>4. CASE m < h
        <5>1. (n - m) - shift = h - m /\ n - m > shift /\ h - m \in Ages
          BY <2>1, <2>2, <3>6, <4>1, <4>4, Sizes DEF Ages
        <5>2. n - m \in Slide(rx.window, shift) <=> h - m \in rx.window
          BY <3>2, <3>5, <3>6, <5>1
        <5>3. QED
          BY <1>2, <1>4, <3>6, <4>4, <5>1, <5>2, <2>1, <4>1
      <4>5. QED
        BY <2>1, <4>1, <4>2, <4>3, <4>4
    <3>7. \A m \in Seqs : m > n => u[m] = 0
      BY <1>2, <1>4, <2>1, <2>2 DEF Seqs
    <3>8. QED
      BY <1>2, <3>1, <3>4, <3>6, <3>7 DEF Knows, Receivers
  <2>3. CASE n < h
    <3>1. seen = [rx EXCEPT !.window = @ \cup {h - n}]
      <4>1. {g - n : g \in rx.highest_seq} = {h - n}
        BY <1>4
      <4>2. ~(\A g \in rx.highest_seq : n > g)
        BY <1>4, <2>1, <2>3
      <4>3. QED
        BY <4>1, <4>2 DEF RecordSeen
    <3>2. h - n \in Ages
      BY <1>4, <2>1, <2>3 DEF Accepts
    <3>3. seen \in Receivers /\ seen.highest_seq = {h} /\ seen.window = rx.window \cup {h - n}
      BY <1>4, <3>1, <3>2 DEF Receivers
    <3>4. ASSUME NEW m \in Seqs, m < h, h - m \in Ages
          PROVE  h - m \in seen.window <=> u[m] = 1
      <4>1. m \in Nat
        BY DEF Seqs
      <4>2. h - m = h - n <=> m = n
        BY <2>1, <4>1
      <4>3. QED
        BY <1>2, <1>4, <3>3, <3>4, <4>2
    <3>5. u[h] = 1 /\ \A m \in Seqs : m > h => u[m] = 0
      BY <1>2, <1>4, <2>1, <2>3 DEF Seqs
    <3>6. QED
      BY <3>3, <3>4, <3>5 DEF Knows
  <2>4. QED
    BY <2>1, <2>2, <2>3
<1>5. QED
  BY <1>1, <1>3, <1>4 DEF Knows

LEMMA WindowInit == Init => WindowInv
  BY Sizes DEF Init, WindowInv, TypeOK, OpenedOnce, Knows, Seqs

\* A record open takes, sealed in some direction or forged.
LEMMA WindowOpen ==
  ASSUME WindowInv, NEW d \in Dirs, NEW r, r.seq \in Seqs,
         r.key = d => r.seq < next_seq[d], Open(d, r)
  PROVE  WindowInv'
<1>1. /\ receiver[d] \in Receivers /\ times[d] \in [Seqs -> Nat]
      /\ Knows(receiver[d], times[d]) /\ \A m \in Seqs : times[d][m] <= 1
  BY DEF WindowInv, TypeOK, OpenedOnce, Receivers
<1>2. CASE Accepts(receiver[d], r.seq) /\ r.key = d
  <2> DEFINE u == [times[d] EXCEPT ![r.seq] = @ + 1]
  <2>1. /\ receiver' = [receiver EXCEPT ![d] = RecordSeen(receiver[d], r.seq)]
        /\ times' = [times EXCEPT ![d] = u]
        /\ next_seq' = next_seq
    BY <1>2 DEF Open, Filter
  <2>2. /\ RecordSeen(receiver[d], r.seq) \in Receivers
        /\ times[d][r.seq] = 0
        /\ Knows(RecordSeen(receiver[d], r.seq), u)
    BY <1>1, <1>2, SeenKnows
  <2>3. u \in [Seqs -> Nat] /\ u[r.seq] = 1 /\ \A m \in Seqs : m # r.seq => u[m] = times[d][m]
    BY <1>1, <2>2
  <2> HIDE DEF u
  <2>4. TypeOK'
    BY <2>1, <2>2, <2>3 DEF WindowInv, TypeOK, Receivers
  <2>5. OpenedOnce'
    <3>1. SUFFICES ASSUME NEW e \in Dirs, NEW n \in Seqs
                   PROVE  times'[e][n] <= 1 /\ (times'[e][n] = 1 => n < next_seq[e])
      BY <2>1 DEF OpenedOnce
    <3>2. CASE e = d
      <4>1. times'[e] = u
        BY <2>1, <3>2 DEF WindowInv, TypeOK
      <4>2. QED
        BY <1>2, <2>3, <3>2, <4>1 DEF WindowInv, OpenedOnce
    <3>3. CASE e # d
      BY <2>1, <3>3 DEF WindowInv, OpenedOnce, TypeOK
    <3>4. QED
      BY <3>2, <3>3
  <2>6. \A e \in Dirs : Knows(receiver'[e], times'[e])
    <3>1. SUFFICES ASSUME NEW e \in Dirs PROVE Knows(receiver'[e], times'[e])
      OBVIOUS
    <3>2. CASE e = d
      BY <2>1, <2>2, <3>2 DEF WindowInv, TypeOK
    <3>3. CASE e # d
      BY <2>1, <3>3 DEF WindowInv, TypeOK
    <3>4. QED
      BY <3>2, <3>3
  <2>7. QED
    BY <2>4, <2>5, <2>6 DEF WindowInv
<1>3. CASE ~(Accepts(receiver[d], r.seq) /\ r.key = d)
  <2>1. receiver' = receiver /\ times' = times /\ next_seq' = next_seq
    BY <1>3 DEF Open, Filter, WindowInv, TypeOK
  <2>2. QED
    BY <2>1 DEF WindowInv, TypeOK, OpenedOnce, Knows
<1>4. QED
  BY <1>2, <1>3

LEMMA WindowNext == WindowInv /\ [Next]_vars => WindowInv'
<1>1. SUFFICES ASSUME WindowInv, [Next]_vars PROVE WindowInv'
  OBVIOUS
<1>2. CASE UNCHANGED vars
  BY <1>1, <1>2 DEF vars, WindowInv, TypeOK, OpenedOnce, Knows
<1>3. ASSUME NEW d \in Dirs, Seal(d)
      PROVE  WindowInv'
  <2>1. /\ next_seq[d] \in Nat /\ next_seq[d] < MaxSeq
        /\ next_seq' = [next_seq EXCEPT ![d] = @ + 1]
        /\ receiver' = receiver /\ times' = times
    BY <1>1, <1>3 DEF Seal, WindowInv, TypeOK, Seqs
  <2>2. TypeOK'
    <3>1. next_seq[d] + 1 \in Seqs
      BY <2>1, Sizes DEF Seqs
    <3>2. next_seq' \in [Dirs -> Seqs]
      BY <1>1, <2>1, <3>1 DEF WindowInv, TypeOK
    <3>3. QED
      BY <1>1, <2>1, <3>2 DEF WindowInv, TypeOK
  <2>3. \A e \in Dirs : next_seq'[e] \in Nat /\ next_seq[e] \in Nat /\ next_seq[e] <= next_seq'[e]
    BY <1>1, <2>1, Sizes DEF WindowInv, TypeOK, Seqs
  <2>4. OpenedOnce'
    BY <1>1, <2>1, <2>3 DEF WindowInv, OpenedOnce, Seqs
  <2>5. \A e \in Dirs : Knows(receiver'[e], times'[e])
    BY <1>1, <2>1 DEF WindowInv
  <2>6. QED
    BY <2>2, <2>4, <2>5 DEF WindowInv
<1>4. ASSUME NEW d \in Dirs, NEW e \in Dirs, NEW n \in 0 .. (next_seq[e] - 1),
             Open(d, [key |-> e, seq |-> n])
      PROVE  WindowInv'
  <2>1. next_seq[e] \in 0 .. MaxSeq
    BY <1>1 DEF WindowInv, TypeOK, Seqs
  <2>2. n \in Seqs /\ n < next_seq[e]
    BY <2>1, Sizes DEF Seqs
  <2>3. QED
    BY <1>1, <1>4, <2>2, WindowOpen
<1>5. ASSUME NEW d \in Dirs, NEW n \in Seqs, Open(d, [key |-> Forged, seq |-> n])
      PROVE  WindowInv'
  BY <1>1, <1>5, ForgedAssumption, WindowOpen
<1>6. QED
  BY <1>1, <1>2, <1>3, <1>4, <1>5 DEF Next

(***************************************************************************)
(* Every variable keeps its type; in particular the counter never passes   *)
(* u64::MAX (seal's checked_add), so no number seals two records.          *)
(***************************************************************************)
THEOREM TransportTypeCorrect == Spec => []TypeOK
<1>1. WindowInv => TypeOK
  BY DEF WindowInv
<1>2. QED
  BY <1>1, WindowInit, WindowNext, PTL DEF Spec

(***************************************************************************)
(* open returns only what was sealed in its direction, and each once.      *)
(***************************************************************************)
THEOREM OpensOnce == Spec => []OpenedOnce
<1>1. WindowInv => OpenedOnce
  BY DEF WindowInv
<1>2. QED
  BY <1>1, WindowInit, WindowNext, PTL DEF Spec

(***************************************************************************)
(* check_replay accepts exactly the records not opened before and not left *)
(* more than REPLAY_WINDOW behind, whatever was forged or reflected.       *)
(***************************************************************************)
THEOREM FilterIsExact == Spec => []AcceptsExactly
<1>1. WindowInv => AcceptsExactly
  BY KnowsAccepts DEF WindowInv, TypeOK, OpenedOnce, AcceptsExactly, Receivers
<1>2. QED
  BY <1>1, WindowInit, WindowNext, PTL DEF Spec

-----------------------------------------------------------------------------
(***************************************************************************)
(* Sealed sender: every certificate and every envelope was made by the     *)
(* code, and says by its signature or its key for whom.                    *)
(***************************************************************************)
Granted(c) ==
  \E issuer, sender, expires_at :
    /\ <<issuer, sender, expires_at>> \in issued
    /\ c.sender_identity = Public(sender) /\ c.expires_at = expires_at
    /\ c.signature = TrySign(issuer, CertSignedBytes(Public(sender), expires_at))

\* The signature of a joined certificate is somebody's, of something granted.
SignedByIssuer(signature) ==
  \E issuer, sender, expires_at :
    /\ <<issuer, sender, expires_at>> \in issued
    /\ signature = TrySign(issuer, CertSignedBytes(Public(sender), expires_at))

SealedFor(e) ==
  /\ e.payload.aad = e.header
  /\ \E recipient, dh :
       /\ e.header.ml_kem_ct.key = recipient
       /\ e.payload.key = EnvelopeKey(dh, KemSecret(recipient, e.header.ml_kem_ct))

SealedInv ==
  /\ \A c \in certificates : Granted(c)
  /\ \A e \in envelopes : SealedFor(e) /\ SignedByIssuer(e.payload.certificate.signature)
  /\ UnsealedAsVouched

LEMMA SealedInitInv == SealedInit => SealedInv
BY DEF SealedInit, SealedInv, UnsealedAsVouched

LEMMA IssueKeeps ==
  ASSUME SealedInv, NEW issuer, NEW sender, NEW expires_at, Issue(issuer, sender, expires_at)
  PROVE  SealedInv'
<1>1. /\ certificates' = certificates \cup {Certificate(issuer, sender, expires_at)}
      /\ issued' = issued \cup {<<issuer, sender, expires_at>>}
      /\ UNCHANGED <<now, envelopes, unsealed>>
  BY DEF Issue
<1>2. \A c \in certificates' : Granted(c)'
  <2>1. Granted(Certificate(issuer, sender, expires_at))'
    BY <1>1 DEF Granted, Certificate
  <2>2. \A c \in certificates : Granted(c)'
    BY <1>1 DEF SealedInv, Granted
  <2>3. QED
    BY <1>1, <2>1, <2>2
<1>3. \A e \in envelopes' : SealedFor(e) /\ SignedByIssuer(e.payload.certificate.signature)'
  <2>1. \A signature : SignedByIssuer(signature) => SignedByIssuer(signature)'
    BY <1>1 DEF SignedByIssuer
  <2>2. \A e \in envelopes : SealedFor(e) /\ SignedByIssuer(e.payload.certificate.signature)
    BY DEF SealedInv
  <2>3. QED
    BY <1>1, <2>1, <2>2
<1>4. UnsealedAsVouched'
  BY <1>1 DEF SealedInv, UnsealedAsVouched
<1>5. QED
  BY <1>2, <1>3, <1>4 DEF SealedInv, SealedFor

LEMMA SealToKeeps ==
  ASSUME SealedInv, NEW recipient, NEW certificate \in JoinedCertificates, NEW text,
         SealTo(recipient, certificate, text)
  PROVE  SealedInv'
<1> DEFINE e == SealEnvelope(<<Cardinality(envelopes)>>, recipient, certificate, text)
<1>1. envelopes' = envelopes \cup {e} /\ UNCHANGED <<now, issued, certificates, unsealed>>
  BY DEF SealTo
<1>2. SealedFor(e)
  BY DEF SealedFor, SealEnvelope, Encapsulate
<1>3. e.payload.certificate = certificate
  BY DEF SealEnvelope
<1>4. SignedByIssuer(certificate.signature)
  <2>1. PICK c \in certificates : certificate.signature = c.signature
    BY DEF JoinedCertificates
  <2>2. QED
    BY <2>1 DEF SealedInv, Granted, SignedByIssuer
<1> HIDE DEF e
<1>5. \A f \in envelopes' : SealedFor(f) /\ SignedByIssuer(f.payload.certificate.signature)'
  <2>1. \A signature : SignedByIssuer(signature) => SignedByIssuer(signature)'
    BY <1>1 DEF SignedByIssuer
  <2>2. \A f \in envelopes : SealedFor(f) /\ SignedByIssuer(f.payload.certificate.signature)
    BY DEF SealedInv
  <2>3. QED
    BY <1>1, <1>2, <1>3, <1>4, <2>1, <2>2
<1>6. UnsealedAsVouched'
  BY <1>1 DEF SealedInv, UnsealedAsVouched
<1>7. \A c \in certificates' : Granted(c)'
  <2>1. \A c : Granted(c) => Granted(c)'
    BY <1>1 DEF Granted
  <2>2. QED
    BY <1>1, <2>1 DEF SealedInv
<1>8. QED
  BY <1>5, <1>6, <1>7 DEF SealedInv, SealedFor

\* Key and associated data of an envelope settle its header and its recipient, and a
\* signature that verifies settles the grant.
LEMMA UnsealKeeps ==
  ASSUME SealedInv, NEW recipient, NEW envelope \in JoinedEnvelopes, NEW issuer,
         Unseal(recipient, envelope, issuer)
  PROVE  SealedInv'
<1>1. PICK opened \in OpenEnvelope(recipient, envelope) :
        /\ VerifyCertificate(opened.certificate, issuer, now)
        /\ unsealed' = unsealed \cup
             {[recipient |-> recipient, issuer |-> issuer, at |-> now, header |-> envelope.header,
               certificate |-> opened.certificate, text |-> opened.text]}
  BY DEF Unseal
<1>2. UNCHANGED <<now, issued, certificates, envelopes>>
  BY DEF Unseal
<1>3. /\ envelope.payload.key =
           EnvelopeKey(DiffieHellman(recipient, envelope.header.ephemeral_public),
                       KemSecret(recipient, envelope.header.ml_kem_ct))
      /\ envelope.payload.aad = envelope.header
      /\ opened.certificate = envelope.payload.certificate /\ opened.text = envelope.payload.text
  BY <1>1 DEF OpenEnvelope
<1>4. PICK e \in envelopes : envelope.payload = e.payload
  BY DEF JoinedEnvelopes
<1>5. SealedFor(e) /\ SignedByIssuer(e.payload.certificate.signature)
  BY DEF SealedInv
<1>6. e.header = envelope.header
  BY <1>3, <1>4, <1>5 DEF SealedFor
<1>7. e.header.ml_kem_ct.key = recipient
  BY <1>3, <1>4, <1>5 DEF SealedFor, EnvelopeKey, KemSecret
<1> DEFINE cert == opened.certificate
<1>8. PICK i, s, t : <<i, s, t>> \in issued
                     /\ cert.signature = TrySign(i, CertSignedBytes(Public(s), t))
  BY <1>3, <1>4, <1>5 DEF SignedByIssuer
<1>9. /\ cert.signature.ed25519 = <<issuer, CertSignedBytes(cert.sender_identity, cert.expires_at)>>
      /\ now < cert.expires_at
  BY <1>1 DEF VerifyCertificate, VerifyIdentity, Public
<1>10. i = issuer /\ Public(s) = cert.sender_identity /\ t = cert.expires_at
  <2>1. cert.signature.ed25519 = <<i, CertSignedBytes(Public(s), t)>>
    BY <1>8 DEF TrySign
  <2>2. QED
    BY <1>9, <2>1 DEF CertSignedBytes
<1> DEFINE u == [recipient |-> recipient, issuer |-> issuer, at |-> now, header |-> envelope.header,
                 certificate |-> opened.certificate, text |-> opened.text]
<1>11. /\ \E f \in envelopes :
            /\ f.header = u.header /\ f.header.ml_kem_ct.key = u.recipient
            /\ f.payload.certificate = u.certificate /\ f.payload.text = u.text
       /\ \E grant \in issued :
            /\ grant[1] = u.issuer /\ Public(grant[2]) = u.certificate.sender_identity
            /\ grant[3] = u.certificate.expires_at /\ u.at < grant[3]
  <2>1. /\ u.recipient = recipient /\ u.issuer = issuer /\ u.at = now /\ u.header = envelope.header
        /\ u.certificate = cert /\ u.text = opened.text
    OBVIOUS
  <2> HIDE DEF u, cert
  <2>2. <<i, s, t>>[1] = i /\ <<i, s, t>>[2] = s /\ <<i, s, t>>[3] = t
    OBVIOUS
  <2>3. \E grant \in issued :
            /\ grant[1] = u.issuer /\ Public(grant[2]) = u.certificate.sender_identity
            /\ grant[3] = u.certificate.expires_at /\ u.at < grant[3]
    BY <1>8, <1>9, <1>10, <2>1, <2>2
  <2>4. QED
    BY <1>3, <1>4, <1>6, <1>7, <2>1, <2>3 DEF cert
<1> HIDE DEF u
<1>12. unsealed' = unsealed \cup {u}
  BY <1>1 DEF u
<1>13. UnsealedAsVouched'
  BY <1>2, <1>11, <1>12 DEF SealedInv, UnsealedAsVouched
<1>14. QED
  BY <1>2, <1>13 DEF SealedInv, Granted, SealedFor, SignedByIssuer

LEMMA SealedNextInv == SealedInv /\ (SealedNext \/ UNCHANGED sealedVars) => SealedInv'
<1>1. SUFFICES ASSUME SealedInv, SealedNext \/ UNCHANGED sealedVars PROVE SealedInv'
  OBVIOUS
<1>2. CASE TimePasses \/ UNCHANGED sealedVars
  <2>1. UNCHANGED <<issued, certificates, envelopes, unsealed>>
    BY <1>2 DEF TimePasses, sealedVars
  <2>2. UnsealedAsVouched'
    BY <1>1, <2>1 DEF SealedInv, UnsealedAsVouched
  <2>3. \A c : Granted(c) => Granted(c)'
    BY <2>1 DEF Granted
  <2>4. \A signature : SignedByIssuer(signature) => SignedByIssuer(signature)'
    BY <2>1 DEF SignedByIssuer
  <2>5. QED
    BY <1>1, <2>1, <2>2, <2>3, <2>4 DEF SealedInv, SealedFor
<1>3. CASE \E issuer \in Issuers, sender \in Peers, expires_at \in Times :
             Issue(issuer, sender, expires_at)
  BY <1>1, <1>3, IssueKeeps
<1>4. CASE \E recipient \in Recipients, certificate \in JoinedCertificates, text \in Texts :
             SealTo(recipient, certificate, text)
  BY <1>1, <1>4, SealToKeeps
<1>5. CASE \E recipient \in Recipients, envelope \in JoinedEnvelopes, issuer \in Issuers :
             Unseal(recipient, envelope, issuer)
  BY <1>1, <1>5, UnsealKeeps
<1>6. QED
  BY <1>1, <1>2, <1>3, <1>4, <1>5 DEF SealedNext

-----------------------------------------------------------------------------
(***************************************************************************)
(* Cover traffic: every message goes out as it was padded, in its turn, in *)
(* the first slot that is free, and a random number is drawn for each slot.*)
(***************************************************************************)
Fits(text) == text \in Messages /\ Fitting(Len(text)) # {}

Packets == {Pad(text) : text \in {t \in Messages : Fits(t)}}
Outputs == [kind : {"Real"}, packet : Packets] \cup [kind : {"Dummy", "Silent"}]
Requests == [text : {t \in Messages : Fits(t)}, slot : Nat]

PacingTypes ==
  /\ queue \in Seq(Packets) /\ slots \in Seq(Outputs) /\ wanted \in Seq(Requests)
  /\ drawn = Len(slots) /\ Len(slots) <= Slots
  /\ draws \in [1 .. Slots -> BOOLEAN] \/ (draws = <<>> /\ slots = <<>>)

Sent == Len(wanted) - Len(queue)

\* Order[k] is the slot in which the k-th message went out.
SentIn(Order) ==
  /\ Order \in [1 .. Sent -> RealSlots]
  /\ \A s \in RealSlots : \E k \in 1 .. Sent : Order[k] = s
  /\ \A j, k \in 1 .. Sent : j < k => Order[j] < Order[k]
  /\ \A k \in 1 .. Sent :
       /\ slots[Order[k]].packet = Pad(wanted[k].text)
       /\ wanted[k].slot .. Order[k] \subseteq RealSlots

StillWaiting ==
  \A k \in 1 .. Len(queue) :
    /\ queue[k] = Pad(wanted[Sent + k].text)
    /\ wanted[Sent + k].slot .. Len(slots) \subseteq RealSlots

PacingInv ==
  /\ PacingTypes /\ Sent \in Nat
  /\ \E Order : SentIn(Order)
  /\ StillWaiting
  /\ SilenceBySlot

\* What was padded is read off the bucket as it was.
LEMMA PaddedWhole ==
  ASSUME NEW text, Fits(text)
  PROVE  Unpad(Pad(text)) = {text} /\ SizeOf(Pad(text)) \in Buckets
<1> DEFINE bucket == Min(Fitting(Len(text)))
           room == bucket - LENGTH_PREFIX_LEN
<1>1. text \in Seq(Nat) /\ Len(text) \in Nat
  BY PacingAssumption DEF Fits
<1>2. Fitting(Len(text)) \subseteq Nat /\ Fitting(Len(text)) # {}
  BY PacingAssumption DEF Fits, Fitting, Buckets
<1>3. bucket \in Fitting(Len(text))
  <2>1. \E b \in Fitting(Len(text)) : \A c \in Fitting(Len(text)) : b <= c
    BY <1>2, LeastElement
  <2>2. QED
    BY <2>1 DEF Min
<1> HIDE DEF bucket
<1>4. bucket \in Buckets /\ bucket \in Nat /\ bucket >= Len(text) + LENGTH_PREFIX_LEN
  BY <1>2, <1>3 DEF Fitting
<1>5. room \in Nat /\ room >= Len(text) /\ LENGTH_PREFIX_LEN + room = bucket
  BY <1>1, <1>4, PacingAssumption
<1> HIDE DEF room
<1> DEFINE bytes == [k \in 1 .. room |-> IF k <= Len(text) THEN text[k] ELSE 0]
<1>6. Pad(text) = [prefix |-> Len(text), bytes |-> bytes]
  BY DEF Pad, bucket, room
<1>7. \A k \in 1 .. room : bytes[k] \in Nat
  BY <1>1, <1>5
<1>8. bytes \in Seq(Nat) /\ Len(bytes) = room
  BY <1>5, <1>7
<1>9. SubSeq(bytes, 1, Len(text)) = text
  <2>1. SubSeq(bytes, 1, Len(text)) \in Seq(Nat) /\ Len(SubSeq(bytes, 1, Len(text))) = Len(text)
    BY <1>1, <1>5, <1>8
  <2>2. \A k \in 1 .. Len(text) : SubSeq(bytes, 1, Len(text))[k] = bytes[k]
    BY <1>1, <1>5, <1>8
  <2>3. \A k \in 1 .. Len(text) : bytes[k] = text[k]
    BY <1>1, <1>5
  <2> HIDE DEF bytes
  <2>4. QED
    BY <1>1, <2>1, <2>2, <2>3
<1> HIDE DEF bytes
<1>10. QED
  BY <1>1, <1>4, <1>5, <1>6, <1>8, <1>9 DEF Unpad, SizeOf

LEMMA PacingInitInv == PacingIdle => PacingInv
<1> SUFFICES ASSUME PacingIdle PROVE PacingInv
  OBVIOUS
<1>1. PacingTypes /\ Sent = 0 /\ RealSlots = {}
  <2>1. queue = <<>> /\ draws = <<>> /\ drawn = 0 /\ slots = <<>> /\ wanted = <<>>
    BY DEF PacingIdle
  <2>2. Len(slots) = 0 /\ DOMAIN slots = {} /\ Len(wanted) = 0 /\ Len(queue) = 0
    BY <2>1
  <2>3. queue \in Seq(Packets) /\ slots \in Seq(Outputs) /\ wanted \in Seq(Requests)
    BY <2>1
  <2>4. QED
    BY <2>1, <2>2, <2>3, PacingAssumption DEF PacingTypes, Sent, RealSlots
<1>2. SentIn([k \in 1 .. 0 |-> 0])
  BY <1>1 DEF SentIn
<1>3. StillWaiting /\ SilenceBySlot
  BY <1>1 DEF StillWaiting, SilenceBySlot, PacingIdle
<1>4. QED
  BY <1>1, <1>2, <1>3 DEF PacingInv

LEMMA NewSchedulerKeeps ==
  ASSUME PacingInv, NewScheduler
  PROVE  PacingInv'
<1>1. /\ draws' \in [1 .. Slots -> BOOLEAN] /\ draws = <<>>
      /\ UNCHANGED <<queue, drawn, slots, wanted>>
  BY DEF NewScheduler
<1>2. slots = <<>>
  <2>1. SUFFICES ASSUME draws \in [1 .. Slots -> BOOLEAN] PROVE slots = <<>>
    BY DEF PacingInv, PacingTypes
  <2>2. DOMAIN draws = 1 .. Slots /\ DOMAIN draws = {}
    BY <1>1, <2>1
  <2>3. Len(slots) = 0 /\ slots \in Seq(Outputs)
    BY <2>2, PacingAssumption DEF PacingInv, PacingTypes
  <2>4. QED
    BY <2>3
<1>3. RealSlots' = RealSlots /\ Sent' = Sent
  BY <1>1 DEF RealSlots, Sent
<1>4. PacingTypes'
  BY <1>1 DEF PacingInv, PacingTypes
<1>5. \E Order : SentIn(Order)'
  BY <1>1, <1>3 DEF PacingInv, SentIn
<1>6. StillWaiting'
  BY <1>1, <1>3 DEF PacingInv, StillWaiting
<1>7. SilenceBySlot'
  BY <1>1, <1>2 DEF SilenceBySlot
<1>8. QED
  BY <1>3, <1>4, <1>5, <1>6, <1>7 DEF PacingInv

LEMMA EnqueueKeeps ==
  ASSUME PacingInv, NEW text \in Messages, Enqueue(text)
  PROVE  PacingInv'
<1> DEFINE request == [text |-> text, slot |-> Len(slots) + 1]
<1>1. /\ queue' = Append(queue, Pad(text)) /\ wanted' = Append(wanted, request)
      /\ UNCHANGED <<draws, drawn, slots>>
      /\ Fits(text)
  BY DEF Enqueue, Fits
<1>2. /\ queue \in Seq(Packets) /\ slots \in Seq(Outputs) /\ wanted \in Seq(Requests)
      /\ Sent \in Nat /\ Sent = Len(wanted) - Len(queue)
  BY DEF PacingInv, PacingTypes, Sent
<1>3. Pad(text) \in Packets /\ request \in Requests
  BY <1>1, <1>2 DEF Packets, Requests
<1> HIDE DEF request
<1>4. /\ queue' \in Seq(Packets) /\ wanted' \in Seq(Requests)
      /\ Len(queue') = Len(queue) + 1 /\ Len(wanted') = Len(wanted) + 1
      /\ \A k \in 1 .. Len(queue) : queue'[k] = queue[k]
      /\ \A k \in 1 .. Len(wanted) : wanted'[k] = wanted[k]
      /\ queue'[Len(queue) + 1] = Pad(text) /\ wanted'[Len(wanted) + 1] = request
  BY <1>1, <1>2, <1>3
<1>5. PacingTypes'
  BY <1>1, <1>4 DEF PacingInv, PacingTypes
<1>6. Sent' = Sent /\ RealSlots' = RealSlots
  BY <1>1, <1>2, <1>4 DEF Sent, RealSlots
<1>7. ASSUME NEW Order, SentIn(Order)
      PROVE  SentIn(Order)'
  <2>1. 1 .. Sent \subseteq 1 .. Len(wanted)
    BY <1>2
  <2>2. QED
    BY <1>1, <1>4, <1>6, <1>7, <2>1 DEF SentIn
<1>8. StillWaiting'
  <2>1. SUFFICES ASSUME NEW k \in 1 .. Len(queue')
                 PROVE  /\ queue'[k] = Pad(wanted'[Sent + k].text)
                        /\ wanted'[Sent + k].slot .. Len(slots) \subseteq RealSlots
    BY <1>1, <1>6 DEF StillWaiting
  <2>2. CASE k \in 1 .. Len(queue)
    <3>1. Sent + k \in 1 .. Len(wanted)
      BY <1>2, <2>2
    <3>2. QED
      BY <1>4, <2>2, <3>1 DEF PacingInv, StillWaiting
  <2>3. CASE k = Len(queue) + 1
    <3>1. Sent + k = Len(wanted) + 1
      BY <1>2, <2>3
    <3>2. wanted'[Sent + k] = request /\ queue'[k] = Pad(text)
      BY <1>4, <2>3, <3>1
    <3>3. request.slot .. Len(slots) = {} /\ request.text = text
      BY <1>2 DEF request
    <3>4. QED
      BY <3>2, <3>3
  <2>4. QED
    BY <1>2, <1>4, <2>2, <2>3
<1>9. SilenceBySlot'
  BY <1>1, <1>6 DEF PacingInv, SilenceBySlot
<1>10. QED
  BY <1>2, <1>5, <1>6, <1>7, <1>8, <1>9 DEF PacingInv

LEMMA TickKeeps ==
  ASSUME PacingInv, Tick
  PROVE  PacingInv'
<1> DEFINE turn == Len(slots) + 1
<1>1. /\ queue \in Seq(Packets) /\ slots \in Seq(Outputs) /\ wanted \in Seq(Requests)
      /\ Sent \in Nat /\ Sent = Len(wanted) - Len(queue)
      /\ drawn = Len(slots) /\ turn \in 1 .. Slots
      /\ draws \in [1 .. Slots -> BOOLEAN]
  BY PacingAssumption DEF PacingInv, PacingTypes, Sent, Tick
<1>2. /\ UNCHANGED <<draws, wanted>> /\ drawn' = drawn + 1
      /\ slots' = Append(slots, SlotOutput)
      /\ queue' = IF queue = <<>> THEN queue ELSE Tail(queue)
  BY DEF Tick, Drawn
<1>3. SlotOutput = IF queue # <<>> THEN [kind |-> "Real", packet |-> Head(queue)]
                   ELSE IF draws[turn] THEN [kind |-> "Dummy"] ELSE [kind |-> "Silent"]
  BY <1>1 DEF SlotOutput, Decide
<1>4. SlotOutput \in Outputs
  BY <1>1, <1>3 DEF Outputs
<1>5. /\ slots' \in Seq(Outputs) /\ Len(slots') = turn /\ slots'[turn] = SlotOutput
      /\ \A s \in 1 .. Len(slots) : slots'[s] = slots[s]
      /\ DOMAIN slots = 1 .. Len(slots) /\ DOMAIN slots' = 1 .. turn
      /\ queue' \in Seq(Packets)
  BY <1>1, <1>2, <1>4
<1>6. PacingTypes'
  BY <1>1, <1>2, <1>5 DEF PacingTypes
<1>7. RealSlots' = RealSlots \cup (IF queue # <<>> THEN {turn} ELSE {})
  <2>1. \A s \in DOMAIN slots : s \in 1 .. turn /\ slots'[s] = slots[s]
    BY <1>1, <1>5
  <2>2. \A s \in 1 .. turn : s # turn => s \in DOMAIN slots
    BY <1>1, <1>5
  <2>3. SlotOutput.kind = "Real" <=> queue # <<>>
    BY <1>3
  <2>4. QED
    BY <1>5, <2>1, <2>2, <2>3 DEF RealSlots
<1>8. RealSlots \subseteq 1 .. Len(slots)
  BY <1>5 DEF RealSlots
<1>9. SilenceBySlot'
  <2>1. SUFFICES ASSUME NEW s \in 1 .. turn, s \notin RealSlots'
                 PROVE  slots'[s].kind = "Dummy" <=> draws[s]
    BY <1>2, <1>5 DEF SilenceBySlot
  <2>2. CASE s = turn
    BY <1>3, <1>5, <1>7, <2>1, <2>2
  <2>3. CASE s # turn
    BY <1>1, <1>5, <1>7, <2>1, <2>3 DEF PacingInv, SilenceBySlot
  <2>4. QED
    BY <2>2, <2>3
<1> HIDE DEF turn
<1>10. PICK Order : SentIn(Order)
  BY DEF PacingInv
<1>11. CASE queue = <<>>
  <2>1. queue' = queue /\ RealSlots' = RealSlots /\ Sent' = Sent /\ Len(queue) = 0
    BY <1>2, <1>7, <1>11 DEF Sent
  <2>2. SentIn(Order)'
    <3>1. \A k \in 1 .. Sent : Order[k] \in 1 .. Len(slots)
      BY <1>8, <1>10 DEF SentIn
    <3>2. QED
      BY <1>2, <1>5, <1>10, <2>1, <3>1 DEF SentIn
  <2>3. StillWaiting'
    BY <2>1 DEF StillWaiting
  <2>4. QED
    BY <1>1, <1>6, <1>9, <2>1, <2>2, <2>3 DEF PacingInv
<1>12. CASE queue # <<>>
  <2>1. /\ Len(queue) >= 1 /\ Len(queue') = Len(queue) - 1
        /\ \A k \in 1 .. Len(queue') : queue'[k] = queue[k + 1]
        /\ Head(queue) = queue[1] /\ Len(queue) \in Nat
    BY <1>1, <1>2, <1>12
  <2>2. Sent' = Sent + 1 /\ Sent + 1 \in 1 .. Len(wanted)
    <3>1. Len(wanted) \in Nat /\ wanted' = wanted
      BY <1>1, <1>2
    <3>2. Sent' = Len(wanted) - (Len(queue) - 1)
      BY <2>1, <3>1 DEF Sent
    <3>3. QED
      BY <1>1, <2>1, <3>1, <3>2
  <2>3. RealSlots' = RealSlots \cup {turn} /\ slots'[turn] = [kind |-> "Real", packet |-> queue[1]]
    BY <1>3, <1>5, <1>7, <1>12, <2>1
  <2>4. turn = Len(slots) + 1 /\ Len(slots) \in Nat
    BY <1>1 DEF turn
  <2>5. \A k \in 1 .. Len(queue) :
          /\ queue[k] = Pad(wanted[Sent + k].text)
          /\ wanted[Sent + k].slot .. Len(slots) \subseteq RealSlots
          /\ wanted[Sent + k].slot \in Nat
    <3>1. \A k \in 1 .. Len(queue) : Sent + k \in 1 .. Len(wanted)
      BY <1>1, <2>1
    <3>2. \A k \in 1 .. Len(wanted) : wanted[k].slot \in Nat
      <4>1. \A k \in 1 .. Len(wanted) : wanted[k] \in Requests
        BY <1>1
      <4>2. \A r \in Requests : r.slot \in Nat
        BY DEF Requests
      <4>3. QED
        BY <4>1, <4>2
    <3>3. QED
      BY <3>1, <3>2 DEF PacingInv, StillWaiting
  <2>6. \A first \in Nat : first .. Len(slots) \subseteq RealSlots => first .. turn \subseteq RealSlots'
    BY <2>3, <2>4
  <2>7. PICK Longer : Longer = [k \in 1 .. (Sent + 1) |-> IF k = Sent + 1 THEN turn ELSE Order[k]]
    OBVIOUS
  <2>8. /\ Longer[Sent + 1] = turn
        /\ \A k \in 1 .. Sent : k \in 1 .. (Sent + 1) /\ Longer[k] = Order[k]
        /\ \A k \in 1 .. (Sent + 1) : k \in 1 .. Sent \/ k = Sent + 1
        /\ Sent + 1 \in 1 .. (Sent + 1)
    BY <1>1, <2>7
  <2>9. \A k \in 1 .. Sent : Order[k] \in RealSlots /\ Order[k] \in 1 .. Len(slots)
    BY <1>8, <1>10 DEF SentIn
  <2>10. Longer \in [1 .. (Sent + 1) -> RealSlots']
    BY <2>3, <2>8, <2>9, <2>7
  <2>11. \A s \in RealSlots' : \E k \in 1 .. (Sent + 1) : Longer[k] = s
    BY <1>10, <2>3, <2>8 DEF SentIn
  <2>12. \A j, k \in 1 .. (Sent + 1) : j < k => Longer[j] < Longer[k]
    <3>1. SUFFICES ASSUME NEW j \in 1 .. (Sent + 1), NEW k \in 1 .. (Sent + 1), j < k
                   PROVE  Longer[j] < Longer[k]
      OBVIOUS
    <3>2. j \in 1 .. Sent
      BY <1>1, <3>1
    <3>3. CASE k = Sent + 1
      BY <2>4, <2>8, <2>9, <3>2, <3>3
    <3>4. CASE k \in 1 .. Sent
      BY <1>10, <2>8, <3>1, <3>2, <3>4 DEF SentIn
    <3>5. QED
      BY <2>8, <3>3, <3>4
  <2>13. ASSUME NEW k \in 1 .. (Sent + 1)
         PROVE  /\ slots'[Longer[k]].packet = Pad(wanted[k].text)
                /\ wanted[k].slot .. Longer[k] \subseteq RealSlots'
    <3>1. CASE k \in 1 .. Sent
      BY <1>5, <1>10, <2>3, <2>8, <2>9, <3>1 DEF SentIn
    <3>2. CASE k = Sent + 1
      <4>1. 1 \in 1 .. Len(queue)
        BY <2>1
      <4>2. /\ queue[1] = Pad(wanted[k].text) /\ wanted[k].slot \in Nat
            /\ wanted[k].slot .. Len(slots) \subseteq RealSlots
        BY <2>5, <3>2, <4>1
      <4>3. wanted[k].slot .. turn \subseteq RealSlots'
        BY <2>6, <4>2
      <4>4. QED
        BY <2>3, <2>8, <3>2, <4>2, <4>3
    <3>3. QED
      BY <2>8, <3>1, <3>2
  <2>14. SentIn(Longer)'
    <3>1. wanted' = wanted
      BY <1>2
    <3>2. \A k \in 1 .. (Sent + 1) :
            /\ slots'[Longer[k]].packet = Pad(wanted'[k].text)
            /\ wanted'[k].slot .. Longer[k] \subseteq RealSlots'
      BY <2>13, <3>1
    <3>3. Sent' = Sent + 1
      BY <2>2
    <3>4. QED
      BY <2>10, <2>11, <2>12, <3>2, <3>3 DEF SentIn
  <2>15. StillWaiting'
    <3>1. SUFFICES ASSUME NEW k \in 1 .. Len(queue')
                   PROVE  /\ queue'[k] = Pad(wanted[Sent + 1 + k].text)
                          /\ wanted[Sent + 1 + k].slot .. turn \subseteq RealSlots'
      BY <1>2, <1>5, <2>2 DEF StillWaiting
    <3>2. k + 1 \in 1 .. Len(queue) /\ Sent + (k + 1) = Sent + 1 + k
      <4>1. Sent \in Nat /\ Len(queue) \in Nat /\ k \in 1 .. (Len(queue) - 1)
        BY <1>1, <2>1
      <4>2. QED
        BY <4>1
    <3>3. queue'[k] = queue[k + 1]
      BY <2>1
    <3>4. /\ queue[k + 1] = Pad(wanted[Sent + 1 + k].text)
          /\ wanted[Sent + 1 + k].slot .. Len(slots) \subseteq RealSlots
          /\ wanted[Sent + 1 + k].slot \in Nat
      BY <2>5, <3>2
    <3>5. QED
      BY <2>6, <3>3, <3>4
  <2>16. QED
    BY <1>1, <1>6, <1>9, <2>2, <2>14, <2>15 DEF PacingInv
<1>13. QED
  BY <1>11, <1>12

LEMMA PacingNextInv ==
  ASSUME PacingInv,
         \/ NewScheduler \/ Tick \/ UNCHANGED pacingVars
         \/ \E text \in Messages : Enqueue(text)
  PROVE  PacingInv'
<1>1. CASE UNCHANGED pacingVars
  <2>1. UNCHANGED <<queue, draws, drawn, slots, wanted>> /\ RealSlots' = RealSlots /\ Sent' = Sent
    BY <1>1 DEF pacingVars, RealSlots, Sent
  <2>2. PacingTypes' /\ StillWaiting' /\ SilenceBySlot'
    BY <2>1 DEF PacingInv, PacingTypes, StillWaiting, SilenceBySlot
  <2>3. \A Order : SentIn(Order) => SentIn(Order)'
    BY <2>1 DEF SentIn
  <2>4. QED
    BY <2>1, <2>2, <2>3 DEF PacingInv
<1>2. QED
  BY <1>1, NewSchedulerKeeps, EnqueueKeeps, TickKeeps

LEMMA InvPaced == PacingInv => PacedAsPromised
<1>1. SUFFICES ASSUME PacingInv PROVE SentAsQueued /\ SilenceBySlot
  BY DEF PacedAsPromised
<1>2. PICK Order : SentIn(Order)
  BY <1>1 DEF PacingInv
<1>3. /\ queue \in Seq(Packets) /\ wanted \in Seq(Requests) /\ Sent \in Nat
      /\ Sent = Len(wanted) - Len(queue) /\ DOMAIN wanted = 1 .. Len(wanted)
  BY <1>1 DEF PacingInv, PacingTypes, Sent
<1> DEFINE Padded(k) == IF k <= Sent THEN slots[Order[k]].packet ELSE queue[k - Sent]
           Until(k) == IF k <= Sent THEN Order[k] ELSE Len(slots)
<1>4. ASSUME NEW k \in DOMAIN wanted
      PROVE  /\ Unpad(Padded(k)) = {wanted[k].text} /\ SizeOf(Padded(k)) \in Buckets
             /\ wanted[k].slot .. Until(k) \subseteq RealSlots
  <2>1. Fits(wanted[k].text)
    <3>1. wanted[k] \in Requests
      BY <1>3
    <3>2. QED
      BY <3>1 DEF Requests
  <2>2. Padded(k) = Pad(wanted[k].text) /\ wanted[k].slot .. Until(k) \subseteq RealSlots
    <3>1. CASE k <= Sent
      <4>1. k \in 1 .. Sent
        BY <1>3, <3>1
      <4>2. QED
        BY <1>2, <3>1, <4>1 DEF SentIn
    <3>2. CASE ~(k <= Sent)
      <4>1. k - Sent \in 1 .. Len(queue) /\ Sent + (k - Sent) = k
        BY <1>3, <3>2
      <4>2. QED
        BY <1>1, <3>2, <4>1 DEF PacingInv, StillWaiting
    <3>3. QED
      BY <3>1, <3>2
  <2>3. QED
    BY <2>1, <2>2, PaddedWhole
<1>5. SentAsQueued
  <2>1. Order \in [1 .. Sent -> RealSlots]
    BY <1>2 DEF SentIn
  <2>2. /\ \A s \in RealSlots : \E k \in 1 .. Sent : Order[k] = s
        /\ \A j, k \in 1 .. Sent : j < k => Order[j] < Order[k]
    BY <1>2 DEF SentIn
  <2>3. Sent >= 0
    BY <1>3
  <2>4. QED
    BY <1>4, <2>1, <2>2, <2>3 DEF SentAsQueued, Sent
<1>6. QED
  BY <1>1, <1>5 DEF PacingInv

-----------------------------------------------------------------------------
(***************************************************************************)
(* The composition.                                                        *)
(***************************************************************************)
ChannelInv == WindowInv /\ HandshakeInv /\ SealedInv /\ PacingInv

LEMMA ChannelInitInv == ChannelInit => ChannelInv
BY WindowInit, HandshakeInitInv, SealedInitInv, PacingInitInv DEF ChannelInit, ChannelInv

\* Whatever the channel does, each of its parts takes a step of its own or none;
\* the handshake may also be forgotten.
LEMMA StepsOfParts ==
  ASSUME ChannelNext \/ UNCHANGED channelVars
  PROVE  /\ [Next]_vars
         /\ HandshakeNext \/ UNCHANGED handshakeVars \/ HandshakeInit'
         /\ SealedNext \/ UNCHANGED sealedVars
         /\ \/ NewScheduler \/ Tick \/ UNCHANGED pacingVars
            \/ \E text \in Messages : Enqueue(text)
<1>1. CASE Handshaking \/ BeginRecords
  BY <1>1 DEF Handshaking, BeginRecords, HandshakeInit
<1>2. CASE Records
  BY <1>2 DEF Records
<1>3. CASE Paced
  <2>1. UNCHANGED vars \/ Seal(PacedDir)
    BY <1>3 DEF Paced, PacedSlot
  <2>2. [Next]_vars
    BY <2>1, PacedDirAssumption DEF Next
  <2>3. QED
    BY <1>3, <2>2 DEF Paced, PacedSlot
<1>4. CASE Sealing \/ UNCHANGED channelVars
  BY <1>4 DEF Sealing, channelVars
<1>5. QED
  BY <1>1, <1>2, <1>3, <1>4 DEF ChannelNext

LEMMA ChannelNextInv == ChannelInv /\ [ChannelNext]_channelVars => ChannelInv'
<1>1. SUFFICES ASSUME ChannelInv, [ChannelNext]_channelVars PROVE ChannelInv'
  OBVIOUS
<1>2. /\ [Next]_vars
      /\ HandshakeNext \/ UNCHANGED handshakeVars \/ HandshakeInit'
      /\ SealedNext \/ UNCHANGED sealedVars
      /\ \/ NewScheduler \/ Tick \/ UNCHANGED pacingVars
         \/ \E text \in Messages : Enqueue(text)
  BY <1>1, StepsOfParts
<1>3. WindowInv'
  BY <1>1, <1>2, WindowNext DEF ChannelInv
<1>4. HandshakeInit' => HandshakeInv'
  BY HandshakeInitInv, PTL
<1>5. HandshakeInv'
  BY <1>1, <1>2, <1>4, HandshakeNextInv DEF ChannelInv
<1>6. SealedInv'
  BY <1>1, <1>2, SealedNextInv DEF ChannelInv
<1>7. PacingInv'
  BY <1>1, <1>2, PacingNextInv DEF ChannelInv
<1>8. QED
  BY <1>3, <1>5, <1>6, <1>7 DEF ChannelInv

(***************************************************************************)
(* Whoever completes a handshake shares its keys with the very peer it     *)
(* names, whatever was repeated, misrouted or joined (complete, both       *)
(* sides).                                                                 *)
(***************************************************************************)
THEOREM HandshakeAgrees == ChannelSpec => []PeersAgree
<1>1. ChannelInv => PeersAgree
  BY InvAgree DEF ChannelInv
<1>2. QED
  BY <1>1, ChannelInitInv, ChannelNextInv, PTL DEF ChannelSpec

(***************************************************************************)
(* No key is used by two attempts, in two directions or for two purposes   *)
(* (finalize_keys).                                                        *)
(***************************************************************************)
THEOREM KeysAreSeparate == ChannelSpec => []KeysSeparate
<1>1. ChannelInv => KeysSeparate
  BY InvSeparate DEF ChannelInv
<1>2. QED
  BY <1>1, ChannelInitInv, ChannelNextInv, PTL DEF ChannelSpec

(***************************************************************************)
(* What a recipient takes for a sender's was sealed to it and vouched for, *)
(* unexpired when it was read (sealed_sender's open and verify).           *)
(***************************************************************************)
THEOREM EnvelopesAreVouched == ChannelSpec => []UnsealedAsVouched
<1>1. ChannelInv => UnsealedAsVouched
  BY DEF ChannelInv, SealedInv
<1>2. QED
  BY <1>1, ChannelInitInv, ChannelNextInv, PTL DEF ChannelSpec

(***************************************************************************)
(* Cover traffic sends every message whole, in its turn, in the first free *)
(* slot, and what an empty slot does is settled by its number alone        *)
(* (GridScheduler::tick, DummyScheduler::decide, pad, unpad).              *)
(***************************************************************************)
THEOREM SlotsKeepTheirPace == ChannelSpec => []PacedAsPromised
<1>1. ChannelInv => PacedAsPromised
  BY InvPaced DEF ChannelInv
<1>2. QED
  BY <1>1, ChannelInitInv, ChannelNextInv, PTL DEF ChannelSpec

(***************************************************************************)
(* The record layer's promises hold behind a handshake and under cover     *)
(* traffic: the channel implements the record layer (EstablishedSession).  *)
(***************************************************************************)
THEOREM ChannelIsTransport == ChannelSpec => Spec /\ []OpenedOnce /\ []AcceptsExactly
<1>1. ChannelInit => Init
  BY DEF ChannelInit
<1>2. [ChannelNext]_channelVars => [Next]_vars
  BY StepsOfParts
<1>3. ChannelSpec => Spec
  BY <1>1, <1>2, PTL DEF ChannelSpec, Spec
<1>4. QED
  BY <1>3, OpensOnce, FilterIsExact, PTL
=============================================================================
