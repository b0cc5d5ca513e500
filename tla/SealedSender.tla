----------------------------- MODULE SealedSender -----------------------------
(***************************************************************************)
(* Sealed sender (crates/core/src/sealed_sender.rs): an envelope hides who *)
(* sent it, and carries a certificate that an issuer signed for the        *)
(* sender.  Certificates expire while envelopes are under way; envelopes   *)
(* are repeated, misrouted and put together from fields of several.        *)
(*                                                                         *)
(* Abstractions.  Key agreement, signatures and encryption are those of    *)
(* Handshake; the number of an envelope names its ephemeral key.           *)
(***************************************************************************)
EXTENDS Handshake, FiniteSets

CONSTANTS
  Issuers,      \* peers that vouch for others
  Recipients,   \* peers with a key to seal to
  Texts,
  Times,        \* values of the clock and of expires_at
  MaxIssued,    \* bound: certificates issued
  MaxEnvelopes  \* bound: envelopes sealed

ASSUME SealedAssumption ==
  /\ Issuers \subseteq Peers /\ Recipients \subseteq Peers
  /\ Times \subseteq Nat /\ 0 \in Times /\ MaxEnvelopes \in Nat /\ MaxIssued \in Nat

CertSignedBytes_NoExpiry(sender_identity, expires_at) == <<sender_identity>>  \* faulty variant

CertSignedBytes(sender_identity, expires_at) == <<sender_identity, expires_at>>

\* SenderCertificate::issue
Certificate(issuer, sender, expires_at) ==
  [sender_identity |-> Public(sender), expires_at |-> expires_at,
   signature |-> TrySign(issuer, CertSignedBytes(Public(sender), expires_at))]

\* SenderCertificate::verify
VerifyCertificate(certificate, issuer, time) ==
  /\ time < certificate.expires_at
  /\ VerifyIdentity(Public(issuer),
       CertSignedBytes(certificate.sender_identity, certificate.expires_at), certificate.signature)

\* derive_envelope_key; the sender computes it from its ephemeral key and the
\* recipient's public ones, the recipient from the header and its own.
EnvelopeKey(dh, ml_kem_ss) == <<dh, ml_kem_ss>>

\* seal: the sender does not check its certificate.
SealEnvelope(ephemeral, recipient, certificate, text) ==
  LET ct == Encapsulate(recipient, ephemeral)
      header == [ephemeral_public |-> ephemeral, ml_kem_ct |-> ct]
  IN [header |-> header,
      payload |-> [key |-> EnvelopeKey(DiffieHellman(ephemeral, recipient), KemSecret(recipient, ct)),
                   aad |-> header, certificate |-> certificate, text |-> text]]

\* open; the empty set is an error.
OpenEnvelope(recipient, envelope) ==
  LET header == envelope.header
      key == EnvelopeKey(DiffieHellman(recipient, header.ephemeral_public),
                         KemSecret(recipient, header.ml_kem_ct))
  IN IF Contributes(header.ephemeral_public) /\ envelope.payload.key = key
        /\ envelope.payload.aad = header
     THEN {[certificate |-> envelope.payload.certificate, text |-> envelope.payload.text]}
     ELSE {}

-----------------------------------------------------------------------------
VARIABLES
  now,           \* the clock of the recipients
  issued,        \* history: whom each issuer vouched for, and until when
  certificates,  \* the certificates that senders hold
  envelopes,     \* the envelopes sealed so far
  unsealed       \* history: what recipients opened and took for the sender's

sealedVars == <<now, issued, certificates, envelopes, unsealed>>

SealedInit == now = 0 /\ issued = {} /\ certificates = {} /\ envelopes = {} /\ unsealed = {}

TimePasses ==
  /\ now + 1 \in Times /\ now' = now + 1
  /\ UNCHANGED <<issued, certificates, envelopes, unsealed>>

Issue(issuer, sender, expires_at) ==
  /\ Cardinality(issued) < MaxIssued
  /\ certificates' = certificates \cup {Certificate(issuer, sender, expires_at)}
  /\ issued' = issued \cup {<<issuer, sender, expires_at>>}
  /\ UNCHANGED <<now, envelopes, unsealed>>

\* The fields of a certificate are public: a sender may hold a joined one.
JoinedCertificates ==
  [sender_identity : {c.sender_identity : c \in certificates},
   expires_at : {c.expires_at : c \in certificates},
   signature : {c.signature : c \in certificates}]

SealTo(recipient, certificate, text) ==
  /\ Cardinality(envelopes) < MaxEnvelopes
  /\ envelopes' = envelopes \cup
       {SealEnvelope(<<Cardinality(envelopes)>>, recipient, certificate, text)}
  /\ UNCHANGED <<now, issued, certificates, unsealed>>

\* Fields of two envelopes may be joined on the way.
JoinedEnvelopes ==
  [header : [ephemeral_public : {e.header.ephemeral_public : e \in envelopes} \cup {SmallOrder},
             ml_kem_ct : {e.header.ml_kem_ct : e \in envelopes}],
   payload : {e.payload : e \in envelopes}]

\* A recipient opens an envelope and verifies its certificate before it trusts it.
Unseal(recipient, envelope, issuer) ==
  /\ \E opened \in OpenEnvelope(recipient, envelope) :
       /\ VerifyCertificate(opened.certificate, issuer, now)
       /\ unsealed' = unsealed \cup
            {[recipient |-> recipient, issuer |-> issuer, at |-> now, header |-> envelope.header,
              certificate |-> opened.certificate, text |-> opened.text]}
  /\ UNCHANGED <<now, issued, certificates, envelopes>>

SealedNext ==
  \/ TimePasses
  \/ \E issuer \in Issuers, sender \in Peers, expires_at \in Times : Issue(issuer, sender, expires_at)
  \/ \E recipient \in Recipients, certificate \in JoinedCertificates, text \in Texts :
       SealTo(recipient, certificate, text)
  \/ \E recipient \in Recipients, envelope \in JoinedEnvelopes, issuer \in Issuers :
       Unseal(recipient, envelope, issuer)

-----------------------------------------------------------------------------
\* What a recipient takes for a sender's was sealed to it just so, under a
\* certificate that the issuer it trusts signed for that sender, unexpired when it
\* was read and not when it was sealed; nothing joined from two envelopes or two
\* certificates passes (open, SenderCertificate::verify).
UnsealedAsVouched ==
  \A u \in unsealed :
    /\ \E e \in envelopes :
         /\ e.header = u.header /\ e.header.ml_kem_ct.key = u.recipient
         /\ e.payload.certificate = u.certificate /\ e.payload.text = u.text
    /\ \E grant \in issued :
         /\ grant[1] = u.issuer /\ Public(grant[2]) = u.certificate.sender_identity
         /\ grant[3] = u.certificate.expires_at /\ u.at < grant[3]
=============================================================================
