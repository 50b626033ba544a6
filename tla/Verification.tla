----------------------------- MODULE Verification -----------------------------
(***************************************************************************)
(* What the agent accepts from Fireblocks: decodeAndVerifyMessage          *)
(* (utils/messages-utils.ts) and the certificates it verifies with, which  *)
(* a process fetches once and keeps (fb-server.api.ts, getCertificates),   *)
(* while Fireblocks may replace the keys of its services.  A process runs  *)
(* as module DevicePairing says, and its certificates are gone with it.    *)
(* Cryptography is external: a signature verifies with the certificate of  *)
(* the key that made it and with no other.  Which message of a batch is    *)
(* looked at is chosen when it is verified.                                *)
(* Definitions named Wrong... are variants of the one below them with a    *)
(* plausible defect: with it, the property named there must fail.          *)
(***************************************************************************)
EXTENDS DevicePairing, Naturals

CONSTANTS
  Handlers,       \* bound: activations of handleMessages at a time
  MaxRotations    \* bound: how often Fireblocks replaces its keys

ASSUME VerificationAssumption == MaxRotations \in Nat

VARIABLES
  version,    \* Fireblocks: how often the keys were replaced
  certs,      \* certificatesMapCache: the version of its certificates
  handler,    \* what each activation of handleMessages that fetches them has
  served,     \* history: the version that the first fetch of the process was served
  verdict     \* history: the message verified in the last step and what became of it

verification == <<version, certs, handler, served, verdict>>
vars == <<pairing, verification>>

Versions == 0..MaxRotations
NoVersion == MaxRotations + 1

Free == [sent |-> NoVersion, answer |-> NoVersion]
Fetching == {h \in Handlers : handler[h] # Free}

-----------------------------------------------------------------------------
(* Messages.  The key that made a signature is a service's at a version,   *)
(* or another's.                                                           *)

Key(cert, v) == <<cert, v>>
NoKey == <<"none", 0>>
OtherKey == <<"other", 0>>
OWNERSHIP == "KEY_LINK_PROOF_OF_OWNERSHIP_REQUEST"
TX_SIGN == "KEY_LINK_TX_SIGN_REQUEST"
knownMessageTypes == {OWNERSHIP, TX_SIGN}
Services == {"signing_service", "policy_service", "configuration_manager"}

(* The certificate with which Fireblocks publishes the key of a service.   *)
Publishes(service) ==
  CASE service = "signing_service" -> "vs"
    [] service = "policy_service" -> "ps"
    [] service = "configuration_manager" -> "cm"

(* What Fireblocks sends with the keys of version v.                       *)
Sent(v, type, service) ==
  [sent |-> v, form |-> "ok", jwt |-> Key("zs", v), type |-> type,
   service |-> service, payload |-> Key(Publishes(service), v),
   policy |-> IF type = TX_SIGN THEN Key("ps", v) ELSE NoKey, major |-> "2"]
Composed == [v \in Versions |->
  {Sent(v, type, service) : type \in knownMessageTypes \cup {"OTHER"}, service \in Services}]

(* A message with one part that is missing, is not supported or was signed *)
(* with another key.                                                       *)
Altered(f) ==
       {[f EXCEPT !.form = form] : form \in {"not a string", "not JSON"}}
  \cup {[f EXCEPT !.jwt = k] : k \in {OtherKey, Key("vs", f.sent)}}
  \cup {[f EXCEPT !.service = service] : service \in Services \cup {"none", "other"}}
  \cup {[f EXCEPT !.payload = k] : k \in {OtherKey, Key("zs", f.sent)}}
  \cup {[f EXCEPT !.policy = k] : k \in {NoKey, OtherKey, Key("cm", f.sent)}}
  \cup {[f EXCEPT !.major = major] : major \in {"1", "none"}}
Messages == [v \in Versions |-> Composed[v] \cup UNION {Altered(f) : f \in Composed[v]}]

-----------------------------------------------------------------------------
(* decodeAndVerifyMessage, with the certificates of version v, which hold  *)
(* one for each service.                                                   *)

(* Two services are mixed up: DiscardExplained fails.                      *)
WrongKEY_TO_VERIFIER_MAP ==
  [signing_service |-> "vs", policy_service |-> "cm", configuration_manager |-> "ps"]
KEY_TO_VERIFIER_MAP ==
  [signing_service |-> "vs", policy_service |-> "ps", configuration_manager |-> "cm"]

Verified(service, signature, v) ==
  /\ service \in DOMAIN KEY_TO_VERIFIER_MAP
  /\ signature = Key(KEY_TO_VERIFIER_MAP[service], v)

PayloadVerified(f, v) == f.service # "none" /\ Verified(f.service, f.payload, v)

(* The signature of the metadata is not looked at: HandledIsGenuine fails. *)
WrongVerifyFbMessage(f, v) ==
  /\ f.type \in knownMessageTypes => PayloadVerified(f, v)
  /\ f.type = OWNERSHIP => f.major = "2"
VerifyFbMessage(f, v) ==
  /\ f.type \in knownMessageTypes => PayloadVerified(f, v)
  /\ f.type = OWNERSHIP => f.major = "2"
  /\ f.type = TX_SIGN => f.policy # NoKey /\ Verified("policy_service", f.policy, v)

DecodeAndVerifyMessage(f, v) ==
  /\ f.form # "not a string" /\ f.jwt = Key("zs", v)
  /\ VerifyFbMessage(f, v)
  /\ f.form # "not JSON"

(* What handleMessages does with the message: a discarded one is acked     *)
(* like an unknown one, and never seen again.                              *)
Result(f, v) ==
  IF ~DecodeAndVerifyMessage(f, v) THEN "discarded"
  ELSE IF f.type \in knownMessageTypes THEN "handled" ELSE "unknown"

(* genuine: it is as Fireblocks sent it; proper: as Fireblocks would send  *)
(* it with the keys of version v, in every part that counts for its type.  *)
Proper(f, v) ==
  \E g \in Composed[v] :
    /\ f.form = g.form /\ f.jwt = g.jwt /\ f.type = g.type
    /\ f.service = g.service /\ f.payload = g.payload
    /\ f.type = OWNERSHIP => f.major = g.major
    /\ f.type = TX_SIGN => f.policy = g.policy
Verdict(f, w, v) == [genuine |-> f \in Composed[w], sent |-> w,
                     proper |-> Proper(f, v), result |-> Result(f, v)]
NoVerdict == [genuine |-> FALSE, sent |-> 0, proper |-> FALSE, result |-> "none"]
Verifies(w, v) == \E f \in Messages[w] : verdict' = Verdict(f, w, v)

-----------------------------------------------------------------------------
VInit ==
  /\ PInit
  /\ version = 0 /\ served = NoVersion /\ certs = NoVersion
  /\ handler = [h \in Handlers |-> Free]
  /\ verdict = NoVerdict

(* Messages that were sent with the keys of version v arrive.              *)
HandleMessages(h, v) ==
  /\ pc = "running" /\ certs = NoVersion
  /\ h \notin Fetching /\ v \in 0..version
  /\ handler' = [handler EXCEPT ![h] = [sent |-> v, answer |-> NoVersion]]
  /\ verdict' = NoVerdict /\ UNCHANGED <<pairing, version, certs, served>>

HandleWithCached(v) ==
  /\ pc = "running" /\ certs # NoVersion
  /\ v \in 0..version
  /\ Verifies(v, certs)
  /\ UNCHANGED <<pairing, version, certs, handler, served>>

(* Fireblocks answers with the certificates it has; answers may overtake   *)
(* each other on the way.                                                  *)
CertificatesServed(h) ==
  /\ h \in Fetching /\ handler[h].answer = NoVersion
  /\ handler' = [handler EXCEPT ![h].answer = version]
  /\ served' = IF served = NoVersion THEN version ELSE served
  /\ verdict' = NoVerdict /\ UNCHANGED <<pairing, version, certs>>

CertificatesArrive(h) ==
  /\ h \in Fetching /\ handler[h].answer # NoVersion
  /\ certs' = handler[h].answer
  /\ Verifies(handler[h].sent, handler[h].answer)
  /\ handler' = [handler EXCEPT ![h] = Free]
  /\ UNCHANGED <<pairing, version, served>>

(* handleMessages is rejected: its messages are neither handled nor acked. *)
CertificatesFail(h) ==
  /\ h \in Fetching
  /\ handler' = [handler EXCEPT ![h] = Free]
  /\ verdict' = NoVerdict /\ UNCHANGED <<pairing, version, certs, served>>

RotateKeys ==
  /\ version < MaxRotations /\ version' = version + 1
  /\ verdict' = NoVerdict /\ UNCHANGED <<pairing, certs, handler, served>>

Exit ==
  /\ ProcessEnds
  /\ certs' = NoVersion /\ handler' = [h \in Handlers |-> Free]
  /\ served' = NoVersion /\ verdict' = NoVerdict /\ UNCHANGED version

Alone(A) == A /\ verdict' = NoVerdict /\ UNCHANGED <<version, certs, handler, served>>

VNext ==
  \/ Alone(Launch) \/ Alone(Pairs) \/ Exit \/ RotateKeys
  \/ \E v \in Versions : HandleWithCached(v) \/ \E h \in Handlers : HandleMessages(h, v)
  \/ \E h \in Handlers : CertificatesServed(h) \/ CertificatesArrive(h) \/ CertificatesFail(h)

VSpec == VInit /\ [][VNext]_vars

(* The timer fires, the operator answers the prompt, also with a token     *)
(* that was not used yet, the request returns, one that is made again and  *)
(* again is answered, and writing the file is one call.                    *)
VFairness ==
  /\ WF_vars(Alone(Main))
  /\ WF_vars(Alone(PromptFails \/ \E t \in Tokens : Enter(t)))
  /\ SF_vars(Alone(\E t \in Tokens \ used : Enter(t)))
  /\ WF_vars(Alone(PairingFails))
  /\ SF_vars(Alone(Paired))
  /\ WF_vars(Alone(SaveOpens \/ Saved \/ SaveFails))
VFairSpec == VSpec /\ VFairness

-----------------------------------------------------------------------------
(* Every variable has its type.                                            *)
VTypeOK ==
  /\ PTypeOK
  /\ version \in Versions /\ {served, certs} \subseteq Versions \cup {NoVersion}
  /\ handler \in [Handlers -> [sent : Versions \cup {NoVersion}, answer : Versions \cup {NoVersion}]]
  /\ verdict \in [genuine : BOOLEAN, sent : Versions, proper : BOOLEAN,
                  result : {"none", "handled", "unknown", "discarded"}]

(* What is handed on to the customer's server was signed by Fireblocks in  *)
(* every part that counts: the message, its payload and, for a             *)
(* transaction, its metadata by the policy service; one part that is       *)
(* missing, unsupported or signed with another key suffices to reject it.  *)
HandledIsGenuine == verdict.result = "handled" => verdict.proper

(* A message of Fireblocks is discarded, and so acked but not handled,     *)
(* only because of a rotation: it was sent before the process was served   *)
(* its first certificates, or the keys were replaced after that.  None is  *)
(* lost to a rotation between the start and the first fetch.               *)
DiscardExplained ==
  verdict.result = "discarded" /\ verdict.genuine
    => verdict.sent < served \/ served < version
=============================================================================
