--------------------------- MODULE VerificationProofs ---------------------------
(***************************************************************************)
(* A process that is paired, and what it accepts, for any number of        *)
(* tokens, activations and rotations: proofs about modules                 *)
(* DevicePairing and Verification.                                         *)
(***************************************************************************)
EXTENDS Verification, TLAPS

(* The file at each step: the pairing that is tried has none, and what     *)
(* memory holds was saved.                                                 *)
Saving ==
  /\ pc \in {"prompt", "pairing", "saving"} => cache = None /\ file = None
  /\ pc = "writing" => cache = None /\ file = "partial"
  /\ pc \in {"down", "loading"} => cache = None
  /\ pc = "running" => file \in Tokens
  /\ pc \in {"saving", "writing"} => token \in used
  /\ pc \in {"pairing", "saving", "writing"} => token \in Tokens
  /\ cache # None => file = cache
  /\ file \in Tokens => file \in used

PInv ==
  /\ PTypeOK /\ Saving
  /\ StoppedExplained /\ NothingElseWasted

(* Without a main loop there are no certificates and no activation waits   *)
(* for them.                                                               *)
OfProcess ==
  /\ pc # "running" => certs = NoVersion /\ Fetching = {}
  /\ \A h \in Fetching : handler[h].sent \in 0..version

(* What is kept or on its way is not older than what was served first,     *)
(* also when a later answer overtook it.                                   *)
NotOlder(v) == served # NoVersion /\ v \in served..version
ServedInLife ==
  /\ served # NoVersion => served <= version
  /\ certs # NoVersion => NotOlder(certs)
  /\ \A h \in Fetching : handler[h].answer # NoVersion => NotOlder(handler[h].answer)

IInv ==
  /\ PInv /\ VTypeOK /\ OfProcess /\ ServedInLife
  /\ HandledIsGenuine /\ DiscardExplained

-----------------------------------------------------------------------------
(* The pairing.                                                            *)

LEMMA PairingInit == PInit => PInv
  BY TokensAssumption DEF PInit, PInv, PTypeOK, Saving, StoppedExplained, NothingElseWasted

LEMMA PairingStep ==
  ASSUME PInv, Launch \/ Pairs \/ ProcessEnds \/ UNCHANGED pairing
  PROVE  PInv'
<1> USE TokensAssumption DEF PInv, Saving, Continues, IsPaired, Readable
<1>1. CASE Launch
  <2>1. PTypeOK'
    BY <1>1 DEF Launch, PTypeOK
  <2>2. Saving'
    BY <1>1 DEF Launch, PTypeOK
  <2>3. StoppedExplained'
    BY <1>1 DEF Launch, PTypeOK, StoppedExplained
  <2>4. NothingElseWasted'
    BY <1>1 DEF Launch, PTypeOK, NothingElseWasted
  <2> QED
    BY <2>1, <2>2, <2>3, <2>4
<1>2. CASE Main
  <2>1. PTypeOK'
    BY <1>2 DEF Main, PTypeOK
  <2>2. Saving'
    BY <1>2 DEF Main, PTypeOK
  <2>3. StoppedExplained'
    BY <1>2 DEF Main, PTypeOK, StoppedExplained
  <2>4. NothingElseWasted'
    BY <1>2 DEF Main, PTypeOK, NothingElseWasted
  <2> QED
    BY <2>1, <2>2, <2>3, <2>4
<1>3. CASE PromptFails
  <2>1. PTypeOK'
    BY <1>3 DEF PromptFails, PTypeOK
  <2>2. Saving'
    BY <1>3 DEF PromptFails, PTypeOK
  <2>3. StoppedExplained'
    BY <1>3 DEF PromptFails, PTypeOK, StoppedExplained
  <2>4. NothingElseWasted'
    BY <1>3 DEF PromptFails, PTypeOK, NothingElseWasted
  <2> QED
    BY <2>1, <2>2, <2>3, <2>4
<1>4. CASE Paired
  <2>1. PTypeOK'
    BY <1>4 DEF Paired, PTypeOK
  <2>2. Saving'
    BY <1>4 DEF Paired, PTypeOK
  <2>3. StoppedExplained'
    BY <1>4 DEF Paired, PTypeOK, StoppedExplained
  <2>4. NothingElseWasted'
    BY <1>4 DEF Paired, PTypeOK, NothingElseWasted
  <2> QED
    BY <2>1, <2>2, <2>3, <2>4
<1>5. CASE PairingFails
  <2>1. PTypeOK'
    BY <1>5 DEF PairingFails, PTypeOK
  <2>2. Saving'
    BY <1>5 DEF PairingFails, PTypeOK
  <2>3. StoppedExplained'
    BY <1>5 DEF PairingFails, PTypeOK, StoppedExplained
  <2>4. NothingElseWasted'
    BY <1>5 DEF PairingFails, PTypeOK, NothingElseWasted
  <2> QED
    BY <2>1, <2>2, <2>3, <2>4
<1>6. CASE PairResponseLost
  <2>1. PTypeOK'
    BY <1>6 DEF PairResponseLost, PTypeOK
  <2>2. Saving'
    BY <1>6 DEF PairResponseLost, PTypeOK
  <2>3. StoppedExplained'
    BY <1>6 DEF PairResponseLost, PTypeOK, StoppedExplained
  <2>4. NothingElseWasted'
    BY <1>6 DEF PairResponseLost, PTypeOK, NothingElseWasted
  <2> QED
    BY <2>1, <2>2, <2>3, <2>4
<1>7. CASE SaveOpens
  <2>1. PTypeOK'
    BY <1>7 DEF SaveOpens, PTypeOK
  <2>2. Saving'
    BY <1>7 DEF SaveOpens, PTypeOK
  <2>3. StoppedExplained'
    BY <1>7 DEF SaveOpens, PTypeOK, StoppedExplained
  <2>4. NothingElseWasted'
    BY <1>7 DEF SaveOpens, PTypeOK, NothingElseWasted
  <2> QED
    BY <2>1, <2>2, <2>3, <2>4
<1>8. CASE Saved
  <2>1. PTypeOK'
    BY <1>8 DEF Saved, PTypeOK
  <2>2. Saving'
    BY <1>8 DEF Saved, PTypeOK
  <2>3. StoppedExplained'
    BY <1>8 DEF Saved, PTypeOK, StoppedExplained
  <2>4. NothingElseWasted'
    BY <1>8 DEF Saved, PTypeOK, NothingElseWasted
  <2> QED
    BY <2>1, <2>2, <2>3, <2>4
<1>9. CASE SaveFails
  <2>1. PTypeOK'
    BY <1>9 DEF SaveFails, PTypeOK
  <2>2. Saving'
    BY <1>9 DEF SaveFails, PTypeOK
  <2>3. StoppedExplained'
    BY <1>9 DEF SaveFails, PTypeOK, StoppedExplained
  <2>4. NothingElseWasted'
    BY <1>9 DEF SaveFails, PTypeOK, NothingElseWasted
  <2> QED
    BY <2>1, <2>2, <2>3, <2>4
<1>10. CASE ProcessEnds
  <2>1. PTypeOK'
    BY <1>10 DEF ProcessEnds, PTypeOK
  <2>2. Saving'
    BY <1>10 DEF ProcessEnds, PTypeOK
  <2>3. StoppedExplained'
    BY <1>10 DEF ProcessEnds, PTypeOK, StoppedExplained
  <2>4. NothingElseWasted'
    BY <1>10 DEF ProcessEnds, PTypeOK, NothingElseWasted
  <2> QED
    BY <2>1, <2>2, <2>3, <2>4
<1>11. ASSUME NEW t \in Tokens, Enter(t) PROVE PInv'
  <2>1. PTypeOK'
    BY <1>11 DEF Enter, PTypeOK
  <2>2. Saving'
    BY <1>11 DEF Enter, PTypeOK
  <2>3. StoppedExplained'
    BY <1>11 DEF Enter, PTypeOK, StoppedExplained
  <2>4. NothingElseWasted'
    BY <1>11 DEF Enter, PTypeOK, NothingElseWasted
  <2> QED
    BY <2>1, <2>2, <2>3, <2>4
<1>12. CASE UNCHANGED pairing
  BY <1>12 DEF pairing, PTypeOK, StoppedExplained, NothingElseWasted
<1> QED
  BY <1>1, <1>2, <1>3, <1>4, <1>5, <1>6, <1>7, <1>8, <1>9, <1>10, <1>11, <1>12 DEF Pairs

LEMMA PairingRuns == PInv => RunsPaired
  BY TokensAssumption DEF PInv, PTypeOK, Saving, RunsPaired

LEMMA PairingSaves ==
  ASSUME PInv, Launch \/ Pairs \/ ProcessEnds \/ UNCHANGED pairing, file \in Tokens
  PROVE  file' = file
  BY TokensAssumption
  DEF PInv, Saving, Launch, Pairs, Main, Enter, PromptFails, Paired, PairingFails, PairResponseLost,
      SaveOpens, Saved, SaveFails, ProcessEnds, pairing

-----------------------------------------------------------------------------
(* What is verified.                                                       *)

LEMMA ComposedFields ==
  ASSUME NEW v \in Versions, NEW f \in Composed[v]
  PROVE  /\ f.sent = v /\ f.form = "ok" /\ f.major = "2"
         /\ f.jwt = Key("zs", v) /\ f.service \in Services
         /\ f.payload = Key(Publishes(f.service), v)
         /\ f.type \in knownMessageTypes \cup {"OTHER"}
         /\ f.policy = IF f.type = TX_SIGN THEN Key("ps", v) ELSE NoKey
  BY DEF Composed, Sent

(* Fireblocks' own messages are verified with the certificates of the keys *)
(* that signed them (lines 17-171).                                        *)
LEMMA GenuineVerified ==
  ASSUME NEW v \in Versions, NEW f \in Composed[v]
  PROVE  DecodeAndVerifyMessage(f, v)
<1>1. Verified(f.service, f.payload, v)
  <2>1. CASE f.service = "signing_service"
    BY <2>1, ComposedFields DEF Verified, KEY_TO_VERIFIER_MAP, Publishes
  <2>2. CASE f.service = "policy_service"
    BY <2>2, ComposedFields DEF Verified, KEY_TO_VERIFIER_MAP, Publishes
  <2>3. CASE f.service = "configuration_manager"
    BY <2>3, ComposedFields DEF Verified, KEY_TO_VERIFIER_MAP, Publishes
  <2> QED
    BY <2>1, <2>2, <2>3, ComposedFields DEF Services
<1>2. PayloadVerified(f, v)
  BY <1>1, ComposedFields DEF PayloadVerified, Services
<1>3. Verified("policy_service", Key("ps", v), v) /\ Key("ps", v) # NoKey
  BY DEF Verified, KEY_TO_VERIFIER_MAP, Key, NoKey
<1>4. VerifyFbMessage(f, v)
  BY <1>2, <1>3, ComposedFields DEF VerifyFbMessage
<1> QED
  BY <1>4, ComposedFields DEF DecodeAndVerifyMessage

LEMMA MessageForm ==
  ASSUME NEW w \in Versions, NEW f \in Messages[w]
  PROVE  f.form \in {"ok", "not a string", "not JSON"}
<1>1. PICK type \in knownMessageTypes \cup {"OTHER"}, service \in Services :
        f = Sent(w, type, service) \/ f \in Altered(Sent(w, type, service))
  BY DEF Messages, Composed
<1>2. CASE f = Sent(w, type, service)
  BY <1>2 DEF Sent
<1>3. CASE f \in Altered(Sent(w, type, service))
  BY <1>3 DEF Altered, Sent
<1> QED
  BY <1>1, <1>2, <1>3

(* Whatever was altered: what is handed on is as Fireblocks sends it with  *)
(* the keys of the certificates, in every part that counts for its type.   *)
LEMMA HandledProper ==
  ASSUME NEW v \in Versions, NEW w \in Versions, NEW f \in Messages[w], Result(f, v) = "handled"
  PROVE  Proper(f, v)
<1>1. DecodeAndVerifyMessage(f, v) /\ f.type \in knownMessageTypes
  BY DEF Result
<1>2. f.form = "ok" /\ f.jwt = Key("zs", v)
  BY <1>1, MessageForm DEF DecodeAndVerifyMessage
<1>3. VerifyFbMessage(f, v)
  BY <1>1 DEF DecodeAndVerifyMessage
<1>4. f.service \in Services /\ f.payload = Key(Publishes(f.service), v)
  <2>1. Verified(f.service, f.payload, v)
    BY <1>1, <1>3 DEF VerifyFbMessage, PayloadVerified
  <2>2. f.service \in Services /\ f.payload = Key(KEY_TO_VERIFIER_MAP[f.service], v)
    BY <2>1 DEF Verified, KEY_TO_VERIFIER_MAP, Services
  <2>3. KEY_TO_VERIFIER_MAP[f.service] = Publishes(f.service)
    <3>1. CASE f.service = "signing_service"
      BY <3>1 DEF KEY_TO_VERIFIER_MAP, Publishes
    <3>2. CASE f.service = "policy_service"
      BY <3>2 DEF KEY_TO_VERIFIER_MAP, Publishes
    <3>3. CASE f.service = "configuration_manager"
      BY <3>3 DEF KEY_TO_VERIFIER_MAP, Publishes
    <3> QED
      BY <2>2, <3>1, <3>2, <3>3 DEF Services
  <2> QED
    BY <2>2, <2>3
<1>5. /\ f.type = OWNERSHIP => f.major = "2"
      /\ f.type = TX_SIGN => f.policy = Key("ps", v)
  BY <1>3 DEF VerifyFbMessage, Verified, KEY_TO_VERIFIER_MAP
<1> DEFINE g == Sent(v, f.type, f.service)
<1>6. g \in Composed[v]
  BY <1>1, <1>4 DEF Composed
<1> QED
  BY <1>2, <1>4, <1>5, <1>6 DEF Proper, Sent

-----------------------------------------------------------------------------
(* A message that is verified with certificates not older than the first.  *)
LEMMA VerdictStep ==
  ASSUME NEW v \in Versions, NEW w \in Versions, Verifies(w, v),
         v \in served..version, w <= version, served \in Nat, version \in Nat,
         UNCHANGED <<served, version>>
  PROVE  /\ HandledIsGenuine' /\ DiscardExplained'
         /\ verdict' \in [genuine : BOOLEAN, sent : Versions, proper : BOOLEAN,
                          result : {"none", "handled", "unknown", "discarded"}]
<1>1. PICK f \in Messages[w] : verdict' = Verdict(f, w, v)
  BY DEF Verifies
<1>2. PICK g \in BOOLEAN : g = (f \in Composed[w])
  <2>1. CASE (f \in Composed[w])
    <3>1. TRUE = (f \in Composed[w])
      BY <2>1, Zenon
    <3> QED
      BY <3>1, Zenon
  <2>2. CASE ~(f \in Composed[w])
    <3>1. (f \in Composed[w]) = FALSE
      BY <2>2, SMT
    <3> QED
      BY <3>1, Zenon
  <2> QED
    BY <2>1, <2>2
<1>3. PICK p \in BOOLEAN : p = Proper(f, v)
  <2>1. CASE Proper(f, v)
    <3>1. TRUE = Proper(f, v)
      BY <2>1, Zenon
    <3> QED
      BY <3>1, Zenon
  <2>2. CASE ~Proper(f, v)
    <3>1. Proper(f, v) = FALSE
      BY <2>2, SMT
    <3> QED
      BY <3>1, Zenon
  <2> QED
    BY <2>1, <2>2
<1>4. verdict' = [genuine |-> g, sent |-> w, proper |-> p, result |-> Result(f, v)]
  BY <1>1, <1>2, <1>3, Zenon DEF Verdict
<1>5. Result(f, v) \in {"handled", "unknown", "discarded"}
  BY DEF Result
<1>6. Result(f, v) = "handled" => p
  BY <1>3, HandledProper
<1>7. Result(f, v) = "discarded" /\ g => w < served \/ served < version
  <2>1. SUFFICES ASSUME Result(f, v) = "discarded", g, ~(w < served), ~(served < version) PROVE FALSE
    OBVIOUS
  <2>2. v = w
    BY <2>1 DEF Versions
  <2>3. DecodeAndVerifyMessage(f, v)
    BY <1>2, <2>1, <2>2, GenuineVerified
  <2> QED
    BY <2>1, <2>3 DEF Result
<1> QED
  BY <1>4, <1>5, <1>6, <1>7 DEF HandledIsGenuine, DiscardExplained

LEMMA InitInvariant == VInit => IInv
<1> SUFFICES ASSUME VInit PROVE IInv
  OBVIOUS
<1>1. PInv
  BY PairingInit DEF VInit
<1>2. VTypeOK
  BY <1>1, VerificationAssumption DEF VInit, PInv, VTypeOK, Versions, NoVersion, Free, NoVerdict
<1>3. OfProcess /\ ServedInLife
  BY VerificationAssumption DEF VInit, PInit, OfProcess, ServedInLife, NotOlder, Fetching
<1>4. HandledIsGenuine /\ DiscardExplained
  BY DEF VInit, NoVerdict, HandledIsGenuine, DiscardExplained
<1> QED
  BY <1>1, <1>2, <1>3, <1>4 DEF IInv

LEMMA NoVerdictStep ==
  ASSUME VerificationAssumption, verdict' = NoVerdict
  PROVE  /\ HandledIsGenuine' /\ DiscardExplained'
         /\ verdict' \in [genuine : BOOLEAN, sent : Versions, proper : BOOLEAN,
                          result : {"none", "handled", "unknown", "discarded"}]
  BY DEF NoVerdict, HandledIsGenuine, DiscardExplained, Versions

LEMMA InvariantStep ==
  ASSUME IInv, [VNext]_vars
  PROVE  IInv'
<1> USE VerificationAssumption DEF IInv, VTypeOK, Versions, NoVersion
<1>1. PInv'
  BY PairingStep
  DEF VNext, vars, Exit, Alone, RotateKeys, HandleMessages, HandleWithCached,
      CertificatesServed, CertificatesArrive, CertificatesFail, pairing
<1>2. CASE Alone(Launch)
  <2>1. OfProcess' /\ ServedInLife'
    BY <1>2 DEF Alone, Launch, OfProcess, ServedInLife, NotOlder, Fetching
  <2> QED
    BY <1>1, <1>2, <2>1, NoVerdictStep DEF Alone, PInv
<1>3. CASE Exit
  <2>1. OfProcess' /\ ServedInLife'
    BY <1>3 DEF Exit, ProcessEnds, OfProcess, ServedInLife, NotOlder, Fetching
  <2>2. handler' \in [Handlers -> [sent : Versions \cup {NoVersion}, answer : Versions \cup {NoVersion}]]
    BY <1>3 DEF Exit, Free
  <2> QED
    BY <1>1, <1>3, <2>1, <2>2, NoVerdictStep DEF Exit, PInv
<1>4. CASE RotateKeys
  <2>1. OfProcess' /\ ServedInLife'
    BY <1>4 DEF RotateKeys, pairing, OfProcess, ServedInLife, NotOlder, Fetching
  <2> QED
    BY <1>1, <1>4, <2>1, NoVerdictStep DEF RotateKeys, PInv
<1>5. CASE Alone(Pairs)
  <2>1. OfProcess' /\ ServedInLife'
    BY <1>5 DEF Alone, Pairs, Main, Enter, PromptFails, Paired, PairingFails, PairResponseLost,
                SaveOpens, Saved, SaveFails, OfProcess, ServedInLife, NotOlder, Fetching
  <2> QED
    BY <1>1, <1>5, <2>1, NoVerdictStep DEF Alone, PInv
<1>6. ASSUME NEW v \in Versions, HandleWithCached(v)
      PROVE  IInv'
  <2>1. OfProcess' /\ ServedInLife'
    BY <1>6 DEF HandleWithCached, pairing, OfProcess, ServedInLife, NotOlder, Fetching
  <2>2. certs \in Versions /\ certs \in served..version /\ v <= version /\ served \in Versions
    BY <1>6 DEF HandleWithCached, ServedInLife, NotOlder
  <2> QED
    BY <1>1, <1>6, <2>1, <2>2, VerdictStep DEF HandleWithCached, PInv
<1>7. ASSUME NEW v \in Versions, NEW h \in Handlers, HandleMessages(h, v)
      PROVE  IInv'
  <2>1. handler' \in [Handlers -> [sent : Versions \cup {NoVersion}, answer : Versions \cup {NoVersion}]]
    BY <1>7 DEF HandleMessages
  <2>2. OfProcess' /\ ServedInLife'
    BY <1>7 DEF HandleMessages, pairing, OfProcess, ServedInLife, NotOlder, Fetching, Free
  <2> QED
    BY <1>1, <1>7, <2>1, <2>2, NoVerdictStep DEF HandleMessages, PInv
<1>8. ASSUME NEW h \in Handlers, CertificatesServed(h)
      PROVE  IInv'
  <2>1. handler' \in [Handlers -> [sent : Versions \cup {NoVersion}, answer : Versions \cup {NoVersion}]]
    BY <1>8 DEF CertificatesServed
  <2>2. OfProcess' /\ ServedInLife'
    BY <1>8 DEF CertificatesServed, pairing, OfProcess, ServedInLife, NotOlder, Fetching, Free
  <2> QED
    BY <1>1, <1>8, <2>1, <2>2, NoVerdictStep DEF CertificatesServed, PInv
<1>9. ASSUME NEW h \in Handlers, CertificatesArrive(h)
      PROVE  IInv'
  <2>1. handler' \in [Handlers -> [sent : Versions \cup {NoVersion}, answer : Versions \cup {NoVersion}]]
    BY <1>9 DEF CertificatesArrive, Free
  <2>2. /\ handler[h].answer \in Versions /\ handler[h].answer \in served..version
        /\ handler[h].sent \in Versions /\ handler[h].sent <= version /\ served \in Versions
    BY <1>9 DEF CertificatesArrive, ServedInLife, NotOlder, OfProcess
  <2>3. OfProcess' /\ ServedInLife'
    BY <1>9, <2>2 DEF CertificatesArrive, pairing, OfProcess, ServedInLife, NotOlder, Fetching, Free
  <2> QED
    BY <1>1, <1>9, <2>1, <2>2, <2>3, VerdictStep DEF CertificatesArrive, PInv
<1>10. ASSUME NEW h \in Handlers, CertificatesFail(h)
       PROVE  IInv'
  <2>1. handler' \in [Handlers -> [sent : Versions \cup {NoVersion}, answer : Versions \cup {NoVersion}]]
    BY <1>10 DEF CertificatesFail, Free
  <2>2. OfProcess' /\ ServedInLife'
    BY <1>10 DEF CertificatesFail, pairing, OfProcess, ServedInLife, NotOlder, Fetching, Free
  <2> QED
    BY <1>1, <1>10, <2>1, <2>2, NoVerdictStep DEF CertificatesFail, PInv
<1>11. CASE UNCHANGED vars
  BY <1>1, <1>11 DEF vars, pairing, verification, PInv, OfProcess, ServedInLife, NotOlder, Fetching,
                     HandledIsGenuine, DiscardExplained
<1> QED
  BY <1>2, <1>3, <1>4, <1>5, <1>6, <1>7, <1>8, <1>9, <1>10, <1>11 DEF VNext

LEMMA InvariantHolds == VSpec => []IInv
  BY InitInvariant, InvariantStep, PTL DEF VSpec

(* Every variable has its type.                                            *)
THEOREM TypeCorrect == VSpec => []VTypeOK
  BY InvariantHolds, PTL DEF IInv

(* Whatever restarts, failed writes and lost answers: the main loop runs   *)
(* with the complete data of a device that Fireblocks knows                *)
(* (fb-agent-cli.ts:17-25, device.service.ts:13-31).                       *)
THEOREM MainLoopPaired == VSpec => []RunsPaired
<1>1. IInv => RunsPaired
  BY PairingRuns DEF IInv
<1> QED
  BY <1>1, InvariantHolds, PTL

(* An idle process had a failed prompt or found a half-written file        *)
(* (fb-agent-cli.ts:36-40, device.service.ts:30).                          *)
THEOREM IdlingExplained == VSpec => []StoppedExplained
<1>1. IInv => StoppedExplained
  BY DEF IInv, PInv
<1> QED
  BY <1>1, InvariantHolds, PTL

(* No other event than the three named uses up a pairing token.            *)
THEOREM TokensAccounted == VSpec => []NothingElseWasted
<1>1. IInv => NothingElseWasted
  BY DEF IInv, PInv
<1> QED
  BY <1>1, InvariantHolds, PTL

(* Saved device data is never written again.                               *)
THEOREM DataSavedForGood == VSpec => SavedForGood
<1>1. IInv /\ [VNext]_vars => [(file \in Tokens) => file' = file]_pairing
  <2> SUFFICES ASSUME IInv, [VNext]_vars, file \in Tokens PROVE file' = file
    OBVIOUS
  <2>1. Launch \/ Pairs \/ ProcessEnds \/ UNCHANGED pairing
    BY DEF VNext, vars, Exit, Alone, RotateKeys, HandleMessages, HandleWithCached,
           CertificatesServed, CertificatesArrive, CertificatesFail
  <2> QED
    BY <2>1, PairingSaves DEF IInv
<1> QED
  BY <1>1, InvariantHolds, PTL DEF VSpec, SavedForGood

(* Whatever is delivered and however often the keys are replaced: what is  *)
(* handed on is genuine (messages-utils.ts:17-171).                        *)
THEOREM OnlyGenuineHandled == VSpec => []HandledIsGenuine
  BY InvariantHolds, PTL DEF IInv

(* What Fireblocks sent is discarded only when it is older than the first  *)
(* certificates of the process or the keys were replaced after them        *)
(* (messages.service.ts:62-79, fb-server.api.ts:158-171).                  *)
THEOREM DiscardsExplained == VSpec => []DiscardExplained
  BY InvariantHolds, PTL DEF IInv

=============================================================================
