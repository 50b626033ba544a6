------------------------------ MODULE HsmFacade ------------------------------
(***************************************************************************)
(* examples/server/src/services/hsm-facade.ts: the one PKCS#11 session of  *)
(* a customer-server process and what sign, verify and generateKeyPair do  *)
(* with it, one step for each call into the PKCS#11 library.  Those calls  *)
(* block the thread, so one route is served at a time, but the token and   *)
(* the link to it change between any two of them.  The library and the     *)
(* token are external: a lost link takes the session, the login and the    *)
(* operation in progress with it, private keys are seen only when logged   *)
(* in, and an operation must end before the next one starts on a session.  *)
(* Definitions named Wrong... are variants of the one below them with a    *)
(* plausible defect: with it, the property named there must fail.          *)
(***************************************************************************)
EXTENDS Integers

CONSTANTS
  Keys,                 \* bound: key pairs that may be generated
  MAX_SIGN_ATTEMPTS     \* 2

ASSUME ConstantsAssumption ==
  /\ MAX_SIGN_ATTEMPTS \in Nat \ {0, 1}
  /\ Keys # {}

VARIABLES
  pc,         \* the PKCS#11 call that is next, "idle" or "down"
  call,       \* the call being served, or served last
  attempt,    \* attempt of sign's loop
  found,      \* did C_FindObjects return the key
  link,       \* token: can it be reached
  session,    \* token: is the facade's session open there
  loggedIn,   \* token: is that session logged in
  active,     \* token: the operation in progress on that session
  stored,     \* token: key -> how much of it is stored
  returned    \* history: keys whose id was returned to a client

token == <<link, session, loggedIn, active>>
vars == <<pc, call, attempt, found, token, stored, returned>>

(* The last five are history: was an open session logged in and free of    *)
(* operations when the call started, how often the session was lost until  *)
(* the end of the call (2: more than once), and whether in the call the    *)
(* link was down or the library failed in another way.                     *)
Call == [op : {"none", "sign", "verify", "generate"}, key : Keys, wellFormed : BOOLEAN,
         result : {"none", "done", "failed"},
         login : BOOLEAN, free : BOOLEAN, losses : 0..2, outage : BOOLEAN, faulty : BOOLEAN]
NewCall(op, k, wellFormed, login, free, losses, outage) ==
  [op |-> op, key |-> k, wellFormed |-> wellFormed, result |-> "none",
   login |-> login, free |-> free, losses |-> losses, outage |-> outage, faulty |-> FALSE]
NoCall == NewCall("none", CHOOSE k \in Keys : TRUE, TRUE, TRUE, TRUE, 0, FALSE)

Finding == {"findInit", "find", "findFinal"}
Using == {"init", "use"}
Generating == {"generate", "point", "setPublic", "setPrivate", "readBack"}
Reopening == {"close", "open", "login"}
OnSession == Finding \cup Using \cup Generating
Pcs == {"idle", "down"} \cup OnSession \cup Reopening

Init ==
  /\ pc = "down" /\ attempt = 1 /\ found = FALSE
  /\ call = NoCall
  /\ link \in BOOLEAN
  /\ session = FALSE /\ loggedIn = FALSE /\ active = "none"
  /\ stored = [k \in Keys |-> "none"] /\ returned = {}

-----------------------------------------------------------------------------
(* The constructor runs when the module is imported; when it throws, the   *)
(* process exits.                                                          *)
Start ==
  /\ pc = "down" /\ link
  /\ pc' = "idle" /\ call' = NoCall
  /\ session' = TRUE /\ loggedIn' = TRUE /\ active' = "none"
  /\ UNCHANGED <<attempt, found, link, stored, returned>>

(* The routes, for a supported algorithm.  wellFormed: payload, and for    *)
(* verify the signature, are strings; nothing checks that they are.        *)
Serve(op, k, wellFormed, first) ==
  /\ pc = "idle"
  /\ call' = NewCall(op, k, wellFormed, session => loggedIn, active = "none",
                     IF session THEN 0 ELSE 1, ~link)
  /\ pc' = first /\ attempt' = 1 /\ found' = FALSE
  /\ UNCHANGED <<token, stored, returned>>

Sign(k, wellFormed) == Serve("sign", k, wellFormed, "findInit")
Verify(k, wellFormed) == Serve("verify", k, wellFormed, "findInit")
GenerateKeyPair(k) == stored[k] = "none" /\ Serve("generate", k, TRUE, "generate")

-----------------------------------------------------------------------------
(* How a PKCS#11 call on the session ends.                                 *)

Reachable == link /\ session
Calls == pc \in OnSession /\ (pc = "use" => call.wellFormed)

Ends(result) == pc' = "idle" /\ call' = [call EXCEPT !.result = result]

(* The catch of sign; the other calls have none.                           *)

(* The attempts are not bounded: TypeOK fails.                             *)
WrongCatch(recoverable) ==
  IF call.op = "sign" /\ recoverable THEN pc' = "close" /\ UNCHANGED call ELSE Ends("failed")

Catch(recoverable) ==
  IF call.op = "sign" /\ recoverable /\ attempt < MAX_SIGN_ATTEMPTS
  THEN pc' = "close" /\ UNCHANGED call
  ELSE Ends("failed")

(* One of RECOVERABLE_PKCS11_CODES: the link is down or the session gone.  *)
SessionBroken ==
  /\ Calls /\ ~Reachable
  /\ Catch(TRUE)
  /\ UNCHANGED <<attempt, found, token, stored, returned>>

(* Any other code.  A search that fails half-way stays in progress; an     *)
(* operation ends with the call that uses it.                              *)
OtherError ==
  /\ Calls /\ Reachable
  /\ pc' = "idle" /\ call' = [call EXCEPT !.result = "failed", !.faulty = TRUE]
  /\ active' = IF pc = "use" THEN "none" ELSE active
  /\ UNCHANGED <<attempt, found, link, session, loggedIn, stored, returned>>

Succeeds(from, to) ==
  /\ pc = from /\ Reachable
  /\ pc' = to
  /\ UNCHANGED <<call, attempt, link, session, loggedIn>>

(* CKR_OPERATION_ACTIVE is not a recoverable code.                         *)
OperationActive ==
  /\ pc \in {"findInit", "init"} /\ Reachable /\ active # "none"
  /\ Ends("failed")
  /\ UNCHANGED <<attempt, found, token, stored, returned>>

-----------------------------------------------------------------------------
(* getPrivateKeyObject.                                                    *)

FindObjectsInit ==
  /\ Succeeds("findInit", "find") /\ active = "none"
  /\ active' = "find"
  /\ UNCHANGED <<found, stored, returned>>

FindObjects ==
  /\ Succeeds("find", "findFinal")
  /\ found' = (loggedIn /\ stored[call.key] = "both")
  /\ UNCHANGED <<active, stored, returned>>

FindObjectsFinal ==
  /\ pc = "findFinal" /\ Reachable
  /\ active' = "none"
  /\ IF found THEN pc' = "init" /\ UNCHANGED call ELSE Ends("failed")
  /\ UNCHANGED <<attempt, found, link, session, loggedIn, stored, returned>>

(* sign and verify with the key they found.                                *)

OperationInit ==
  /\ Succeeds("init", "use") /\ active = "none"
  /\ active' = call.op
  /\ UNCHANGED <<found, stored, returned>>

Operation ==
  /\ pc = "use" /\ Reachable /\ call.wellFormed
  /\ active' = "none"
  /\ Ends("done")
  /\ UNCHANGED <<attempt, found, link, session, loggedIn, stored, returned>>

(* Buffer.from throws, before the library is called: the operation that    *)
(* was initialised stays in progress.                                      *)
MalformedArgument ==
  /\ pc = "use" /\ ~call.wellFormed
  /\ Ends("failed")
  /\ UNCHANGED <<attempt, found, token, stored, returned>>

-----------------------------------------------------------------------------
(* reopenSession.  Whether C_CloseSession succeeds makes no difference.    *)

CloseSession ==
  /\ pc = "close"
  /\ pc' = "open"
  /\ session' = FALSE /\ loggedIn' = FALSE /\ active' = "none"
  /\ UNCHANGED <<call, attempt, found, link, stored, returned>>

(* selectSlot and C_OpenSession.                                           *)
OpenSession ==
  /\ pc = "open" /\ link
  /\ pc' = "login" /\ session' = TRUE
  /\ UNCHANGED <<call, attempt, found, link, loggedIn, active, stored, returned>>

(* The retry runs on a session that was not logged in: OneLossRecovered    *)
(* fails.                                                                  *)
WrongLogin ==
  /\ pc = "login" /\ Reachable
  /\ pc' = "findInit" /\ attempt' = attempt + 1
  /\ UNCHANGED <<call, found, token, stored, returned>>

(* The attempts start again after a reopening: CallsEnd fails.             *)
WrongAttempts ==
  /\ pc = "login" /\ Reachable
  /\ pc' = "findInit" /\ attempt' = 1
  /\ loggedIn' = TRUE
  /\ UNCHANGED <<call, found, link, session, active, stored, returned>>

Login ==
  /\ pc = "login" /\ Reachable
  /\ pc' = "findInit" /\ attempt' = attempt + 1
  /\ loggedIn' = TRUE
  /\ UNCHANGED <<call, found, link, session, active, stored, returned>>

(* What reopenSession throws, sign throws.  A session that was opened is   *)
(* kept although it is not logged in.                                      *)
ReopenFails ==
  /\ pc \in {"open", "login"}
  /\ \/ Ends("failed") /\ ~(IF pc = "open" THEN link ELSE Reachable)
     \/ pc' = "idle" /\ call' = [call EXCEPT !.result = "failed", !.faulty = TRUE]
  /\ UNCHANGED <<attempt, found, token, stored, returned>>

-----------------------------------------------------------------------------
(* generateKeyPair: the pair is stored first, then its id is set, on the   *)
(* public and on the private key, and read back.                           *)

Stores(k, what) == stored' = [stored EXCEPT ![k] = what]

GenerateKeys ==
  /\ loggedIn /\ Succeeds("generate", "point") /\ Stores(call.key, "pair")
  /\ UNCHANGED <<found, active, returned>>
ReadPoint ==
  /\ Succeeds("point", "setPublic") /\ UNCHANGED <<found, active, stored, returned>>
SetPublicId ==
  /\ Succeeds("setPublic", "setPrivate") /\ Stores(call.key, "public")
  /\ UNCHANGED <<found, active, returned>>

(* The id of the private key is left to be set later: ReturnedKeysStored   *)
(* fails.                                                                  *)
WrongSetPrivateId ==
  /\ loggedIn /\ Succeeds("setPrivate", "readBack")
  /\ UNCHANGED <<found, active, stored, returned>>
SetPrivateId ==
  /\ loggedIn /\ Succeeds("setPrivate", "readBack") /\ Stores(call.key, "both")
  /\ UNCHANGED <<found, active, returned>>

KeyPairReturned ==
  /\ pc = "readBack" /\ Reachable
  /\ Ends("done")
  /\ returned' = returned \cup {call.key}
  /\ UNCHANGED <<attempt, found, token, stored>>

-----------------------------------------------------------------------------
(* The environment.  The link breaks, and is up again at once or later;    *)
(* the process dies.                                                       *)

InCall == pc \notin {"idle", "down"}
LinkLost(up) ==
  /\ link' = up /\ session' = FALSE /\ loggedIn' = FALSE /\ active' = "none"
  /\ call' = IF InCall
             THEN [call EXCEPT !.losses = IF @ = 2 THEN 2 ELSE @ + 1, !.outage = @ \/ ~up]
             ELSE call
  /\ UNCHANGED <<pc, attempt, found, stored, returned>>

LinkBack ==
  /\ ~link /\ link' = TRUE
  /\ UNCHANGED <<pc, call, attempt, found, session, loggedIn, active, stored, returned>>

Exit ==
  /\ pc' = "down" /\ call' = NoCall /\ attempt' = 1 /\ found' = FALSE
  /\ session' = FALSE /\ loggedIn' = FALSE /\ active' = "none"
  /\ UNCHANGED <<link, stored, returned>>

Works ==
  \/ SessionBroken \/ OtherError \/ OperationActive
  \/ FindObjectsInit \/ FindObjects \/ FindObjectsFinal
  \/ OperationInit \/ Operation \/ MalformedArgument
  \/ CloseSession \/ OpenSession \/ Login \/ ReopenFails
  \/ GenerateKeys \/ ReadPoint \/ SetPublicId \/ SetPrivateId \/ KeyPairReturned

Next ==
  \/ Start \/ Works
  \/ \E k \in Keys : \/ GenerateKeyPair(k)
                     \/ \E wellFormed \in BOOLEAN : Sign(k, wellFormed) \/ Verify(k, wellFormed)
  \/ \E up \in BOOLEAN : LinkLost(up)
  \/ LinkBack \/ Exit

Spec == Init /\ [][Next]_vars

(* The thread runs a call to its end.                                      *)
FairSpec == Spec /\ WF_vars(Works)

-----------------------------------------------------------------------------
(* Every variable has its type.                                            *)
TypeOK ==
  /\ pc \in Pcs /\ call \in Call
  /\ attempt \in 1..MAX_SIGN_ATTEMPTS /\ found \in BOOLEAN
  /\ link \in BOOLEAN /\ session \in BOOLEAN /\ loggedIn \in BOOLEAN
  /\ active \in {"none", "find", "sign", "verify"}
  /\ stored \in [Keys -> {"none", "pair", "public", "both"}]
  /\ returned \subseteq Keys

(* A sign call that fails although the link was up all the while and no    *)
(* PKCS#11 call failed for another reason.                                 *)
FailsInFairWeather ==
  /\ call.op = "sign" /\ call.result = "failed"
  /\ call.wellFormed /\ stored[call.key] = "both"
  /\ ~call.outage /\ ~call.faulty /\ call.losses <= 1

(* One lost session, whether before the call or at any point of it, is     *)
(* repaired by that very call (lines 353-357), if the session was in order *)
(* until it was lost: logged in and with no operation in progress.         *)
OneLossRecovered == ~(FailsInFairWeather /\ call.login /\ call.free)

(* The session is re-established and logged in again "to recover from a    *)
(* stale/dropped session" (lines 125-126): also when an earlier attempt at *)
(* it failed.  It is not so: a session that was opened but not logged in   *)
(* stays, and no error that follows is a recoverable one.                  *)
RecoversFromReopen == ~(FailsInFairWeather /\ call.free)

(* A key id is returned only when both halves of the pair carry it, so     *)
(* that sign finds the key, at whatever call generateKeyPair broke before  *)
(* and whatever keys it left behind without an id (lines 252-295).         *)
ReturnedKeysStored == \A k \in returned : stored[k] = "both"

(* Every call ends, also when the link is lost again at every step: the    *)
(* retry is bounded "on purpose" (lines 117-119).                          *)
CallsEnd == InCall ~> ~InCall
=============================================================================
