--------------------------- MODULE CustomerServer ---------------------------
(***************************************************************************)
(* examples/server/src: the reference customer server, run as one process  *)
(* or as a cluster over one database.  The agent relies on it as the       *)
(* idempotency boundary (README.md:104).  A handler is one HTTP call being *)
(* served; handlers of every process interleave at their database calls.   *)
(* The HSM call itself is synchronous (services/hsm-facade.ts:343-394).    *)
(***************************************************************************)
EXTENDS Integers, FiniteSets

CONSTANTS
  Requests,
  Supported,          \* those of a supported algorithm
  Handlers,           \* bound: calls being served at once
  CrashesAllowed      \* may processes die (once)

ASSUME ConstantsAssumption ==
  /\ Supported \subseteq Requests
  /\ CrashesAllowed \in BOOLEAN

VARIABLES
  hotMode,        \* HSM_MODE is not COLD; it never changes
  db,             \* request -> status, "none" when it is not in the database
  handler,        \* handler -> the call it serves
  signatures,     \* history: request -> HSM signatures asked for, 2 for more than 1
  reply,          \* history: the last answer to the agent
  leftBehind,     \* history: requests dropped by the return at line 54
  byOperator,     \* history: requests an operator's call set out to sign
  crashed         \* history: has a process died

history == <<reply, leftBehind, byOperator, crashed>>
vars == <<hotMode, db, handler, signatures, history>>

FinalStatuses == {"SIGNED", "FAILED"}
Statuses == {"none", "PENDING_SIGN"} \cup FinalStatuses

(* asked: what the agent's call is about, nothing in an operator's call;   *)
(* toInsert: not yet written by bulkWrite; toSign: upserted by this call   *)
(* and still to be signed; decision: msg.status of the request signing.    *)
Handler == [pc : {"idle", "insert", "find", "sign", "write", "status"},
            asked : SUBSET Requests, toInsert : SUBSET Requests, toSign : SUBSET Requests,
            signing : SUBSET Requests, decision : Statuses]
Call(pc, asked, toInsert, toSign) ==
  [pc |-> pc, asked |-> asked, toInsert |-> toInsert, toSign |-> toSign,
   signing |-> {}, decision |-> "none"]
Idle == Call("idle", {}, {}, {})

Init ==
  /\ hotMode \in BOOLEAN
  /\ db = [r \in Requests |-> "none"]
  /\ handler = [h \in Handlers |-> Idle]
  /\ signatures = [r \in Requests |-> 0]
  /\ reply = [asked |-> {}, told |-> [r \in {} |-> "none"]]
  /\ leftBehind = {} /\ byOperator = {} /\ crashed = FALSE

-----------------------------------------------------------------------------
(* The routes.  The agent asks for the status of requests that it has been *)
(* told about.                                                             *)

Serve(h, call) ==
  /\ handler[h].pc = "idle"
  /\ handler' = [handler EXCEPT ![h] = call]
  /\ UNCHANGED <<hotMode, db, signatures, reply, leftBehind, crashed>>

MessagesToSign(h, S) ==
  Serve(h, Call("insert", S, S, {})) /\ UNCHANGED byOperator
MessagesStatus(h, S) ==
  /\ S \subseteq {r \in Requests : db[r] # "none"}
  /\ Serve(h, Call("status", S, {}, {})) /\ UNCHANGED byOperator

SignByOperator(h, S) ==
  /\ Serve(h, Call("find", {}, {}, S))
  /\ byOperator' = byOperator \cup S
SignAllPendingMessages(h) == SignByOperator(h, {r \in Requests : db[r] = "PENDING_SIGN"})
SignRequest(h, r) == SignByOperator(h, {r})

-----------------------------------------------------------------------------
(* insertMessages: one upsert per request, each of them atomic; only those *)
(* this call inserted are signed by it.                                    *)

(* Definitions named Wrong... are variants of the one below them with a    *)
(* plausible defect: with it, the property named there must fail.          *)

(* Returns every message of the call: SignedOnce fails.                     *)
WrongInsert(h, r) ==
  /\ handler[h].pc = "insert" /\ r \in handler[h].toInsert
  /\ db' = IF db[r] = "none" THEN [db EXCEPT ![r] = "PENDING_SIGN"] ELSE db
  /\ handler' = [handler EXCEPT ![h].toInsert = @ \ {r}, ![h].toSign = @ \cup {r}]
  /\ UNCHANGED <<hotMode, signatures, history>>

InsertMessage(h, r) ==
  /\ handler[h].pc = "insert" /\ r \in handler[h].toInsert
  /\ IF db[r] = "none"
     THEN /\ db' = [db EXCEPT ![r] = "PENDING_SIGN"]
          /\ handler' = [handler EXCEPT ![h].toInsert = @ \ {r}, ![h].toSign = @ \cup {r}]
     ELSE /\ handler' = [handler EXCEPT ![h].toInsert = @ \ {r}]
          /\ UNCHANGED db
  /\ UNCHANGED <<hotMode, signatures, history>>

Inserted(h) ==
  /\ handler[h].pc = "insert" /\ handler[h].toInsert = {}
  /\ handler' = [handler EXCEPT ![h].pc = IF hotMode THEN "find" ELSE "status"]
  /\ UNCHANGED <<hotMode, db, signatures, history>>

-----------------------------------------------------------------------------
(* signMessages.  It reads the messages again, but not their status.       *)

GetMessages(h) ==
  /\ handler[h].pc = "find"
  /\ handler' = [handler EXCEPT ![h].pc = "sign", ![h].toSign = {r \in @ : db[r] # "none"}]
  /\ UNCHANGED <<hotMode, db, signatures, history>>

Signing(h, r, decision) ==
  /\ signatures' = [signatures EXCEPT ![r] = IF @ = 2 THEN 2 ELSE @ + 1]
  /\ handler' = [handler EXCEPT ![h].pc = "write", ![h].toSign = @ \ {r},
                                ![h].signing = {r}, ![h].decision = decision]
  /\ UNCHANGED <<hotMode, db, history>>

(* The catch of an HSM error does not set the status: TypeOK fails.        *)
WrongSign(h, r) ==
  /\ handler[h].pc = "sign" /\ r \in handler[h].toSign /\ r \in Supported
  /\ \E decision \in {"SIGNED", "PENDING_SIGN"} : Signing(h, r, decision)

(* An HSM error leaves the loop: DecidedInTheEnd fails.                    *)
WrongLoop(h, r) ==
  /\ handler[h].pc = "sign" /\ r \in handler[h].toSign /\ r \in Supported
  /\ \/ Signing(h, r, "SIGNED")
     \/ /\ handler' = [handler EXCEPT ![h].pc = "status", ![h].toSign = {}]
        /\ UNCHANGED <<hotMode, db, signatures, history>>

Sign(h, r) ==
  /\ handler[h].pc = "sign" /\ r \in handler[h].toSign /\ r \in Supported
  /\ \E decision \in FinalStatuses : Signing(h, r, decision)

(* An unsupported algorithm ends the loop: neither this request nor those  *)
(* after it are written (lines 50-55).                                     *)
UnsupportedAlgorithm(h, r) ==
  /\ handler[h].pc = "sign" /\ r \in handler[h].toSign \ Supported
  /\ handler' = [handler EXCEPT ![h].pc = "status", ![h].toSign = {}]
  /\ leftBehind' = leftBehind \cup handler[h].toSign
  /\ UNCHANGED <<hotMode, db, signatures, reply, byOperator, crashed>>

UpdateMessageStatus(h) ==
  /\ handler[h].pc = "write"
  /\ db' = [r \in Requests |-> IF r \in handler[h].signing THEN handler[h].decision ELSE db[r]]
  /\ handler' = [handler EXCEPT ![h].pc = "sign", ![h].signing = {}, ![h].decision = "none"]
  /\ UNCHANGED <<hotMode, signatures, history>>

AllSigned(h) ==
  /\ handler[h].pc = "sign" /\ handler[h].toSign = {}
  /\ handler' = [handler EXCEPT ![h].pc = "status"]
  /\ UNCHANGED <<hotMode, db, signatures, history>>

(* getMessagesStatus and the response: what the query finds.               *)
Answers(h, S) ==
  /\ handler[h].pc = "status"
  /\ handler' = [handler EXCEPT ![h] = Idle]
  /\ reply' = [asked |-> handler[h].asked, told |-> [r \in S |-> db[r]]]
  /\ UNCHANGED <<hotMode, db, signatures, leftBehind, byOperator, crashed>>

(* Answers only what is decided: ImplementsCustomer fails.                 *)
WrongRespond(h) == Answers(h, {r \in handler[h].asked : db[r] \in FinalStatuses})

Respond(h) == Answers(h, {r \in handler[h].asked : db[r] # "none"})

-----------------------------------------------------------------------------
(* A process dies, also of a rejected database call, which no route        *)
(* catches: the calls it was serving are lost.                             *)
Crash(S) ==
  /\ CrashesAllowed /\ ~crashed
  /\ crashed' = TRUE
  /\ handler' = [h \in Handlers |-> IF h \in S THEN Idle ELSE handler[h]]
  /\ UNCHANGED <<hotMode, db, signatures, reply, leftBehind, byOperator>>

Works(h) ==
  \/ \E r \in Requests : InsertMessage(h, r) \/ Sign(h, r) \/ UnsupportedAlgorithm(h, r)
  \/ Inserted(h) \/ GetMessages(h) \/ UpdateMessageStatus(h) \/ AllSigned(h) \/ Respond(h)

Next ==
  \/ \E h \in Handlers :
       \/ \E S \in (SUBSET Requests) \ {{}} : MessagesToSign(h, S)
       \/ \E S \in SUBSET Requests : MessagesStatus(h, S)
       \/ SignAllPendingMessages(h)
       \/ \E r \in Requests : SignRequest(h, r)
       \/ Works(h)
  \/ \E S \in (SUBSET Handlers) \ {{}} : Crash(S)

Spec == Init /\ [][Next]_vars

-----------------------------------------------------------------------------
(* Every variable has its type, and what is written is a final status.     *)
TypeOK ==
  /\ hotMode \in BOOLEAN
  /\ db \in [Requests -> Statuses]
  /\ handler \in [Handlers -> Handler]
  /\ \A h \in Handlers : handler[h].pc = "write" => handler[h].decision \in FinalStatuses
  /\ signatures \in [Requests -> 0..2]
  /\ reply.asked \subseteq Requests
  /\ leftBehind \subseteq Requests /\ byOperator \subseteq Requests
  /\ crashed \in BOOLEAN

(* A repeated requestId is not signed again (README.md:104), whatever      *)
(* calls for it overlap, in one process or in several, and whichever of    *)
(* them dies between its signature and its update; unless an operator, by  *)
(* the two routes meant for that, has it signed.                           *)
SignedOnce == \A r \in Requests : signatures[r] <= 1 \/ r \in byOperator

(* The server is the customer that the agent counts on: a decided request  *)
(* keeps its status, with the same exception, and every call is answered   *)
(* with the status of each of its requests, those that an earlier or an    *)
(* overlapping call has brought included (routes/messages.router.ts:30-40, *)
(* README.md:104).                                                         *)
Contract == INSTANCE Customer WITH status <- db, overruled <- byOperator
ImplementsCustomer == Contract!Spec

(* Calls being served go on.                                               *)
FairSpec == Spec /\ \A h \in Handlers : WF_vars(Works(h))

(* In HOT mode a registered request of a supported algorithm is decided,   *)
(* also when the HSM fails, unless a process died or the request was left  *)
(* behind by an unsupported one: then only an operator's call decides it.  *)
DecidedInTheEnd ==
  \A r \in Supported :
    hotMode /\ db[r] = "PENDING_SIGN" ~> db[r] \in FinalStatuses \/ crashed \/ r \in leftBehind
=============================================================================
