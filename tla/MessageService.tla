--------------------------- MODULE MessageService ---------------------------
(***************************************************************************)
(* src/services/messages.service.ts and the polling loop that calls it,    *)
(* src/customer-server-client.ts: what the agent does with the messages    *)
(* Fireblocks (MAG) delivers and the statuses the customer server reports. *)
(*                                                                         *)
(* The program is single-threaded JavaScript.  A task is one activation of *)
(* handleMessages or of pullMessagesStatus; it holds the stack from one    *)
(* await to the next, and while it is parked at an await any other task,   *)
(* and any callback of a request in flight, may run.  Requests in flight   *)
(* are the elements of ops.  Where messages come from and what the other   *)
(* ends of the requests do is left open here; module Delivery closes it.   *)
(* Definitions named Wrong... are variants of the one below them with a    *)
(* plausible defect: with it, the property named there must fail.          *)
(***************************************************************************)
EXTENDS Integers, Sequences, FiniteSets, Functions

CONSTANTS
  Requests,                   \* requestIds of messages of a known type
  TxSignRequests,             \* those of type KEY_LINK_TX_SIGN_REQUEST
  UnknownMsgs,                \* bodies that verify but have an unknown type
  InvalidMsgs,                \* bodies that decodeAndVerifyMessage rejects
  MsgIds,                     \* delivery numbers MAG may use
  PrefixSize,                 \* 1000000 in the code: one prefix per MAG instance
  AGENT_REQUESTS_CACHE_SIZE, BROADCAST_BATCH_SIZE, WEBSOCKET_ENABLED,
  Tasks,                      \* bound: activations alive at once
  MaxBatch                    \* bound: length of a batch or of a response

Bodies == Requests \cup UnknownMsgs \cup InvalidMsgs
NoMsgId == 0                  \* the code's null msgId

ASSUME ConstantsAssumption ==
  /\ TxSignRequests \subseteq Requests
  /\ Requests \cap (UnknownMsgs \cup InvalidMsgs) = {}
  /\ UnknownMsgs \cap InvalidMsgs = {}
  /\ MsgIds \subseteq Nat \ {NoMsgId}
  /\ PrefixSize \in Nat \ {0}
  /\ AGENT_REQUESTS_CACHE_SIZE \in Nat \ {0}
  /\ BROADCAST_BATCH_SIZE \in Nat \ {0}
  /\ MaxBatch \in Nat \ {0}
  /\ WEBSOCKET_ENABLED \in BOOLEAN

VARIABLES
  msgCache,       \* requestId -> [msgId, status], for the cached requestIds
  msgCacheOrder,  \* the cached requestIds, oldest first
  certificates,   \* has getCertificates succeeded once (its result is kept)
  connected,      \* fbServerWsApi.isConnected()
  task,           \* the activations
  ops             \* broadcasts and acks in flight

vars == <<msgCache, msgCacheOrder, certificates, connected, task, ops>>

Statuses == {"PENDING_SIGN", "SIGNED", "FAILED"}
FinalStatuses == {"SIGNED", "FAILED"}

Entry == [msgId : MsgIds \cup {NoMsgId}, status : Statuses]
Message == [msgId : MsgIds, body : Bodies]
Item == [msgId : MsgIds \cup {NoMsgId}, req : Requests, status : Statuses]
Report == [req : Requests, status : Statuses]
Batches(S) == UNION {[1..n -> S] : n \in 0..MaxBatch}
Partial(D, S) == UNION {[P -> S] : P \in SUBSET D}
Op == [task : Tasks, pos : 1..MaxBatch, kind : {"broadcast", "ack", "discard"},
       body : Bodies, msgId : MsgIds \cup {NoMsgId},
       status : Statuses \cup {"none"}, via : {"ws", "http"}]
Pcs == {"free", "certs", "loop", "added", "flush", "final", "next",
        "sign", "discard", "status"}
Phases == {"none", "cached", "signed", "unknown", "invalid", "pulled"}
Task == [pc : Pcs, phase : Phases, batch : Batches(Message),
         toHandle : SUBSET (1..MaxBatch), asked : SUBSET Requests,
         todo : Partial(1..MaxBatch, Item), n : Nat,
         aliased : BOOLEAN, rejected : BOOLEAN]
Empty == [k \in {} |-> 0]
Idle == [pc |-> "free", phase |-> "none", batch |-> <<>>, toHandle |-> {},
         asked |-> {}, todo |-> Empty, n |-> 0,
         aliased |-> FALSE, rejected |-> FALSE]

Init ==
  /\ msgCache = Empty
  /\ msgCacheOrder = <<>>
  /\ certificates = FALSE
  /\ connected = FALSE
  /\ task = [t \in Tasks |-> Idle]
  /\ ops = {}

-----------------------------------------------------------------------------
(* The stack, and the operations in flight of a task.                      *)

OnStack(t) == task[t].pc \in {"loop", "next"}
StackEmpty == \A t \in Tasks : ~OnStack(t)
OpsOf(t) == {o \in ops : o.task = t}
Available(t) == task[t].pc = "free" /\ OpsOf(t) = {}

IsCached(body) == body \in DOMAIN msgCache
Pending == {r \in DOMAIN msgCache : msgCache[r].status = "PENDING_SIGN"}
Prefix(id) == id \div PrefixSize
Without(s, x) ==
  IF \E i \in DOMAIN s : s[i] = x
  THEN LET i == CHOOSE j \in DOMAIN s : s[j] = x
       IN  [j \in 1..(Len(s) - 1) |-> IF j < i THEN s[j] ELSE s[j + 1]]
  ELSE s

-----------------------------------------------------------------------------
(* The cache.                                                              *)

AddMessageToCache(item) ==
  LET full == Len(msgCacheOrder) >= AGENT_REQUESTS_CACHE_SIZE
      kept == IF full THEN DOMAIN msgCache \ {Head(msgCacheOrder)} ELSE DOMAIN msgCache
      order == IF full THEN Tail(msgCacheOrder) ELSE msgCacheOrder
  IN  /\ msgCache' = [r \in kept \cup {item.req} |->
                        IF r = item.req THEN [msgId |-> item.msgId, status |-> item.status]
                        ELSE msgCache[r]]
      /\ msgCacheOrder' = Append(Without(order, item.req), item.req)

(* Deletes from msgCache only, as `delete arr[uuid]` once did (lines       *)
(* 51-53): CacheConsistent fails.                                          *)
WrongDelete(r) ==
  /\ msgCache' = Restrict(msgCache, DOMAIN msgCache \ {r})
  /\ UNCHANGED msgCacheOrder

DeleteMessageFromCache(r) ==
  /\ msgCache' = Restrict(msgCache, DOMAIN msgCache \ {r})
  /\ msgCacheOrder' = Without(msgCacheOrder, r)

(* Invalidation stores the new msgId in every stale entry: NoForeignAck    *)
(* fails.                                                                  *)
WrongInvalidation(item, r) ==
  IF item.msgId # NoMsgId /\ msgCache[item.req].msgId # NoMsgId
     /\ Prefix(msgCache[r].msgId) # Prefix(item.msgId)
  THEN item.msgId ELSE IF r = item.req /\ item.msgId # NoMsgId THEN item.msgId ELSE msgCache[r].msgId

(* A cached msgId is kept when a newer delivery brings another one:        *)
(* EventuallyDischarged fails.                                             *)
WrongKeptMsgId(item, r) ==
  IF r = item.req /\ msgCache[r].msgId = NoMsgId THEN item.msgId ELSE msgCache[r].msgId

(* The msgId of the delivery replaces the cached one; when the two come    *)
(* from different MAG instances, every cached msgId of another instance    *)
(* is forgotten first.                                                     *)
NewMsgId(item, r) ==
  LET old == msgCache[item.req].msgId
      moved == /\ old \notin {NoMsgId, item.msgId}
               /\ Prefix(old) # Prefix(item.msgId)
  IN  IF item.msgId = NoMsgId THEN msgCache[r].msgId
      ELSE IF r = item.req THEN item.msgId
      ELSE IF moved /\ Prefix(msgCache[r].msgId) # Prefix(item.msgId) THEN NoMsgId
      ELSE msgCache[r].msgId

UpdateMsgId(item) ==
  /\ msgCache' = [r \in DOMAIN msgCache |-> [msgCache[r] EXCEPT !.msgId = NewMsgId(item, r)]]
  /\ UNCHANGED msgCacheOrder

-----------------------------------------------------------------------------
(* updateStatus: the loop over its items, run by handlers (twice) and by   *)
(* the poll.  item k is dispatched with msgId id, the finalMsgId.          *)

AckVia(t, k, kind, body, id) ==
  [task |-> t, pos |-> k, kind |-> kind, body |-> body, msgId |-> id,
   status |-> "none", via |-> IF connected THEN "ws" ELSE "http"]

BroadcastVia(t, k, item) ==
  [task |-> t, pos |-> k, kind |-> "broadcast", body |-> item.req, msgId |-> NoMsgId,
   status |-> item.status,
   via |-> IF connected /\ item.req \in TxSignRequests THEN "ws" ELSE "http"]

(* Acks whatever the status is: NeverAckedUndecided fails.                 *)
WrongStatusCheck(t, k, item, id) ==
  (IF item.status \in FinalStatuses THEN {BroadcastVia(t, k, item)} ELSE {})
  \cup (IF id # NoMsgId THEN {AckVia(t, k, "ack", item.req, id)} ELSE {})

(* Broadcasts only what a delivery, not the poll, brought: KeepsLifecycle  *)
(* fails.                                                                  *)
WrongBroadcastCheck(t, k, item, id) ==
  IF item.status \notin FinalStatuses THEN {}
  ELSE (IF item.msgId # NoMsgId THEN {BroadcastVia(t, k, item)} ELSE {})
       \cup (IF id # NoMsgId THEN {AckVia(t, k, "ack", item.req, id)} ELSE {})

Dispatched(t, k, item, id) ==
  IF item.status \notin FinalStatuses THEN {}
  ELSE {BroadcastVia(t, k, item)}
       \cup (IF id # NoMsgId THEN {AckVia(t, k, "ack", item.req, id)} ELSE {})

(* n is broadcastPromises.length.  After a flush the two arrays are one    *)
(* (aliased), so acks are counted too.                                     *)
Pushed(t, new) ==
  IF new = {} THEN 0
  ELSE IF task[t].aliased /\ \E o \in new : o.kind = "ack" THEN 2 ELSE 1

(* Flushes one broadcast late: BroadcastsBounded fails.                    *)
WrongFlush(t, k, new) ==
  LET n == task[t].n + Pushed(t, new)
  IN  /\ ops' = ops \cup new
      /\ task' = [task EXCEPT
           ![t].todo = Restrict(@, DOMAIN @ \ {k}), ![t].n = n,
           ![t].pc = IF n > BROADCAST_BATCH_SIZE THEN "flush" ELSE "loop"]

ItemDone(t, k, new) ==
  LET n == task[t].n + Pushed(t, new)
  IN  /\ ops' = ops \cup new
      /\ task' = [task EXCEPT
           ![t].todo = Restrict(@, DOMAIN @ \ {k}), ![t].n = n,
           ![t].pc = IF n >= BROADCAST_BATCH_SIZE THEN "flush" ELSE "loop"]

IsNext(t, k) == k \in DOMAIN task[t].todo /\ \A j \in DOMAIN task[t].todo : k <= j

UpdateNew(t, k) ==
  /\ task[t].pc = "loop" /\ IsNext(t, k)
  /\ ~IsCached(task[t].todo[k].req)
  /\ AddMessageToCache(task[t].todo[k])
  /\ task' = [task EXCEPT ![t].pc = "added"]
  /\ UNCHANGED <<certificates, connected, ops>>

UpdateCached(t, k) ==
  LET item == task[t].todo[k]
  IN  /\ task[t].pc = "loop" /\ IsNext(t, k)
      /\ IsCached(item.req)
      /\ UpdateMsgId(item)
      /\ ItemDone(t, k, Dispatched(t, k, item, NewMsgId(item, item.req)))
      /\ UNCHANGED <<certificates, connected>>

(* After the await on addMessageToCache the entry is read again: if it is  *)
(* gone, the TypeError is caught and the item is skipped.                  *)
Added(t, k) ==
  LET item == task[t].todo[k]
  IN  /\ StackEmpty /\ task[t].pc = "added" /\ IsNext(t, k)
      /\ ItemDone(t, k, IF IsCached(item.req)
                        THEN Dispatched(t, k, item, msgCache[item.req].msgId)
                        ELSE {})
      /\ UNCHANGED <<msgCache, msgCacheOrder, certificates, connected>>

EndOfItems(t) ==
  /\ task[t].pc = "loop" /\ DOMAIN task[t].todo = {}
  /\ task' = [task EXCEPT ![t].pc = "final"]
  /\ UNCHANGED <<msgCache, msgCacheOrder, certificates, connected, ops>>

(* Promise.all resolves when every promise has, and rejects at the first   *)
(* rejection without waiting for the others.                               *)
AllResolved(t) == StackEmpty /\ OpsOf(t) = {} /\ ~task[t].rejected

Flushed(t) ==
  /\ task[t].pc = "flush" /\ AllResolved(t)
  /\ task' = [task EXCEPT ![t].pc = "loop", ![t].n = 0, ![t].aliased = TRUE]
  /\ UNCHANGED <<msgCache, msgCacheOrder, certificates, connected, ops>>

Updated(t) ==
  /\ task[t].pc = "final" /\ AllResolved(t)
  /\ task' = [task EXCEPT ![t] = IF @.phase = "pulled" THEN Idle
                                 ELSE [@ EXCEPT !.pc = "next", !.n = 0, !.aliased = FALSE]]
  /\ UNCHANGED <<msgCache, msgCacheOrder, certificates, connected, ops>>

(* A flush that rejects is not noticed: ActivationsEnd fails.              *)
WrongThrow(t) ==
  /\ StackEmpty /\ task[t].pc = "final" /\ task[t].rejected
  /\ task' = [task EXCEPT ![t] = Idle]
  /\ UNCHANGED <<msgCache, msgCacheOrder, certificates, connected, ops>>

(* A rejection ends the activation: the handler's callers and the poll     *)
(* only log it.  What else it had in flight goes on.                       *)
Throw(t) ==
  /\ StackEmpty /\ task[t].pc \in {"flush", "final"} /\ task[t].rejected
  /\ task' = [task EXCEPT ![t] = Idle]
  /\ UNCHANGED <<msgCache, msgCacheOrder, certificates, connected, ops>>

-----------------------------------------------------------------------------
(* handleMessages.                                                         *)

ReceiveMessages(t, batch) ==
  /\ StackEmpty /\ Available(t)
  /\ WEBSOCKET_ENABLED => connected /\ Len(batch) = 1
  /\ task' = [task EXCEPT ![t] = [Idle EXCEPT !.pc = "certs", !.batch = batch]]
  /\ UNCHANGED <<msgCache, msgCacheOrder, certificates, connected, ops>>

Positions(t, S) == {k \in DOMAIN task[t].batch : task[t].batch[k].body \in S}
CachedItem(m) == [msgId |-> m.msgId, req |-> m.body, status |-> msgCache[m.body].status]

Classify(t) ==
  LET cached == Positions(t, DOMAIN msgCache)
  IN  [task[t] EXCEPT
        !.phase = "cached",
        !.toHandle = Positions(t, Requests) \ cached,
        !.todo = [k \in cached |-> CachedItem(task[t].batch[k])],
        !.pc = IF cached = {} THEN "next" ELSE "loop"]

CertificatesReady(t) ==
  /\ StackEmpty /\ task[t].pc = "certs"
  /\ certificates' = TRUE
  /\ task' = [task EXCEPT ![t] = Classify(t)]
  /\ UNCHANGED <<msgCache, msgCacheOrder, connected, ops>>

CertificatesFail(t) ==
  /\ StackEmpty /\ task[t].pc = "certs" /\ ~certificates
  /\ task' = [task EXCEPT ![t] = Idle]
  /\ UNCHANGED <<msgCache, msgCacheOrder, certificates, connected, ops>>

MessagesToSign(t) ==
  /\ task[t].pc = "next" /\ task[t].phase = "cached"
  /\ task' = [task EXCEPT ![t].phase = "signed",
                          ![t].pc = IF task[t].toHandle # {} THEN "sign" ELSE "next"]
  /\ UNCHANGED <<msgCache, msgCacheOrder, certificates, connected, ops>>

(* Each report is matched with the first message of its request; the       *)
(* reports of other requests are dropped.                                  *)
FirstOf(t, r) ==
  CHOOSE k \in task[t].toHandle :
    /\ task[t].batch[k].body = r
    /\ \A j \in task[t].toHandle : task[t].batch[j].body = r => k <= j

SignedItems(t, resp) ==
  [k \in {k \in DOMAIN resp : \E j \in task[t].toHandle : task[t].batch[j].body = resp[k].req} |->
    [msgId |-> task[t].batch[FirstOf(t, resp[k].req)].msgId,
     req |-> resp[k].req, status |-> resp[k].status]]

SignResponse(t, resp) ==
  /\ StackEmpty /\ task[t].pc = "sign"
  /\ task' = [task EXCEPT ![t].pc = "loop", ![t].todo = SignedItems(t, resp)]
  /\ UNCHANGED <<msgCache, msgCacheOrder, certificates, connected, ops>>

(* A failed call is reported as failed requests: AnswersAgree fails.       *)
WrongSignFails(t) ==
  /\ StackEmpty /\ task[t].pc = "sign"
  /\ task' = [task EXCEPT ![t].pc = "loop", ![t].todo = [k \in task[t].toHandle |->
       [msgId |-> task[t].batch[k].msgId, req |-> task[t].batch[k].body, status |-> "FAILED"]]]
  /\ UNCHANGED <<msgCache, msgCacheOrder, certificates, connected, ops>>

SignFails(t) ==
  /\ StackEmpty /\ task[t].pc = "sign"
  /\ task' = [task EXCEPT ![t] = Idle]
  /\ UNCHANGED <<msgCache, msgCacheOrder, certificates, connected, ops>>

(* ackMessages, for the unknown messages and then for the invalid ones.    *)
AckMessages(t, from, to, S) ==
  LET ks == Positions(t, S)
  IN  /\ task[t].pc = "next" /\ task[t].phase = from
      /\ ops' = ops \cup {AckVia(t, k, "discard", task[t].batch[k].body, task[t].batch[k].msgId) : k \in ks}
      /\ task' = [task EXCEPT ![t].phase = to,
                              ![t].pc = IF ks = {} THEN "next" ELSE "discard"]
      /\ UNCHANGED <<msgCache, msgCacheOrder, certificates, connected>>

AckUnknown(t) == AckMessages(t, "signed", "unknown", UnknownMsgs)
AckInvalid(t) == AckMessages(t, "unknown", "invalid", InvalidMsgs)

Discarded(t) ==
  /\ StackEmpty /\ task[t].pc = "discard" /\ OpsOf(t) = {}
  /\ task' = [task EXCEPT ![t].pc = "next"]
  /\ UNCHANGED <<msgCache, msgCacheOrder, certificates, connected, ops>>

HandlerEnds(t) ==
  /\ task[t].pc = "next" /\ task[t].phase = "invalid"
  /\ task' = [task EXCEPT ![t] = Idle]
  /\ UNCHANGED <<msgCache, msgCacheOrder, certificates, connected, ops>>

-----------------------------------------------------------------------------
(* pullMessagesStatus: one poll at a time, the next is scheduled when the  *)
(* previous one has ended.                                                 *)

Pulling == \E t \in Tasks : task[t].phase = "pulled"

PullMessagesStatus(t) ==
  /\ StackEmpty /\ Available(t) /\ ~Pulling
  /\ task' = [task EXCEPT ![t] = [Idle EXCEPT !.pc = "status", !.phase = "pulled", !.asked = Pending]]
  /\ UNCHANGED <<msgCache, msgCacheOrder, certificates, connected, ops>>

(* Drops the final statuses: EventuallyAnswered fails.                     *)
WrongPulledItems(t, resp) ==
  [k \in {k \in DOMAIN resp : resp[k].req \in Pending /\ resp[k].status = "PENDING_SIGN"} |->
    [msgId |-> NoMsgId, req |-> resp[k].req, status |-> resp[k].status]]

PulledItems(t, resp) ==
  [k \in {k \in DOMAIN resp : resp[k].req \in task[t].asked} |->
    [msgId |-> NoMsgId, req |-> resp[k].req, status |-> resp[k].status]]

PullResponse(t, resp) ==
  /\ StackEmpty /\ task[t].pc = "status"
  /\ task' = [task EXCEPT ![t].todo = PulledItems(t, resp), ![t].pc = "loop"]
  /\ UNCHANGED <<msgCache, msgCacheOrder, certificates, connected, ops>>

(* An error skips the setTimeout of the next poll: PendingIsPolled fails.  *)
WrongPullFails(t) ==
  /\ StackEmpty /\ task[t].pc = "status"
  /\ task' = [task EXCEPT ![t] = [Idle EXCEPT !.phase = "pulled"]]
  /\ UNCHANGED <<msgCache, msgCacheOrder, certificates, connected, ops>>

PullFails(t) ==
  /\ StackEmpty /\ task[t].pc = "status"
  /\ task' = [task EXCEPT ![t] = Idle]
  /\ UNCHANGED <<msgCache, msgCacheOrder, certificates, connected, ops>>

-----------------------------------------------------------------------------
(* Requests in flight settle.  A broadcast over the socket is sent after   *)
(* two awaits and only on a socket that is open then; an ack over the      *)
(* socket is written when it is dispatched.                                *)

(* Sets the status of an entry that is gone: TypeOK, DTypeOK fail.         *)
WrongBroadcastDone(o) ==
  /\ StackEmpty /\ o \in ops /\ o.kind = "broadcast"
  /\ o.via = "ws" => connected
  /\ ops' = ops \ {o}
  /\ msgCache' = IF IsCached(o.body) THEN [msgCache EXCEPT ![o.body].status = o.status]
                 ELSE [r \in DOMAIN msgCache \cup {o.body} |->
                         IF r = o.body THEN [status |-> o.status] ELSE msgCache[r]]
  /\ UNCHANGED <<msgCacheOrder, certificates, connected, task>>

BroadcastDone(o) ==
  /\ StackEmpty /\ o \in ops /\ o.kind = "broadcast"
  /\ o.via = "ws" => connected
  /\ ops' = ops \ {o}
  /\ msgCache' = IF IsCached(o.body) THEN [msgCache EXCEPT ![o.body].status = o.status] ELSE msgCache
  /\ UNCHANGED <<msgCacheOrder, certificates, connected, task>>

AckDone(o) ==
  /\ StackEmpty /\ o \in ops /\ o.kind = "ack"
  /\ ops' = ops \ {o}
  /\ DeleteMessageFromCache(o.body)
  /\ UNCHANGED <<certificates, connected, task>>

DiscardSettled(o) ==
  /\ StackEmpty /\ o \in ops /\ o.kind = "discard"
  /\ ops' = ops \ {o}
  /\ UNCHANGED <<msgCache, msgCacheOrder, certificates, connected, task>>

OpFails(o) ==
  /\ StackEmpty /\ o \in ops /\ o.kind \in {"broadcast", "ack"}
  /\ ops' = ops \ {o}
  /\ task' = [task EXCEPT ![o.task].rejected = @ \/ task[o.task].pc # "free"]
  /\ UNCHANGED <<msgCache, msgCacheOrder, certificates, connected>>

(* The socket opens and closes (module FbServerWs).                        *)
ConnectionChanges ==
  /\ StackEmpty /\ WEBSOCKET_ENABLED
  /\ connected' = ~connected
  /\ UNCHANGED <<msgCache, msgCacheOrder, certificates, task, ops>>

-----------------------------------------------------------------------------
(* The steps of a task that wait for nobody outside the process.           *)
Internal(t) ==
  \/ \E k \in 1..MaxBatch : UpdateNew(t, k) \/ UpdateCached(t, k) \/ Added(t, k)
  \/ EndOfItems(t) \/ Flushed(t) \/ Updated(t) \/ Throw(t)
  \/ MessagesToSign(t) \/ AckUnknown(t) \/ AckInvalid(t) \/ Discarded(t) \/ HandlerEnds(t)

Settle(o) == BroadcastDone(o) \/ AckDone(o) \/ DiscardSettled(o) \/ OpFails(o)

Answer(t) ==
  \/ CertificatesReady(t) \/ CertificatesFail(t)
  \/ \E resp \in Batches(Report) : SignResponse(t, resp) \/ PullResponse(t, resp)
  \/ SignFails(t) \/ PullFails(t)

Next ==
  \/ \E t \in Tasks : \/ \E batch \in Batches(Message) : ReceiveMessages(t, batch)
                      \/ PullMessagesStatus(t)
                      \/ Answer(t) \/ Internal(t)
  \/ \E o \in ops : Settle(o)
  \/ ConnectionChanges

Spec == Init /\ [][Next]_vars

-----------------------------------------------------------------------------
(* Every variable has its type.                                            *)
TypeOK ==
  /\ msgCache \in Partial(Requests, Entry)
  /\ msgCacheOrder \in Seq(Requests)
  /\ certificates \in BOOLEAN
  /\ connected \in BOOLEAN
  /\ task \in [Tasks -> Task]
  /\ ops \subseteq Op

(* The two halves of the cache (lines 50-54) hold the same requestIds, each *)
(* once, and never more than AGENT_REQUESTS_CACHE_SIZE of them, whatever   *)
(* adds, evictions and late deletions run between the awaits of others.    *)
CacheConsistent ==
  /\ \A r \in Requests : r \in DOMAIN msgCache <=> \E i \in DOMAIN msgCacheOrder : msgCacheOrder[i] = r
  /\ IsInjective(msgCacheOrder)
  /\ Len(msgCacheOrder) <= AGENT_REQUESTS_CACHE_SIZE

(* One updateStatus never has more than BROADCAST_BATCH_SIZE broadcasts in *)
(* flight (lines 269-275): the counter that forces the flush is reset and  *)
(* aliased along the way, and must still cover what is really in flight.   *)
BroadcastsBounded ==
  \A t \in Tasks : Cardinality({o \in OpsOf(t) : o.kind = "broadcast"}) <= BROADCAST_BATCH_SIZE

(* A handler ends: no order of answers, failures, flushes and evictions    *)
(* leaves handleMessages or the poll parked for ever.                      *)
ActivationsEnd == \A t \in Tasks : task[t].pc # "free" ~> task[t].pc = "free"

(* A request the customer server is still signing is asked about again, as *)
(* long as it stays cached (customer-server-client.ts:12-15, 46-48).       *)
AskedAgain(r) == r \notin Pending \/ \E t \in Tasks : task[t].pc = "status" /\ r \in task[t].asked
PendingIsPolled == \A r \in Requests : r \in Pending ~> AskedAgain(r)

=============================================================================
