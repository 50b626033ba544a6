--------------------------- MODULE DeliveryProofs ---------------------------
(***************************************************************************)
(* The agent between MAG and the customer's server keeps every request on  *)
(* its life cycle, for every set of requests, any number of activations,   *)
(* any cache and batch size, and any number of lost sessions and crashes.  *)
(***************************************************************************)
EXTENDS Delivery, MessageServiceProofs

-----------------------------------------------------------------------------
(* What the agent knows: the msgIds it connects with a body, and the       *)
(* statuses it connects with a request.                                    *)

CacheNames(id, b) == b \in DOMAIN msgCache /\ msgCache[b].msgId = id
OpNames(id, b) == \E o \in ops : o.msgId = id /\ o.body = b
TaskNames(v, id, b) ==
  \/ \E k \in DOMAIN v.batch : v.batch[k].msgId = id /\ v.batch[k].body = b
  \/ \E k \in DOMAIN v.todo : v.todo[k].msgId = id /\ v.todo[k].req = b
AgentNames(id, b) ==
  CacheNames(id, b) \/ OpNames(id, b) \/ \E t \in Tasks : TaskNames(task[t], id, b)

CacheTold(r, s) == r \in DOMAIN msgCache /\ msgCache[r].status = s
OpTold(r, s) == \E o \in Broadcasts(ops) : o.body = r /\ o.status = s
TaskTold(v, r, s) == \E k \in DOMAIN v.todo : v.todo[k].req = r /\ v.todo[k].status = s
Told(r, s) ==
  CacheTold(r, s) \/ OpTold(r, s) \/ \E t \in Tasks : TaskTold(task[t], r, s)

(* Most steps invent neither a name nor a status.                          *)
NoNewName == \A id \in MsgIds : \A b : AgentNames(id, b)' => AgentNames(id, b)
NothingTold == \A r, s : Told(r, s)' => Told(r, s)

(* An activation that changes may know only what the agent knew.           *)
LEMMA LearnsNoName ==
  ASSUME TypeOK, NEW t \in Tasks, NEW v, task' = [task EXCEPT ![t] = v],
         \A id \in MsgIds : \A b :
           TaskNames(v, id, b) \/ CacheNames(id, b)' \/ OpNames(id, b)' => AgentNames(id, b)
  PROVE  NoNewName
<1>1. \A u \in Tasks : task'[u] = IF u = t THEN v ELSE task[u]
  BY DEF TypeOK
<1>2. SUFFICES ASSUME NEW id \in MsgIds, NEW b, AgentNames(id, b)' PROVE AgentNames(id, b)
  BY DEF NoNewName
<1>3. ASSUME NEW u \in Tasks, TaskNames(task'[u], id, b) PROVE AgentNames(id, b)
  <2>1. CASE u = t
    BY <1>1, <1>3, <2>1
  <2>2. CASE u # t
    BY <1>1, <1>3, <2>2 DEF AgentNames
  <2>3. QED BY <2>1, <2>2
<1>4. CacheNames(id, b)' \/ OpNames(id, b)' \/ \E u \in Tasks : TaskNames(task'[u], id, b)
  BY <1>2 DEF AgentNames, TaskNames
<1>5. QED BY <1>3, <1>4

LEMMA LearnsNoStatus ==
  ASSUME TypeOK, NEW t \in Tasks, NEW v, task' = [task EXCEPT ![t] = v],
         \A r, s : TaskTold(v, r, s) \/ CacheTold(r, s)' \/ OpTold(r, s)' => Told(r, s)
  PROVE  NothingTold
<1>1. \A u \in Tasks : task'[u] = IF u = t THEN v ELSE task[u]
  BY DEF TypeOK
<1>2. SUFFICES ASSUME NEW r, NEW s, Told(r, s)' PROVE Told(r, s)
  BY DEF NothingTold
<1>3. ASSUME NEW u \in Tasks, TaskTold(task'[u], r, s) PROVE Told(r, s)
  <2>1. CASE u = t
    BY <1>1, <1>3, <2>1
  <2>2. CASE u # t
    BY <1>1, <1>3, <2>2 DEF Told
  <2>3. QED BY <2>1, <2>2
<1>4. CacheTold(r, s)' \/ OpTold(r, s)' \/ \E u \in Tasks : TaskTold(task'[u], r, s)
  BY <1>2 DEF Told, TaskTold
<1>5. QED BY <1>3, <1>4

(* A step that touches neither cache nor requests in flight, and leaves    *)
(* the activation with what it had, or without it.                         *)
Keeps(v, w) ==
  /\ v.batch = w.batch \/ DOMAIN v.batch = {}
  /\ DOMAIN v.todo \subseteq DOMAIN w.todo
  /\ \A k \in DOMAIN v.todo : v.todo[k] = w.todo[k]

LEMMA KeepsKnowledge ==
  ASSUME NEW v, NEW w, Keeps(v, w)
  PROVE  /\ \A id, b : TaskNames(v, id, b) => TaskNames(w, id, b)
         /\ \A r, s : TaskTold(v, r, s) => TaskTold(w, r, s)
<1>1. ASSUME NEW id, NEW b, TaskNames(v, id, b) PROVE TaskNames(w, id, b)
  BY <1>1 DEF Keeps, TaskNames
<1>2. ASSUME NEW r, NEW s, TaskTold(v, r, s) PROVE TaskTold(w, r, s)
  BY <1>2 DEF Keeps, TaskTold
<1>3. QED BY <1>1, <1>2

LEMMA IdleKeeps == \A w : Keeps(Idle, w)
BY DEF Keeps, Idle, Empty

LEMMA MovesQuietly ==
  ASSUME TypeOK, NEW t \in Tasks, NEW v, task' = [task EXCEPT ![t] = v],
         Keeps(v, task[t]), UNCHANGED msgCache, ops' \subseteq ops
  PROVE  NoNewName /\ NothingTold
<1>1. \A id, b : TaskNames(v, id, b) => TaskNames(task[t], id, b)
  BY KeepsKnowledge
<1>2. \A r, s : TaskTold(v, r, s) => TaskTold(task[t], r, s)
  BY KeepsKnowledge
<1>3. \A id, b : CacheNames(id, b)' \/ OpNames(id, b)' => CacheNames(id, b) \/ OpNames(id, b)
  BY DEF CacheNames, OpNames
<1>4. \A r, s : CacheTold(r, s)' \/ OpTold(r, s)' => CacheTold(r, s) \/ OpTold(r, s)
  BY DEF CacheTold, OpTold, Broadcasts
<1>5. NoNewName
  <2>1. \A id \in MsgIds : \A b :
          TaskNames(v, id, b) \/ CacheNames(id, b)' \/ OpNames(id, b)' => AgentNames(id, b)
    BY <1>1, <1>3 DEF AgentNames
  <2>2. QED BY <2>1, LearnsNoName
<1>6. NothingTold
  <2>1. \A r, s : TaskTold(v, r, s) \/ CacheTold(r, s)' \/ OpTold(r, s)' => Told(r, s)
    BY <1>2, <1>4 DEF Told
  <2>2. QED BY <2>1, LearnsNoStatus
<1>7. QED BY <1>5, <1>6

(* Steps that only move an activation on, or end it.                       *)
LEMMA PlainMoves ==
  ASSUME TypeInv, NEW t \in Tasks,
         \/ EndOfItems(t) \/ Flushed(t) \/ Updated(t) \/ Throw(t) \/ MessagesToSign(t)
         \/ Discarded(t) \/ HandlerEnds(t) \/ CertificatesFail(t) \/ SignFails(t)
         \/ PullMessagesStatus(t) \/ PullFails(t)
  PROVE  NoNewName /\ NothingTold /\ ops' = ops
<1>1. task[t] \in Task /\ TypeOK /\ task \in [Tasks -> Task]
  BY DEF TypeInv, TypeOK
<1>2. PICK v : task' = [task EXCEPT ![t] = v] /\ Keeps(v, task[t])
  <2> DEFINE Moved(v) == task' = [task EXCEPT ![t] = v] /\ Keeps(v, task[t])
  <2>1. CASE EndOfItems(t)
    <3>1. Moved([task[t] EXCEPT !.pc = "final"])
      BY <1>1, <2>1 DEF EndOfItems, Keeps, Task
    <3>2. QED BY <3>1
  <2>2. CASE Flushed(t)
    <3>1. Moved([task[t] EXCEPT !.pc = "loop", !.n = 0, !.aliased = TRUE])
      BY <1>1, <2>2 DEF Flushed, Keeps, Task
    <3>2. QED BY <3>1
  <2>3. CASE Updated(t)
    <3>1. CASE task[t].phase = "pulled"
      <4>1. Moved(Idle)
        BY <1>1, <2>3, <3>1, IdleKeeps DEF Updated
      <4>2. QED BY <4>1
    <3>2. CASE task[t].phase # "pulled"
      <4>1. Moved([task[t] EXCEPT !.pc = "next", !.n = 0, !.aliased = FALSE])
        BY <1>1, <2>3, <3>2 DEF Updated, Keeps, Task
      <4>2. QED BY <4>1
    <3>3. QED BY <3>1, <3>2
  <2>4. CASE MessagesToSign(t)
    <3>1. Moved([task[t] EXCEPT !.phase = "signed",
                   !.pc = IF task[t].toHandle # {} THEN "sign" ELSE "next"])
      BY <1>1, <2>4 DEF MessagesToSign, Keeps, Task
    <3>2. QED BY <3>1
  <2>5. CASE Discarded(t)
    <3>1. Moved([task[t] EXCEPT !.pc = "next"])
      BY <1>1, <2>5 DEF Discarded, Keeps, Task
    <3>2. QED BY <3>1
  <2>6. CASE Throw(t) \/ HandlerEnds(t) \/ CertificatesFail(t) \/ SignFails(t) \/ PullFails(t)
    <3>1. Moved(Idle)
      BY <2>6, IdleKeeps DEF Throw, HandlerEnds, CertificatesFail, SignFails, PullFails
    <3>2. QED BY <3>1
  <2>7. CASE PullMessagesStatus(t)
    <3>1. Moved([Idle EXCEPT !.pc = "status", !.phase = "pulled", !.asked = Pending])
      BY <2>7 DEF PullMessagesStatus, Keeps, Idle, Empty
    <3>2. QED BY <3>1
  <2>8. QED BY <2>1, <2>2, <2>3, <2>4, <2>5, <2>6, <2>7
<1>3. UNCHANGED <<msgCache, ops>>
  BY DEF EndOfItems, Flushed, Updated, Throw, MessagesToSign, Discarded, HandlerEnds,
         CertificatesFail, SignFails, PullMessagesStatus, PullFails
<1>4. QED BY <1>1, <1>2, <1>3, MovesQuietly

-----------------------------------------------------------------------------
(* What a step of an activation may put in flight: the answer of a request *)
(* whose final status it knows, with its ack (lines 241-261), or the acks  *)
(* of messages that are no requests.                                       *)

SendsAnswer ==
  \E r \in Requests, s \in FinalStatuses, S \in SUBSET Op :
    /\ ops' = ops \cup S
    /\ Told(r, s)
    /\ \A o \in S : o.body = r /\ (o.kind = "ack" \/ (o.kind = "broadcast" /\ o.status = s))
    /\ \E o \in S : o.kind = "broadcast"

SendsDiscards ==
  \E S \in SUBSET Op :
    /\ ops' = ops \cup S
    /\ \A o \in S : o.kind = "discard" /\ o.body \notin Requests

Quiet == NoNewName /\ NothingTold /\ (ops' = ops \/ SendsAnswer \/ SendsDiscards)

LEMMA ItemDoneKeeps ==
  ASSUME TypeInv, NEW t \in Tasks, NEW k \in DOMAIN task[t].todo, NEW new, ItemDone(t, k, new)
  PROVE  /\ \E v : task' = [task EXCEPT ![t] = v] /\ Keeps(v, task[t])
         /\ ops' = ops \cup new
<1> DEFINE n == task[t].n + Pushed(t, new)
           v == [task[t] EXCEPT !.todo = Restrict(task[t].todo, DOMAIN task[t].todo \ {k}), !.n = n,
                                !.pc = IF n >= BROADCAST_BATCH_SIZE THEN "flush" ELSE "loop"]
<1>1. task[t] \in Task /\ task \in [Tasks -> Task]
  BY DEF TypeInv, TypeOK
<1>2. task' = [task EXCEPT ![t] = v]
  BY <1>1 DEF ItemDone
<1>3. v.batch = task[t].batch /\ v.todo = Restrict(task[t].todo, DOMAIN task[t].todo \ {k})
  BY <1>1 DEF Task
<1>4. Keeps(v, task[t])
  BY <1>3 DEF Keeps, Restrict
<1>5. QED BY <1>2, <1>4 DEF ItemDone

(* An item that is done: if it is dispatched, then with a msgId that the   *)
(* agent connects with its request.                                        *)
LEMMA ItemQuiet ==
  ASSUME TypeInv, NEW t \in Tasks, NEW k \in DOMAIN task[t].todo,
         NEW id \in MsgIds \cup {NoMsgId}, NEW new,
         new = {} \/ new = Dispatched(t, k, task[t].todo[k], id),
         ItemDone(t, k, new),
         id \in MsgIds => AgentNames(id, task[t].todo[k].req),
         \A i \in MsgIds : \A b : CacheNames(i, b)' => AgentNames(i, b),
         \A r, s : CacheTold(r, s)' => Told(r, s)
  PROVE  Quiet
<1> DEFINE item == task[t].todo[k]
<1>1. item \in Item /\ k \in 1..MaxBatch /\ NoMsgId \notin MsgIds
  BY TodoType, ConstantsAssumption DEF TypeInv, ConstantsAssumption
<1>2. TaskTold(task[t], item.req, item.status)
  BY DEF TaskTold
<1>3. Told(item.req, item.status)
  BY <1>2 DEF Told
<1>4. PICK v : task' = [task EXCEPT ![t] = v] /\ Keeps(v, task[t])
  BY ItemDoneKeeps
<1>5. ops' = ops \cup new
  BY ItemDoneKeeps
<1> HIDE DEF item
<1>6. new \subseteq Op
  BY <1>1, DispatchedType DEF item
<1>7. \A o \in new : /\ item.status \in FinalStatuses /\ o.body = item.req
                     /\ \/ o.kind = "ack" /\ o.msgId = id
                        \/ o.kind = "broadcast" /\ o.msgId = NoMsgId /\ o.status = item.status
  BY DEF Dispatched, BroadcastVia, AckVia, item
<1>8. new # {} => item.status \in FinalStatuses /\ \E o \in new : o.kind = "broadcast"
  <2>1. BroadcastVia(t, k, item).kind = "broadcast"
    BY DEF BroadcastVia
  <2>2. QED BY <2>1 DEF Dispatched, item
<1>9. NoNewName
  <2>1. ASSUME NEW i \in MsgIds, NEW b,
               TaskNames(v, i, b) \/ CacheNames(i, b)' \/ OpNames(i, b)'
        PROVE  AgentNames(i, b)
    <3>1. CASE TaskNames(v, i, b)
      BY <1>4, <3>1, KeepsKnowledge DEF AgentNames
    <3>2. CASE CacheNames(i, b)'
      BY <3>2
    <3>3. CASE OpNames(i, b)'
      <4>1. PICK o \in ops' : o.msgId = i /\ o.body = b
        BY <3>3 DEF OpNames
      <4>2. CASE o \in ops
        BY <4>1, <4>2 DEF AgentNames, OpNames
      <4>3. CASE o \in new
        BY <1>1, <1>7, <4>1, <4>3 DEF item
      <4>4. QED BY <1>5, <4>2, <4>3
    <3>4. QED BY <2>1, <3>1, <3>2, <3>3
  <2>2. QED BY <1>4, <2>1, LearnsNoName DEF TypeInv
<1>10. NothingTold
  <2>1. ASSUME NEW r, NEW s, TaskTold(v, r, s) \/ CacheTold(r, s)' \/ OpTold(r, s)'
        PROVE  Told(r, s)
    <3>1. CASE TaskTold(v, r, s)
      BY <1>4, <3>1, KeepsKnowledge DEF Told
    <3>2. CASE CacheTold(r, s)'
      BY <3>2
    <3>3. CASE OpTold(r, s)'
      <4>1. PICK o \in ops' : o.kind = "broadcast" /\ o.body = r /\ o.status = s
        BY <3>3 DEF OpTold, Broadcasts
      <4>2. CASE o \in ops
        BY <4>1, <4>2 DEF Told, OpTold, Broadcasts
      <4>3. CASE o \in new
        BY <1>3, <1>7, <4>1, <4>3
      <4>4. QED BY <1>5, <4>2, <4>3
    <3>4. QED BY <2>1, <3>1, <3>2, <3>3
  <2>2. QED BY <1>4, <2>1, LearnsNoStatus DEF TypeInv
<1>11. ops' = ops \/ SendsAnswer
  <2>1. CASE new = {}
    BY <1>5, <2>1
  <2>2. CASE new # {}
    <3>1. item.req \in Requests
      BY <1>1 DEF Item, item
    <3>2. \A o \in new : o.body = item.req
                         /\ (o.kind = "ack" \/ (o.kind = "broadcast" /\ o.status = item.status))
      BY <1>7
    <3>3. QED BY <1>3, <1>5, <1>6, <1>8, <2>2, <3>1, <3>2 DEF SendsAnswer
  <2>3. QED BY <2>1, <2>2
<1>12. QED BY <1>9, <1>10, <1>11 DEF Quiet

(* updateStatus: an added entry is the item's; a msgId that replaces a     *)
(* cached one is the item's, for the entry of its request only (line 238). *)
LEMMA UpdateStatusQuiet ==
  ASSUME TypeInv, NEW t \in Tasks, NEW k \in 1..MaxBatch,
         UpdateNew(t, k) \/ UpdateCached(t, k) \/ Added(t, k)
  PROVE  Quiet
<1> DEFINE item == task[t].todo[k]
<1>1. /\ task[t] \in Task /\ task \in [Tasks -> Task] /\ k \in DOMAIN task[t].todo
      /\ item \in Item /\ NoMsgId \notin MsgIds
      /\ DOMAIN msgCache \subseteq Requests /\ msgCache \in [DOMAIN msgCache -> Entry]
  BY TodoType, PartialMember, ConstantsAssumption
     DEF ConstantsAssumption, TypeInv, TypeOK, UpdateNew, UpdateCached, Added, IsNext
<1>2. AgentNames(item.msgId, item.req) /\ Told(item.req, item.status)
  <2>1. TaskNames(task[t], item.msgId, item.req) /\ TaskTold(task[t], item.req, item.status)
    BY <1>1 DEF TaskNames, TaskTold
  <2>2. QED BY <2>1 DEF AgentNames, Told
<1> HIDE DEF item
<1>3. CASE UpdateNew(t, k)
  <2> DEFINE v == [task[t] EXCEPT !.pc = "added"]
  <2>1. task' = [task EXCEPT ![t] = v] /\ Keeps(v, task[t])
    BY <1>1, <1>3 DEF UpdateNew, Keeps, Task
  <2>2. ops' = ops
    BY <1>3 DEF UpdateNew
  <2> HIDE DEF v
  <2>3. /\ DOMAIN msgCache' \subseteq DOMAIN msgCache \cup {item.req}
        /\ \A r \in DOMAIN msgCache' :
             msgCache'[r] = IF r = item.req THEN [msgId |-> item.msgId, status |-> item.status]
                            ELSE msgCache[r]
    BY <1>3 DEF UpdateNew, AddMessageToCache, item
  <2>4. \A i, b : CacheNames(i, b)' => AgentNames(i, b)
    <3> SUFFICES ASSUME NEW i, NEW b, CacheNames(i, b)' PROVE AgentNames(i, b)
      OBVIOUS
    <3>1. CASE b = item.req
      BY <1>2, <2>3, <3>1 DEF CacheNames
    <3>2. CASE b # item.req
      BY <2>3, <3>2 DEF CacheNames, AgentNames
    <3>3. QED BY <3>1, <3>2
  <2>5. \A r, s : CacheTold(r, s)' => Told(r, s)
    <3> SUFFICES ASSUME NEW r, NEW s, CacheTold(r, s)' PROVE Told(r, s)
      OBVIOUS
    <3>1. CASE r = item.req
      BY <1>2, <2>3, <3>1 DEF CacheTold
    <3>2. CASE r # item.req
      BY <2>3, <3>2 DEF CacheTold, Told
    <3>3. QED BY <3>1, <3>2
  <2>6. NoNewName
    <3>1. \A i \in MsgIds : \A b :
            TaskNames(v, i, b) \/ CacheNames(i, b)' \/ OpNames(i, b)' => AgentNames(i, b)
      BY <2>1, <2>2, <2>4, KeepsKnowledge DEF AgentNames, OpNames
    <3>2. QED BY <2>1, <3>1, LearnsNoName DEF TypeInv
  <2>7. NothingTold
    <3>1. \A r, s : TaskTold(v, r, s) \/ CacheTold(r, s)' \/ OpTold(r, s)' => Told(r, s)
      BY <2>1, <2>2, <2>5, KeepsKnowledge DEF Told, OpTold
    <3>2. QED BY <2>1, <3>1, LearnsNoStatus DEF TypeInv
  <2>8. QED BY <2>2, <2>6, <2>7 DEF Quiet
<1>4. CASE UpdateCached(t, k)
  <2> DEFINE id == NewMsgId(item, item.req)
  <2>1. item.req \in DOMAIN msgCache /\ UpdateMsgId(item)
        /\ ItemDone(t, k, Dispatched(t, k, item, id))
    BY <1>4 DEF UpdateCached, IsCached, item
  <2>2. ASSUME NEW r \in DOMAIN msgCache, NewMsgId(item, r) \in MsgIds
        PROVE  AgentNames(NewMsgId(item, r), r)
    <3>1. \/ NewMsgId(item, r) = msgCache[r].msgId
          \/ r = item.req /\ NewMsgId(item, r) = item.msgId
      BY <1>1, <2>2 DEF NewMsgId
    <3>2. QED BY <1>2, <3>1 DEF AgentNames, CacheNames
  <2>3. /\ DOMAIN msgCache' = DOMAIN msgCache
        /\ \A r \in DOMAIN msgCache : /\ msgCache'[r].msgId = NewMsgId(item, r)
                                      /\ msgCache'[r].status = msgCache[r].status
    BY <1>1, <2>1 DEF UpdateMsgId, Entry
  <2>4. id \in MsgIds \cup {NoMsgId}
    BY <1>1, <2>1, NewMsgIdType DEF TypeInv
  <2>5. id \in MsgIds => AgentNames(id, item.req)
    BY <2>1, <2>2
  <2>6. \A i \in MsgIds : \A b : CacheNames(i, b)' => AgentNames(i, b)
    BY <2>2, <2>3 DEF CacheNames
  <2>7. \A r, s : CacheTold(r, s)' => Told(r, s)
    BY <2>3 DEF CacheTold, Told
  <2> HIDE DEF id
  <2>8. QED BY <1>1, <2>1, <2>4, <2>5, <2>6, <2>7, ItemQuiet DEF item
<1>5. CASE Added(t, k)
  <2> DEFINE id == msgCache[item.req].msgId
  <2>1. CASE IsCached(item.req)
    <3>1. ItemDone(t, k, Dispatched(t, k, item, id)) /\ UNCHANGED msgCache
      BY <1>5, <2>1 DEF Added, item
    <3>2. id \in MsgIds \cup {NoMsgId} /\ AgentNames(id, item.req)
      BY <1>1, <2>1 DEF IsCached, Entry, AgentNames, CacheNames
    <3>3. /\ \A i \in MsgIds : \A b : CacheNames(i, b)' => AgentNames(i, b)
          /\ \A r, s : CacheTold(r, s)' => Told(r, s)
      BY <3>1 DEF CacheNames, CacheTold, AgentNames, Told
    <3> HIDE DEF id
    <3>4. QED BY <1>1, <3>1, <3>2, <3>3, ItemQuiet DEF item
  <2>2. CASE ~IsCached(item.req)
    <3>1. ItemDone(t, k, {}) /\ UNCHANGED msgCache
      BY <1>5, <2>2 DEF Added, item
    <3>2. /\ \A i \in MsgIds : \A b : CacheNames(i, b)' => AgentNames(i, b)
          /\ \A r, s : CacheTold(r, s)' => Told(r, s)
      BY <3>1 DEF CacheNames, CacheTold, AgentNames, Told
    <3>3. QED BY <1>1, <3>1, <3>2, ItemQuiet
  <2>3. QED BY <2>1, <2>2
<1>6. QED BY <1>3, <1>4, <1>5

(* ackMessages puts only acks of messages that are no requests in flight   *)
(* (lines 164-178).                                                        *)
LEMMA AckMessagesQuiet ==
  ASSUME TypeInv, NEW t \in Tasks, AckUnknown(t) \/ AckInvalid(t)
  PROVE  Quiet
<1>1. PICK from \in Phases, to \in Phases, S \in {UnknownMsgs, InvalidMsgs} :
        AckMessages(t, from, to, S)
  BY DEF AckUnknown, AckInvalid, Phases
<1> DEFINE ks == Positions(t, S)
           new == {AckVia(t, k, "discard", task[t].batch[k].body, task[t].batch[k].msgId) : k \in ks}
           v == [task[t] EXCEPT !.phase = to, !.pc = IF ks = {} THEN "next" ELSE "discard"]
<1>2. task[t] \in Task /\ task \in [Tasks -> Task] /\ S \cap Requests = {} /\ S \subseteq Bodies
  BY ConstantsAssumption DEF ConstantsAssumption, TypeInv, TypeOK, Bodies
<1>3. task' = [task EXCEPT ![t] = v] /\ Keeps(v, task[t])
  BY <1>1, <1>2 DEF AckMessages, Keeps, Task
<1>4. ops' = ops \cup new /\ UNCHANGED msgCache
  BY <1>1 DEF AckMessages
<1>5. ks \subseteq 1..MaxBatch /\ ks \subseteq DOMAIN task[t].batch
      /\ \A k \in ks : task[t].batch[k] \in Message /\ task[t].batch[k].body \in S
  BY <1>2, PositionsType DEF Positions, TypeInv
<1>6. \A o \in new : \E k \in ks : /\ o.msgId = task[t].batch[k].msgId
                                   /\ o.body = task[t].batch[k].body /\ o.kind = "discard"
  BY DEF AckVia
<1>7. new \subseteq Op
  BY <1>2, <1>5 DEF AckVia, Op, Message
<1> HIDE DEF ks, new, v
<1>8. SendsDiscards
  <2>1. \A o \in new : o.kind = "discard" /\ o.body \notin Requests
    BY <1>2, <1>5, <1>6
  <2>2. QED BY <1>4, <1>7, <2>1 DEF SendsDiscards
<1>9. NoNewName
  <2>1. ASSUME NEW i \in MsgIds, NEW b,
               TaskNames(v, i, b) \/ CacheNames(i, b)' \/ OpNames(i, b)'
        PROVE  AgentNames(i, b)
    <3>1. CASE TaskNames(v, i, b)
      BY <1>3, <3>1, KeepsKnowledge DEF AgentNames
    <3>2. CASE CacheNames(i, b)'
      BY <1>4, <3>2 DEF CacheNames, AgentNames
    <3>3. CASE OpNames(i, b)'
      <4>1. PICK o \in ops' : o.msgId = i /\ o.body = b
        BY <3>3 DEF OpNames
      <4>2. CASE o \in ops
        BY <4>1, <4>2 DEF AgentNames, OpNames
      <4>3. CASE o \in new
        <5>1. TaskNames(task[t], i, b)
          BY <1>5, <1>6, <4>1, <4>3 DEF TaskNames
        <5>2. QED BY <5>1 DEF AgentNames
      <4>4. QED BY <1>4, <4>2, <4>3
    <3>4. QED BY <2>1, <3>1, <3>2, <3>3
  <2>2. QED BY <1>3, <2>1, LearnsNoName DEF TypeInv
<1>10. NothingTold
  <2>1. \A r, s : OpTold(r, s)' => OpTold(r, s)
    BY <1>4, <1>6 DEF OpTold, Broadcasts
  <2>2. \A r, s : TaskTold(v, r, s) \/ CacheTold(r, s)' \/ OpTold(r, s)' => Told(r, s)
    BY <1>3, <1>4, <2>1, KeepsKnowledge DEF Told, CacheTold
  <2>3. QED BY <1>3, <2>2, LearnsNoStatus DEF TypeInv
<1>11. QED BY <1>8, <1>9, <1>10 DEF Quiet

(* Messages already cached take their status from the cache (lines 104-113)*)
LEMMA CertificatesQuiet ==
  ASSUME TypeInv, NEW t \in Tasks, CertificatesReady(t)
  PROVE  Quiet
<1> DEFINE v == Classify(t)
           cached == Positions(t, DOMAIN msgCache)
<1>1. task[t] \in Task /\ task \in [Tasks -> Task]
  BY DEF TypeInv, TypeOK
<1>2. task' = [task EXCEPT ![t] = v] /\ UNCHANGED <<msgCache, ops>>
  BY DEF CertificatesReady
<1>3. v.batch = task[t].batch /\ v.todo = [k \in cached |-> CachedItem(task[t].batch[k])]
  BY <1>1 DEF Classify, Task
<1>4. \A k \in cached : k \in DOMAIN task[t].batch /\ task[t].batch[k].body \in DOMAIN msgCache
  BY DEF Positions
<1> HIDE DEF v, cached
<1>5. ASSUME NEW i, NEW b, TaskNames(v, i, b) PROVE TaskNames(task[t], i, b)
  <2>1. CASE \E k \in DOMAIN v.batch : v.batch[k].msgId = i /\ v.batch[k].body = b
    BY <1>3, <2>1 DEF TaskNames
  <2>2. CASE \E k \in DOMAIN v.todo : v.todo[k].msgId = i /\ v.todo[k].req = b
    <3>1. PICK k \in cached : CachedItem(task[t].batch[k]).msgId = i
                              /\ CachedItem(task[t].batch[k]).req = b
      BY <1>3, <2>2
    <3>2. k \in DOMAIN task[t].batch /\ task[t].batch[k].msgId = i /\ task[t].batch[k].body = b
      BY <1>4, <3>1 DEF CachedItem
    <3>3. QED BY <3>2 DEF TaskNames
  <2>3. QED BY <1>5, <2>1, <2>2 DEF TaskNames
<1>6. ASSUME NEW r, NEW s, TaskTold(v, r, s) PROVE CacheTold(r, s)
  BY <1>3, <1>4, <1>6 DEF TaskTold, CachedItem, CacheTold
<1>7. NoNewName
  <2>1. \A i \in MsgIds : \A b :
          TaskNames(v, i, b) \/ CacheNames(i, b)' \/ OpNames(i, b)' => AgentNames(i, b)
    BY <1>2, <1>5 DEF AgentNames, CacheNames, OpNames
  <2>2. QED BY <1>2, <2>1, LearnsNoName DEF TypeInv
<1>8. NothingTold
  <2>1. \A r, s : TaskTold(v, r, s) \/ CacheTold(r, s)' \/ OpTold(r, s)' => Told(r, s)
    BY <1>2, <1>6 DEF Told, CacheTold, OpTold
  <2>2. QED BY <1>2, <2>1, LearnsNoStatus DEF TypeInv
<1>9. QED BY <1>2, <1>7, <1>8 DEF Quiet

(* The steps of an activation that no peer takes part in.                  *)
LEMMA LocalQuiet ==
  ASSUME TypeInv, NEW t \in Tasks,
         \/ Internal(t) \/ CertificatesReady(t) \/ CertificatesFail(t)
         \/ PullMessagesStatus(t) \/ PullFails(t) \/ SignFails(t)
  PROVE  Quiet
<1>1. CASE \E k \in 1..MaxBatch : UpdateNew(t, k) \/ UpdateCached(t, k) \/ Added(t, k)
  BY <1>1, UpdateStatusQuiet
<1>2. CASE AckUnknown(t) \/ AckInvalid(t)
  BY <1>2, AckMessagesQuiet
<1>3. CASE CertificatesReady(t)
  BY <1>3, CertificatesQuiet
<1>4. CASE \/ EndOfItems(t) \/ Flushed(t) \/ Updated(t) \/ Throw(t) \/ MessagesToSign(t)
           \/ Discarded(t) \/ HandlerEnds(t) \/ CertificatesFail(t) \/ SignFails(t)
           \/ PullMessagesStatus(t) \/ PullFails(t)
  BY <1>4, PlainMoves DEF Quiet
<1>5. QED BY <1>1, <1>2, <1>3, <1>4 DEF Internal

(* Requests in flight settle: what a broadcast stores was known (line 252).*)
LEMMA SettleQuiet ==
  ASSUME TypeInv, NEW o \in ops, Settle(o)
  PROVE  NoNewName /\ NothingTold /\ ops' = ops \ {o}
<1>1. CASE OpFails(o)
  <2> DEFINE u == o.task
             v == [task[u] EXCEPT !.rejected = @ \/ task[u].pc # "free"]
  <2>1. u \in Tasks
    BY DEF TypeInv, TypeOK, Op
  <2>2. task[u] \in Task /\ task \in [Tasks -> Task]
    BY <2>1 DEF TypeInv, TypeOK
  <2>3. task' = [task EXCEPT ![u] = v]
    BY <1>1, <2>2 DEF OpFails
  <2>4. Keeps(v, task[u])
    BY <2>2 DEF Keeps, Task
  <2> HIDE DEF v, u
  <2>5. QED BY <1>1, <2>1, <2>3, <2>4, MovesQuietly DEF OpFails, TypeInv
<1>2. CASE BroadcastDone(o) \/ AckDone(o) \/ DiscardSettled(o)
  <2>1. UNCHANGED task /\ ops' = ops \ {o}
    BY <1>2 DEF BroadcastDone, AckDone, DiscardSettled
  <2>2. msgCache \in [DOMAIN msgCache -> Entry]
    BY PartialMember DEF TypeInv, TypeOK
  <2>3. \A r \in DOMAIN msgCache' : /\ r \in DOMAIN msgCache
                                    /\ msgCache'[r].msgId = msgCache[r].msgId
                                    /\ \/ msgCache'[r].status = msgCache[r].status
                                       \/ /\ o.kind = "broadcast" /\ r = o.body
                                          /\ msgCache'[r].status = o.status
    <3>1. CASE BroadcastDone(o)
      BY <2>2, <3>1 DEF BroadcastDone, IsCached, Entry
    <3>2. CASE AckDone(o)
      BY <3>2 DEF AckDone, DeleteMessageFromCache, Restrict
    <3>3. CASE DiscardSettled(o)
      BY <3>3 DEF DiscardSettled
    <3>4. QED BY <1>2, <3>1, <3>2, <3>3
  <2>4. NoNewName
    <3> SUFFICES ASSUME NEW i \in MsgIds, NEW b, AgentNames(i, b)' PROVE AgentNames(i, b)
      BY DEF NoNewName
    <3>1. CacheNames(i, b)' => CacheNames(i, b)
      BY <2>3 DEF CacheNames
    <3>2. OpNames(i, b)' => OpNames(i, b)
      BY <2>1 DEF OpNames
    <3>3. QED BY <2>1, <3>1, <3>2 DEF AgentNames, TaskNames
  <2>5. NothingTold
    <3> SUFFICES ASSUME NEW r, NEW s, Told(r, s)' PROVE Told(r, s)
      BY DEF NothingTold
    <3>1. CacheTold(r, s)' => CacheTold(r, s) \/ OpTold(r, s)
      BY <2>3 DEF CacheTold, OpTold, Broadcasts
    <3>2. OpTold(r, s)' => OpTold(r, s)
      BY <2>1 DEF OpTold, Broadcasts
    <3>3. QED BY <2>1, <3>1, <3>2 DEF Told, TaskTold
  <2>6. QED BY <2>1, <2>4, <2>5
<1>3. QED BY <1>1, <1>2 DEF Settle

-----------------------------------------------------------------------------
(* The inductive invariant.  A msgId stands for one body, whoever knows    *)
(* it; a final status that the agent knows is the customer's decision; an  *)
(* ack in flight follows an attempt to answer; and so does every release.  *)

Kinds == \A o \in ops : o.kind = "discard" <=> o.body \notin Requests
Names(id, b) == AgentNames(id, b) \/ \E m \in unacked : m.msgId = id /\ m.body = b
OneBody == \A id \in MsgIds : \A b, c : Names(id, b) /\ Names(id, c) => b = c
TellTruth ==
  \A r \in Requests : \A s :
    Told(r, s) => s = "PENDING_SIGN" \/ (s \in FinalStatuses /\ s = custStatus[r])
AcksFollow == \A o \in ops : o.kind = "ack" => o.body \in Attempted
FailedDecided == \A r \in failed : custStatus[r] \in FinalStatuses
ReleasedAttempted == \A r \in Requests : InMag(r) \/ r \in Attempted

DTypeInv == TypeInv /\ DTypeOK /\ Kinds
DInv ==
  /\ DTypeInv /\ OneBody /\ TellTruth /\ AcksFollow
  /\ FailedDecided /\ AnswersAgree /\ ReleasedAttempted

(* A broadcast in flight carries the customer's decision of a request.     *)
LEMMA BroadcastTrue ==
  ASSUME DTypeInv, TellTruth, NEW o \in Broadcasts(ops)
  PROVE  o.body \in Requests /\ o.status \in FinalStatuses /\ o.status = custStatus[o.body]
<1>1. o \in ops /\ o.kind = "broadcast"
  BY DEF Broadcasts
<1>2. o.body \in Requests /\ o.status \in FinalStatuses
  BY <1>1 DEF DTypeInv, Kinds, TypeInv, Sent
<1>3. Told(o.body, o.status)
  BY DEF Told, OpTold
<1>4. o.status # "PENDING_SIGN"
  BY <1>2 DEF FinalStatuses
<1>5. QED BY <1>2, <1>3, <1>4 DEF TellTruth

(* What an answer has been attempted for is decided.                       *)
LEMMA AttemptedDecided == DInv => \A r \in Attempted : custStatus[r] \in FinalStatuses
<1> SUFFICES ASSUME DInv, NEW r \in Attempted PROVE custStatus[r] \in FinalStatuses
  OBVIOUS
<1>1. CASE Answered(r)
  BY <1>1 DEF Answered, DInv, DTypeInv, DTypeOK, AnswersAgree
<1>2. CASE r \in failed
  BY <1>2 DEF DInv, FailedDecided
<1>3. CASE \E o \in Broadcasts(ops) : o.body = r
  BY <1>3, BroadcastTrue DEF DInv
<1>4. QED BY <1>1, <1>2, <1>3 DEF Attempted

(* A decision is never taken back.                                         *)
DecisionsKept ==
  \A r \in Requests : custStatus[r] \in FinalStatuses => custStatus'[r] = custStatus[r]

LEMMA NamesKept ==
  ASSUME OneBody, NoNewName, unacked' \subseteq unacked
  PROVE  OneBody'
<1>1. ASSUME NEW id \in MsgIds, NEW b, Names(id, b)' PROVE Names(id, b)
  BY <1>1 DEF Names, NoNewName
<1>2. SUFFICES ASSUME NEW id \in MsgIds, NEW b, NEW c, Names(id, b)', Names(id, c)' PROVE b = c
  BY DEF OneBody
<1>3. Names(id, b) /\ Names(id, c)
  BY <1>1, <1>2
<1>4. QED BY <1>3 DEF OneBody

LEMMA TruthKept ==
  ASSUME TellTruth, NothingTold, DecisionsKept
  PROVE  TellTruth'
<1>1. SUFFICES ASSUME NEW r \in Requests, NEW s, Told(r, s)'
               PROVE  s = "PENDING_SIGN" \/ (s \in FinalStatuses /\ s = custStatus'[r])
  BY DEF TellTruth
<1>2. Told(r, s)
  BY <1>1 DEF NothingTold
<1>3. QED BY <1>2 DEF TellTruth, DecisionsKept

(* What every step does with the invariant's other parts: no attempt is    *)
(* forgotten, no decision taken back, and what is new in flight, failed,   *)
(* answered or released has been attempted.                                *)
Advances ==
  /\ DecisionsKept
  /\ Attempted \subseteq Attempted'
  /\ \A o \in ops' : o.kind = "ack" => o \in ops \/ o.body \in Attempted'
  /\ failed' \subseteq failed \cup Attempted
  /\ \A a \in answered' : \/ a \in answered
                          \/ \E o \in Broadcasts(ops) : a = [req |-> o.body, status |-> o.status]
  /\ \A r \in Requests : InMag(r) => InMag(r)' \/ r \in Attempted

LEMMA InvKept ==
  ASSUME DInv, DTypeInv', OneBody', TellTruth', Advances
  PROVE  DInv'
<1>1. AcksFollow'
  BY DEF DInv, AcksFollow, Advances
<1>2. FailedDecided'
  <2> SUFFICES ASSUME NEW r \in failed' PROVE custStatus'[r] \in FinalStatuses
    BY DEF FailedDecided
  <2>1. custStatus[r] \in FinalStatuses
    BY AttemptedDecided DEF Advances, DInv, FailedDecided
  <2>2. r \in Requests
    BY DEF DTypeInv, DTypeOK
  <2>3. QED BY <2>1, <2>2 DEF Advances, DecisionsKept
<1>3. AnswersAgree'
  <2> SUFFICES ASSUME NEW a \in answered' PROVE a.status = custStatus'[a.req]
    BY DEF AnswersAgree
  <2>1. a.req \in Requests /\ a.status \in FinalStatuses
    BY DEF DTypeInv, DTypeOK
  <2>2. CASE a \in answered
    <3>1. a.status = custStatus[a.req]
      BY <2>2 DEF DInv, AnswersAgree
    <3>2. QED BY <2>1, <3>1 DEF Advances, DecisionsKept
  <2>3. ASSUME NEW o \in Broadcasts(ops), a = [req |-> o.body, status |-> o.status]
        PROVE  a.status = custStatus'[a.req]
    <3>1. a.status = custStatus[a.req]
      BY <2>3, BroadcastTrue DEF DInv
    <3>2. QED BY <2>1, <3>1 DEF Advances, DecisionsKept
  <2>4. QED BY <2>2, <2>3 DEF Advances
<1>4. ReleasedAttempted'
  <2> SUFFICES ASSUME NEW r \in Requests PROVE InMag(r)' \/ r \in Attempted'
    BY DEF ReleasedAttempted
  <2>1. InMag(r) \/ r \in Attempted
    BY DEF DInv, ReleasedAttempted
  <2>2. QED BY <2>1 DEF Advances
<1>5. QED BY <1>1, <1>2, <1>3, <1>4 DEF DInv

-----------------------------------------------------------------------------
(* Steps of MAG and of the connection: they redeliver what is not acked.   *)
MagMoves ==
  \/ \E m \in unacked : Redeliver(m)
  \/ \E i \in Prefixes : SessionLost(i)
  \/ Connect \/ SessionBreaks
  \/ UNCHANGED dvars

LEMMA MagMovesOnly ==
  ASSUME DInv, MagMoves
  PROVE  /\ [Next]_vars /\ UNCHANGED <<msgCache, task, ops, custStatus, answered, failed>>
         /\ unacked' \subseteq unacked /\ queued' \subseteq Bodies
         /\ instance' \in Prefixes /\ halfOpen' \in BOOLEAN /\ faults' \in 0..MaxFaults
         /\ \A b : InMag(b)' <=> InMag(b)
<1>0. /\ queued \subseteq Bodies /\ unacked \subseteq Message /\ instance \in Prefixes
      /\ halfOpen \in BOOLEAN /\ faults \in 0..MaxFaults /\ MaxFaults \in Nat
  BY DeliveryAssumption DEF DInv, DTypeInv, DTypeOK, DeliveryAssumption
<1>1. \A m \in unacked : m.body \in Bodies
  BY <1>0 DEF Message
<1>2. ASSUME NEW m \in unacked, Redeliver(m)
      PROVE  /\ [Next]_vars /\ UNCHANGED <<msgCache, task, ops, custStatus, answered, failed>>
             /\ unacked' \subseteq unacked /\ queued' \subseteq Bodies
             /\ instance' \in Prefixes /\ halfOpen' \in BOOLEAN /\ faults' \in 0..MaxFaults
             /\ \A b : InMag(b)' <=> InMag(b)
  <2>1. UNCHANGED <<vars, instance, halfOpen, answered, failed, custStatus, faults>>
        /\ unacked' = unacked \ {m} /\ queued' = queued \cup {m.body}
    BY <1>2 DEF Redeliver, responses
  <2>2. \A b : InMag(b)' <=> InMag(b)
    BY <2>1 DEF InMag
  <2>3. QED BY <1>0, <1>1, <2>1, <2>2 DEF vars
<1>3. ASSUME NEW i \in Prefixes, SessionLost(i)
      PROVE  /\ [Next]_vars /\ UNCHANGED <<msgCache, task, ops, custStatus, answered, failed>>
             /\ unacked' \subseteq unacked /\ queued' \subseteq Bodies
             /\ instance' \in Prefixes /\ halfOpen' \in BOOLEAN /\ faults' \in 0..MaxFaults
             /\ \A b : InMag(b)' <=> InMag(b)
  <2>1. /\ UNCHANGED <<answered, failed, custStatus>> /\ unacked' = {}
        /\ queued' = queued \cup {m.body : m \in unacked} /\ instance' = i
        /\ faults' = faults + 1 /\ faults < MaxFaults /\ halfOpen' = FALSE
    BY <1>3 DEF SessionLost, RequeueAll, responses
  <2>2. ConnectionChanges \/ UNCHANGED vars
    BY <1>3 DEF SessionLost
  <2>3. [Next]_vars /\ UNCHANGED <<msgCache, task, ops>>
    BY <2>2 DEF Next, ConnectionChanges, vars
  <2>4. \A b : InMag(b)' <=> InMag(b)
    BY <2>1 DEF InMag
  <2>5. faults' \in 0..MaxFaults
    BY <1>0, <2>1
  <2>6. QED BY <1>0, <1>1, <2>1, <2>3, <2>4, <2>5
<1>4. CASE Connect \/ SessionBreaks \/ UNCHANGED dvars
  <2>1. ConnectionChanges \/ UNCHANGED vars
    BY <1>4 DEF Connect, SessionBreaks, dvars
  <2>2. UNCHANGED <<queued, unacked, instance, answered, failed, custStatus, faults>>
        /\ halfOpen' \in BOOLEAN
    BY <1>0, <1>4 DEF Connect, SessionBreaks, dvars, magVars, responses
  <2>3. [Next]_vars /\ UNCHANGED <<msgCache, task, ops>>
    BY <2>1 DEF Next, ConnectionChanges, vars
  <2>4. QED BY <1>0, <2>2, <2>3 DEF InMag
<1>5. QED BY <1>2, <1>3, <1>4 DEF MagMoves

LEMMA SameAgent ==
  ASSUME UNCHANGED <<msgCache, task, ops>>
  PROVE  NoNewName /\ NothingTold
<1>1. \A i, b : AgentNames(i, b)' <=> AgentNames(i, b)
  BY DEF AgentNames, CacheNames, OpNames, TaskNames
<1>2. \A r, s : Told(r, s)' <=> Told(r, s)
  BY DEF Told, CacheTold, OpTold, TaskTold, Broadcasts
<1>3. QED BY <1>1, <1>2 DEF NoNewName, NothingTold

LEMMA MagStep ==
  ASSUME DInv, MagMoves
  PROVE  DInv'
<1>1. /\ [Next]_vars /\ UNCHANGED <<msgCache, task, ops, custStatus, answered, failed>>
      /\ unacked' \subseteq unacked /\ queued' \subseteq Bodies
      /\ instance' \in Prefixes /\ halfOpen' \in BOOLEAN /\ faults' \in 0..MaxFaults
      /\ \A b : InMag(b)' <=> InMag(b)
  BY MagMovesOnly
<1>2. TypeInv'
  BY <1>1, TypeStep DEF DInv, DTypeInv
<1>3. DTypeInv'
  BY <1>1, <1>2 DEF DInv, DTypeInv, DTypeOK, Kinds, TypeInv
<1>4. OneBody'
  BY <1>1, SameAgent, NamesKept DEF DInv
<1>5. TellTruth'
  BY <1>1, SameAgent, TruthKept DEF DInv, DecisionsKept
<1>6. Advances
  BY <1>1 DEF Advances, DecisionsKept, Attempted, Answered, Broadcasts
<1>7. QED BY <1>3, <1>4, <1>5, <1>6, InvKept

(* A delivery brings one new msgId for each of its messages, which nobody  *)
(* knew.                                                                   *)
LEMMA DeliverStep ==
  ASSUME DInv, NEW t \in Tasks, NEW batch \in Batches(Message), Deliver(t, batch)
  PROVE  /\ DInv' /\ UNCHANGED <<ops, custStatus, answered, failed>>
         /\ \A b : InMag(b)' <=> InMag(b)
<1> DEFINE v == [Idle EXCEPT !.pc = "certs", !.batch = batch]
<1>0. TypeOK /\ task \in [Tasks -> Task]
  BY DEF DInv, DTypeInv, TypeInv, TypeOK
<1>1. ReceiveMessages(t, batch) /\ UNCHANGED <<instance, halfOpen, answered, failed, custStatus, faults>>
      /\ queued' = queued \ {batch[k].body : k \in DOMAIN batch}
      /\ unacked' = unacked \cup {batch[k] : k \in DOMAIN batch}
  BY DEF Deliver, responses
<1>2. /\ \A k \in DOMAIN batch : batch[k].body \in queued /\ ~InUse(batch[k].msgId)
      /\ \A j, k \in DOMAIN batch : j # k => batch[j].msgId # batch[k].msgId
  BY DEF Deliver
<1>3. task' = [task EXCEPT ![t] = v] /\ UNCHANGED <<msgCache, ops>>
  BY <1>1 DEF ReceiveMessages
<1>4. v.batch = batch /\ v.todo = Empty /\ DOMAIN Empty = {}
  BY DEF Idle, Empty
<1> HIDE DEF v
<1>5. \A k \in DOMAIN batch : batch[k] \in Message
  BY BatchMember
<1>6. TypeInv'
  <2>1. Next
    BY <1>1 DEF Next
  <2>2. QED BY <2>1, TypeStep DEF DInv, DTypeInv
<1>7. \A b : InMag(b)' <=> InMag(b)
  BY <1>1, <1>2 DEF InMag
<1>8. DTypeInv'
  BY <1>1, <1>3, <1>5, <1>6 DEF DInv, DTypeInv, DTypeOK, Kinds, TypeInv
<1>9. ASSUME NEW id, NEW b, Names(id, b)'
      PROVE  Names(id, b) \/ \E k \in DOMAIN batch : batch[k].msgId = id /\ batch[k].body = b
  <2>1. \A u \in Tasks : task'[u] = IF u = t THEN v ELSE task[u]
    BY <1>0, <1>3
  <2>2. ASSUME NEW u \in Tasks, TaskNames(task'[u], id, b)
        PROVE  AgentNames(id, b) \/ \E k \in DOMAIN batch : batch[k].msgId = id /\ batch[k].body = b
    <3>1. CASE u = t
      BY <1>4, <2>1, <2>2, <3>1 DEF TaskNames
    <3>2. CASE u # t
      BY <2>1, <2>2, <3>2 DEF AgentNames
    <3>3. QED BY <3>1, <3>2
  <2>3. CacheNames(id, b)' \/ OpNames(id, b)' => AgentNames(id, b)
    BY <1>3 DEF CacheNames, OpNames, AgentNames
  <2>4. \A m \in unacked' : m \in unacked \/ \E k \in DOMAIN batch : m = batch[k]
    BY <1>1
  <2>5. AgentNames(id, b)' => AgentNames(id, b) \/ \E k \in DOMAIN batch : batch[k].msgId = id /\ batch[k].body = b
    BY <2>2, <2>3 DEF AgentNames, TaskNames
  <2>6. QED BY <1>9, <2>4, <2>5 DEF Names
<1>10. \A id, b : Names(id, b) => InUse(id)
  BY DEF Names, AgentNames, CacheNames, OpNames, TaskNames, InUse
<1>11. OneBody'
  <2> SUFFICES ASSUME NEW id \in MsgIds, NEW b, NEW c, Names(id, b)', Names(id, c)' PROVE b = c
    BY DEF OneBody
  <2>1. CASE Names(id, b) /\ Names(id, c)
    BY <2>1 DEF DInv, OneBody
  <2>2. CASE ~(Names(id, b) /\ Names(id, c))
    <3>1. PICK k \in DOMAIN batch : batch[k].msgId = id
      BY <1>9, <2>2
    <3>2. ~Names(id, b) /\ ~Names(id, c)
      BY <1>2, <1>10, <3>1
    <3>3. PICK j \in DOMAIN batch : batch[j].msgId = id /\ batch[j].body = b
      BY <1>9, <3>2
    <3>4. PICK l \in DOMAIN batch : batch[l].msgId = id /\ batch[l].body = c
      BY <1>9, <3>2
    <3>5. j = l
      BY <1>2, <3>3, <3>4
    <3>6. QED BY <3>3, <3>4, <3>5
  <2>3. QED BY <2>1, <2>2
<1>12. NothingTold
  <2>1. \A r, s : ~TaskTold(v, r, s)
    BY <1>4 DEF TaskTold
  <2>2. \A r, s : TaskTold(v, r, s) \/ CacheTold(r, s)' \/ OpTold(r, s)' => Told(r, s)
    BY <1>3, <2>1 DEF CacheTold, OpTold, Broadcasts, Told
  <2>3. QED BY <1>0, <1>3, <2>2, LearnsNoStatus
<1>13. TellTruth'
  BY <1>1, <1>12, TruthKept DEF DInv, DecisionsKept
<1>14. Advances
  BY <1>1, <1>3, <1>7 DEF Advances, DecisionsKept, Attempted, Answered, Broadcasts
<1>15. QED BY <1>1, <1>3, <1>7, <1>8, <1>11, <1>13, <1>14, InvKept

-----------------------------------------------------------------------------
(* Answers of the customer's server.                                       *)

(* A report is matched with a message of its own request (line 146).       *)
LEMMA FirstOfMatches ==
  ASSUME TypeInv, NEW t \in Tasks, NEW r,
         \E j \in task[t].toHandle : task[t].batch[j].body = r
  PROVE  FirstOf(t, r) \in DOMAIN task[t].batch /\ task[t].batch[FirstOf(t, r)].body = r
<1> DEFINE P == {j \in task[t].toHandle : task[t].batch[j].body = r}
<1>0. task[t] \in Task
  BY DEF TypeInv, TypeOK
<1>1. P \in SUBSET Nat /\ P # {}
  BY <1>0 DEF Task
<1>2. PICK k \in P : \A j \in P : k <= j
  <2> HIDE DEF P
  <2>1. QED BY <1>1, FirstPosition
<1>3. FirstOf(t, r) \in task[t].toHandle /\ task[t].batch[FirstOf(t, r)].body = r
  BY <1>2 DEF FirstOf
<1>4. QED BY <1>3 DEF TypeInv, Held

Truth(r, s) == s = "PENDING_SIGN" \/ (s \in FinalStatuses /\ s = custStatus'[r])

LEMMA TruthLearned ==
  ASSUME TypeOK, TellTruth, DecisionsKept, UNCHANGED <<msgCache, ops>>,
         NEW t \in Tasks, NEW v, task' = [task EXCEPT ![t] = v],
         \A r \in Requests : \A s : TaskTold(v, r, s) => Truth(r, s)
  PROVE  TellTruth'
<1>1. \A u \in Tasks : task'[u] = IF u = t THEN v ELSE task[u]
  BY DEF TypeOK
<1>2. SUFFICES ASSUME NEW r \in Requests, NEW s, Told(r, s)' PROVE Truth(r, s)
  BY DEF TellTruth, Truth
<1>3. Told(r, s) => Truth(r, s)
  BY DEF TellTruth, DecisionsKept, Truth
<1>4. ASSUME NEW u \in Tasks, TaskTold(task'[u], r, s) PROVE Truth(r, s)
  <2>1. CASE u = t
    BY <1>1, <1>4, <2>1
  <2>2. CASE u # t
    BY <1>1, <1>3, <1>4, <2>2 DEF Told
  <2>3. QED BY <2>1, <2>2
<1>5. CacheTold(r, s)' \/ OpTold(r, s)' => Told(r, s)
  BY DEF CacheTold, OpTold, Broadcasts, Told
<1>6. QED BY <1>2, <1>3, <1>4, <1>5 DEF Told, TaskTold

(* The customer's server answers messagesToSign or messagesStatus: what it *)
(* reports is pending or decided.                                          *)
LEMMA AnswerStep ==
  ASSUME DInv, NEW t \in Tasks, NEW resp \in Batches(Report),
         CustomerReplies(t, resp) \/ PollReplies(t, resp)
  PROVE  /\ DInv' /\ UNCHANGED <<ops, answered, failed>>
         /\ \A b : InMag(b)' <=> InMag(b)
         /\ DecisionsKept /\ custStatus' \in [Requests -> Statuses \cup {"none"}]
<1> DEFINE items == IF SignResponse(t, resp) THEN SignedItems(t, resp) ELSE PulledItems(t, resp)
           v == [task[t] EXCEPT !.pc = "loop", !.todo = items]
<1>0. /\ TypeOK /\ TypeInv /\ task \in [Tasks -> Task] /\ task[t] \in Task
      /\ custStatus \in [Requests -> Statuses \cup {"none"}]
      /\ NoMsgId \notin MsgIds
  BY ConstantsAssumption DEF ConstantsAssumption, DInv, DTypeInv, DTypeOK, TypeInv, TypeOK
<1>1. SignResponse(t, resp) \/ PullResponse(t, resp)
  BY DEF CustomerReplies, PollReplies
<1>2. task' = [task EXCEPT ![t] = v] /\ UNCHANGED <<msgCache, ops>>
  BY <1>0, <1>1 DEF SignResponse, PullResponse
<1>3. v.batch = task[t].batch /\ v.todo = items
  BY <1>0 DEF Task
<1>4. UNCHANGED <<queued, unacked, instance, halfOpen, answered, failed, faults>>
  BY DEF CustomerReplies, PollReplies, magVars, responses
<1>5. /\ custStatus' \in [Requests -> Statuses \cup {"none"}]
      /\ DecisionsKept
      /\ \A k \in DOMAIN resp : resp[k].status \in {"PENDING_SIGN", custStatus'[resp[k].req]}
  <2>1. CASE CustomerReplies(t, resp)
    <3>1. /\ Registered(Asked(t), custStatus') /\ Reports(resp, Asked(t), custStatus')
      BY <2>1 DEF CustomerReplies
    <3>2. DecisionsKept
      BY <3>1 DEF Registered, DecisionsKept, FinalStatuses
    <3>3. QED BY <3>1, <3>2 DEF Registered, Reports
  <2>2. CASE PollReplies(t, resp)
    BY <1>0, <2>2 DEF PollReplies, Reports, DecisionsKept
  <2>3. QED BY <2>1, <2>2
<1>6. TypeInv'
  <2>1. Next
    BY <1>1 DEF Next, Answer
  <2>2. QED BY <1>0, <2>1, TypeStep
<1>7. \A k \in DOMAIN resp : resp[k].req \in Requests /\ resp[k].status \in Statuses
  <2>1. resp \in [DOMAIN resp -> Report]
    BY BatchMember
  <2>2. QED BY <2>1 DEF Report
<1>8. ASSUME NEW k \in DOMAIN items
      PROVE  /\ k \in DOMAIN resp /\ items[k].req = resp[k].req /\ items[k].status = resp[k].status
             /\ \/ items[k].msgId = NoMsgId
                \/ \E j \in DOMAIN task[t].batch : /\ items[k].msgId = task[t].batch[j].msgId
                                                   /\ items[k].req = task[t].batch[j].body
  <2>1. CASE SignResponse(t, resp)
    <3>1. /\ k \in DOMAIN resp /\ \E j \in task[t].toHandle : task[t].batch[j].body = resp[k].req
          /\ items[k] = [msgId |-> task[t].batch[FirstOf(t, resp[k].req)].msgId,
                         req |-> resp[k].req, status |-> resp[k].status]
      BY <1>8, <2>1 DEF SignedItems
    <3>2. FirstOf(t, resp[k].req) \in DOMAIN task[t].batch
          /\ task[t].batch[FirstOf(t, resp[k].req)].body = resp[k].req
      BY <1>0, <3>1, FirstOfMatches
    <3> HIDE DEF items
    <3>3. QED BY <3>1, <3>2
  <2>2. CASE ~SignResponse(t, resp)
    <3>1. k \in DOMAIN resp
          /\ items[k] = [msgId |-> NoMsgId, req |-> resp[k].req, status |-> resp[k].status]
      BY <1>8, <2>2 DEF PulledItems
    <3> HIDE DEF items
    <3>2. QED BY <3>1
  <2>3. QED BY <2>1, <2>2
<1> HIDE DEF items, v
<1>9. NoNewName
  <2>1. ASSUME NEW id \in MsgIds, NEW b, TaskNames(v, id, b) PROVE TaskNames(task[t], id, b)
    <3>1. CASE \E k \in DOMAIN v.batch : v.batch[k].msgId = id /\ v.batch[k].body = b
      BY <1>3, <3>1 DEF TaskNames
    <3>2. CASE \E k \in DOMAIN v.todo : v.todo[k].msgId = id /\ v.todo[k].req = b
      <4>1. PICK k \in DOMAIN items : items[k].msgId = id /\ items[k].req = b
        BY <1>3, <3>2
      <4>2. PICK j \in DOMAIN task[t].batch : id = task[t].batch[j].msgId /\ b = task[t].batch[j].body
        BY <1>0, <1>8, <4>1
      <4>3. QED BY <4>2 DEF TaskNames
    <3>3. QED BY <2>1, <3>1, <3>2 DEF TaskNames
  <2>2. \A id \in MsgIds : \A b :
          TaskNames(v, id, b) \/ CacheNames(id, b)' \/ OpNames(id, b)' => AgentNames(id, b)
    BY <1>2, <2>1 DEF AgentNames, CacheNames, OpNames
  <2>3. QED BY <1>0, <1>2, <2>2, LearnsNoName
<1>10. OneBody'
  BY <1>4, <1>9, NamesKept DEF DInv
<1>11. TellTruth'
  <2>1. ASSUME NEW r \in Requests, NEW s, TaskTold(v, r, s) PROVE Truth(r, s)
    <3>1. PICK k \in DOMAIN items : items[k].req = r /\ items[k].status = s
      BY <1>3, <2>1 DEF TaskTold
    <3>2. k \in DOMAIN resp /\ resp[k].req = r /\ resp[k].status = s
      BY <1>8, <3>1
    <3>3. s \in Statuses /\ s \in {"PENDING_SIGN", custStatus'[r]}
      BY <1>5, <1>7, <3>2
    <3>4. QED BY <3>3 DEF Truth, Statuses, FinalStatuses
  <2>2. QED BY <1>0, <1>2, <1>5, <2>1, TruthLearned DEF DInv
<1>12. \A b : InMag(b)' <=> InMag(b)
  BY <1>4 DEF InMag
<1>13. DTypeInv'
  BY <1>2, <1>4, <1>5, <1>6 DEF DInv, DTypeInv, DTypeOK, Kinds, TypeInv
<1>14. Advances
  BY <1>2, <1>4, <1>5, <1>12 DEF Advances, Attempted, Answered, Broadcasts
<1>15. QED BY <1>2, <1>4, <1>5, <1>10, <1>11, <1>12, <1>13, <1>14, InvKept

(* The customer's server learns of requests or decides one.                *)
LEMMA CustomerStep ==
  ASSUME DInv, (\E t \in Tasks : CustomerFails(t)) \/ (\E r \in Requests : CustomerDecides(r))
  PROVE  /\ DInv' /\ UNCHANGED <<ops, answered, failed>>
         /\ \A b : InMag(b)' <=> InMag(b)
         /\ DecisionsKept /\ custStatus' \in [Requests -> Statuses \cup {"none"}]
<1>0. TypeInv /\ custStatus \in [Requests -> Statuses \cup {"none"}]
  BY DEF DInv, DTypeInv, DTypeOK
<1>1. UNCHANGED <<queued, unacked, instance, halfOpen, answered, failed, faults>>
  BY DEF CustomerFails, CustomerDecides, magVars, responses
<1>2. custStatus' \in [Requests -> Statuses \cup {"none"}] /\ DecisionsKept
  <2>1. ASSUME NEW t \in Tasks, CustomerFails(t)
        PROVE  custStatus' \in [Requests -> Statuses \cup {"none"}] /\ DecisionsKept
    <3>1. PICK S : custStatus' = [r \in Requests |->
                     IF r \in S /\ custStatus[r] = "none" THEN "PENDING_SIGN" ELSE custStatus[r]]
      BY <2>1 DEF CustomerFails
    <3>2. QED BY <1>0, <3>1 DEF DecisionsKept, Statuses, FinalStatuses
  <2>2. ASSUME NEW r \in Requests, CustomerDecides(r)
        PROVE  custStatus' \in [Requests -> Statuses \cup {"none"}] /\ DecisionsKept
    <3>1. PICK s \in FinalStatuses : custStatus' = [custStatus EXCEPT ![r] = s]
      BY <2>2 DEF CustomerDecides
    <3>2. custStatus[r] = "PENDING_SIGN"
      BY <2>2 DEF CustomerDecides
    <3>3. QED BY <1>0, <3>1, <3>2 DEF DecisionsKept, Statuses, FinalStatuses
  <2>3. QED BY <2>1, <2>2
<1>3. [Next]_vars /\ NoNewName /\ NothingTold /\ ops' = ops
  <2>1. ASSUME NEW t \in Tasks, SignFails(t)
        PROVE  [Next]_vars /\ NoNewName /\ NothingTold /\ ops' = ops
    BY <1>0, <2>1, PlainMoves DEF Next, Answer
  <2>2. CASE UNCHANGED vars
    BY <2>2, SameAgent DEF vars
  <2>3. QED BY <2>1, <2>2 DEF CustomerFails, CustomerDecides
<1>4. TypeInv'
  BY <1>0, <1>3, TypeStep
<1>5. OneBody'
  BY <1>1, <1>3, NamesKept DEF DInv
<1>6. TellTruth'
  BY <1>2, <1>3, TruthKept DEF DInv
<1>7. \A b : InMag(b)' <=> InMag(b)
  BY <1>1 DEF InMag
<1>8. DTypeInv'
  BY <1>1, <1>2, <1>3, <1>4 DEF DInv, DTypeInv, DTypeOK, Kinds, TypeInv
<1>9. Advances
  BY <1>1, <1>2, <1>3, <1>7 DEF Advances, Attempted, Answered, Broadcasts
<1>10. QED BY <1>1, <1>2, <1>3, <1>5, <1>6, <1>7, <1>8, <1>9, InvKept

-----------------------------------------------------------------------------
(* Steps of the agent alone: an answer is attempted only for a request     *)
(* whose final status the agent has learnt, hence a decided one.           *)
LEMMA LocalStep ==
  ASSUME DInv, NEW t \in Tasks, Local(t)
  PROVE  /\ DInv' /\ UNCHANGED <<custStatus, answered>>
         /\ \A b : InMag(b)' <=> InMag(b)
         /\ \/ Attempted' = Attempted
            \/ \E r \in Requests : /\ custStatus[r] \in FinalStatuses
                                   /\ Attempted' = Attempted \cup {r}
<1>0. TypeInv /\ UNCHANGED <<queued, unacked, instance, halfOpen, answered, failed, custStatus, faults>>
  BY DEF DInv, DTypeInv, Local, magVars, responses
<1>1. Quiet /\ [Next]_vars
  BY <1>0, LocalQuiet DEF Local, Next, Answer
<1>2. TypeInv'
  BY <1>0, <1>1, TypeStep
<1>3. \A b : InMag(b)' <=> InMag(b)
  BY <1>0 DEF InMag
<1>4. /\ \A o \in ops' : o \in ops \/ (o.kind = "discard" <=> o.body \notin Requests)
      /\ \A o \in ops' : o.kind = "ack" => o \in ops \/ o.body \in Attempted'
      /\ ops \subseteq ops'
      /\ \/ Attempted' = Attempted
         \/ \E r \in Requests : /\ custStatus[r] \in FinalStatuses
                                /\ Attempted' = Attempted \cup {r}
  <2>1. CASE ops' = ops
    BY <1>0, <2>1 DEF Attempted, Answered, Broadcasts
  <2>2. CASE SendsDiscards
    <3>1. PICK S : ops' = ops \cup S /\ \A o \in S : o.kind = "discard" /\ o.body \notin Requests
      BY <2>2 DEF SendsDiscards
    <3>2. Broadcasts(ops)' = Broadcasts(ops)
      BY <3>1 DEF Broadcasts
    <3>3. Attempted' = Attempted
      BY <1>0, <3>2 DEF Attempted, Answered
    <3>4. QED BY <3>1, <3>3
  <2>3. CASE SendsAnswer
    <3>1. PICK r \in Requests, s \in FinalStatuses, S \in SUBSET Op :
            /\ ops' = ops \cup S /\ Told(r, s)
            /\ \A o \in S : o.body = r /\ (o.kind = "ack" \/ (o.kind = "broadcast" /\ o.status = s))
            /\ \E o \in S : o.kind = "broadcast"
      BY <2>3 DEF SendsAnswer
    <3>2. custStatus[r] \in FinalStatuses
      BY <3>1 DEF DInv, TellTruth, FinalStatuses
    <3>3. \A q : (\E o \in Broadcasts(ops)' : o.body = q)
                 <=> (\E o \in Broadcasts(ops) : o.body = q) \/ q = r
      BY <3>1 DEF Broadcasts
    <3>4. Attempted' = Attempted \cup {r}
      BY <1>0, <3>3 DEF Attempted, Answered
    <3>5. QED BY <3>1, <3>2, <3>4
  <2>4. QED BY <1>1, <2>1, <2>2, <2>3 DEF Quiet
<1>5. DTypeInv'
  <2>1. Kinds'
    BY <1>4 DEF DInv, DTypeInv, Kinds
  <2>2. QED BY <1>0, <1>2, <2>1 DEF DInv, DTypeInv, DTypeOK, TypeInv
<1>6. OneBody'
  BY <1>0, <1>1, NamesKept DEF DInv, Quiet
<1>7. TellTruth'
  BY <1>0, <1>1, TruthKept DEF DInv, Quiet, DecisionsKept
<1>8. Advances
  <2>1. Attempted \subseteq Attempted'
    BY <1>4
  <2>2. QED BY <1>0, <1>3, <1>4, <2>1 DEF Advances, DecisionsKept
<1>9. QED BY <1>0, <1>3, <1>4, <1>5, <1>6, <1>7, <1>8, InvKept

-----------------------------------------------------------------------------
(* Requests in flight arrive, or fail.                                     *)

(* The message an ack releases is the one of its own body: an answer of it *)
(* has been attempted, or it is no request.                                *)
LEMMA ReleasesOwn ==
  ASSUME DInv, NEW o \in ops, o.kind \in {"ack", "discard"},
         NEW m \in unacked, m.msgId = o.msgId, m.body \in Requests
  PROVE  m.body \in Attempted
<1>1. m.msgId \in MsgIds
  BY DEF DInv, DTypeInv, DTypeOK, Message
<1>2. Names(m.msgId, m.body) /\ Names(m.msgId, o.body)
  BY DEF Names, AgentNames, OpNames
<1>3. o.body = m.body
  BY <1>1, <1>2 DEF DInv, OneBody
<1>4. o.kind = "ack"
  BY <1>3 DEF DInv, DTypeInv, Kinds
<1>5. QED BY <1>3, <1>4 DEF DInv, AcksFollow

LEMMA SettlesStep ==
  ASSUME DInv, NEW o \in ops, Settles(o)
  PROVE  /\ DInv' /\ UNCHANGED custStatus /\ Attempted' = Attempted
         /\ \/ UNCHANGED answered
            \/ o \in Broadcasts(ops) /\ Published(o)
         /\ \A b : InMag(b)' => InMag(b)
         /\ \A r \in Requests : InMag(r) => InMag(r)' \/ r \in Attempted
<1>0. TypeInv /\ UNCHANGED <<queued, instance, halfOpen, custStatus, faults>>
  BY DEF DInv, DTypeInv, Settles, BroadcastArrives, BroadcastFrameLost, BroadcastFails, AckArrives,
         AckFrameLost, AckFails, magVars
<1>1. Settle(o)
  BY DEF Settles, BroadcastArrives, BroadcastFrameLost, BroadcastFails, AckArrives, AckFrameLost,
         AckFails, Settle
<1>2. NoNewName /\ NothingTold /\ ops' = ops \ {o}
  BY <1>0, <1>1, SettleQuiet
<1>3. TypeInv'
  <2>1. Next
    BY <1>1 DEF Next
  <2>2. QED BY <1>0, <2>1, TypeStep
<1>4. /\ \/ o \in Broadcasts(ops) /\ Published(o) /\ failed \subseteq failed'
         \/ o \in Broadcasts(ops) /\ UNCHANGED answered /\ o.body \in failed' /\ failed \subseteq failed'
         \/ o.kind # "broadcast" /\ UNCHANGED <<answered, failed>>
      /\ failed' \subseteq failed \cup {o.body}
      /\ failed' # failed => o \in Broadcasts(ops)
      /\ \/ UNCHANGED unacked
         \/ o.kind \in {"ack", "discard"} /\ Ack(o.msgId)
  <2>1. CASE BroadcastArrives(o)
    BY <2>1 DEF BroadcastArrives, BroadcastDone, Broadcasts
  <2>2. CASE BroadcastFails(o)
    BY <2>2 DEF BroadcastFails, Broadcasts
  <2>3. CASE AckArrives(o)
    BY <2>3 DEF AckArrives, AckDone, DiscardSettled, responses
  <2>4. CASE AckFrameLost(o)
    BY <2>4 DEF AckFrameLost, AckDone, DiscardSettled, magVars, responses
  <2>5. CASE AckFails(o)
    BY <2>5 DEF AckFails, DiscardSettled, responses
  <2>6. CASE BroadcastFrameLost(o)
    BY <2>6 DEF BroadcastFrameLost, BroadcastDone, Broadcasts
  <2>7. QED BY <2>1, <2>2, <2>3, <2>4, <2>5, <2>6 DEF Settles
<1>5. o \in Broadcasts(ops) => o.body \in Requests /\ o.status \in FinalStatuses
  BY BroadcastTrue DEF DInv
<1>6. \A r : (\E a \in answered' : a.req = r)
             <=> Answered(r) \/ (o \in Broadcasts(ops) /\ Published(o) /\ r = o.body)
  <2>1. CASE o \in Broadcasts(ops) /\ Published(o)
    <3> DEFINE a == [req |-> o.body, status |-> o.status]
    <3>1. answered' = answered \cup {a} /\ a.req = o.body
      BY <2>1 DEF Published
    <3> HIDE DEF a
    <3>2. \A r : (\E b \in answered' : b.req = r) <=> Answered(r) \/ r = o.body
      BY <3>1 DEF Answered
    <3>3. QED BY <2>1, <3>2
  <2>2. CASE ~(o \in Broadcasts(ops) /\ Published(o))
    BY <1>4, <2>2 DEF Answered
  <2>3. QED BY <2>1, <2>2
<1>7. Attempted' = Attempted
  <2>1. ASSUME NEW r \in Requests, r \in Attempted PROVE r \in Attempted'
    <3>1. CASE Answered(r)
      BY <1>6, <3>1 DEF Attempted, Answered
    <3>2. CASE r \in failed
      BY <1>4, <3>2 DEF Attempted
    <3>3. ASSUME NEW p \in Broadcasts(ops), p.body = r PROVE r \in Attempted'
      <4>1. CASE p = o
        BY <1>4, <1>6, <3>3, <4>1 DEF Attempted, Answered, Broadcasts
      <4>2. CASE p # o
        BY <1>2, <3>3, <4>2 DEF Attempted, Broadcasts
      <4>3. QED BY <4>1, <4>2
    <3>4. QED BY <2>1, <3>1, <3>2, <3>3 DEF Attempted
  <2>2. ASSUME NEW r \in Requests, r \in Attempted' PROVE r \in Attempted
    <3>1. CASE Answered(r)'
      BY <1>6, <3>1 DEF Attempted, Answered
    <3>2. CASE r \in failed'
      BY <1>4, <3>2 DEF Attempted
    <3>3. CASE \E p \in Broadcasts(ops)' : p.body = r
      BY <1>2, <3>3 DEF Attempted, Broadcasts
    <3>4. QED BY <2>2, <3>1, <3>2, <3>3 DEF Attempted
  <2>3. QED BY <2>1, <2>2 DEF Attempted
<1>8. unacked' \subseteq unacked /\ \A b : InMag(b)' => InMag(b)
  BY <1>0, <1>4 DEF Ack, InMag
<1>9. \A r \in Requests : InMag(r) => InMag(r)' \/ r \in Attempted
  <2> SUFFICES ASSUME NEW r \in Requests, InMag(r), ~InMag(r)' PROVE r \in Attempted
    OBVIOUS
  <2>1. PICK m \in unacked : m.body = r /\ m \notin unacked'
    BY <1>0 DEF InMag
  <2>2. o.kind \in {"ack", "discard"} /\ m.msgId = o.msgId
    BY <1>4, <2>1 DEF Ack
  <2>3. QED BY <2>1, <2>2, ReleasesOwn
<1>10. DTypeInv'
  <2>1. answered' \subseteq [req : Requests, status : FinalStatuses] /\ failed' \subseteq Requests
    BY <1>4, <1>5 DEF Published, DInv, DTypeInv, DTypeOK
  <2>2. Kinds'
    BY <1>2 DEF DInv, DTypeInv, Kinds
  <2>3. QED BY <1>0, <1>3, <1>8, <2>1, <2>2 DEF DInv, DTypeInv, DTypeOK, TypeInv
<1>11. OneBody'
  BY <1>2, <1>8, NamesKept DEF DInv
<1>12. TellTruth'
  BY <1>0, <1>2, TruthKept DEF DInv, DecisionsKept
<1>13. Advances
  <2>1. failed' \subseteq failed \cup Attempted
    BY <1>4, <1>5 DEF Attempted
  <2>2. \A a \in answered' : \/ a \in answered
                             \/ \E p \in Broadcasts(ops) : a = [req |-> p.body, status |-> p.status]
    BY <1>4 DEF Published
  <2>3. QED BY <1>0, <1>2, <1>7, <1>9, <2>1, <2>2 DEF Advances, DecisionsKept
<1>14. QED
  BY <1>0, <1>4, <1>7, <1>8, <1>9, <1>10, <1>11, <1>12, <1>13, InvKept

-----------------------------------------------------------------------------
(* A crash: of what was in flight any part has arrived, and every answer   *)
(* that was being sent counts as attempted.                                *)

LEMMA CrashAnswers ==
  ASSUME DInv, NEW i \in Prefixes, NEW arrived \in SUBSET ops, Crash(i, arrived)
  PROVE  /\ \A a \in answered' : \/ a \in answered
                                 \/ \E o \in Broadcasts(arrived) :
                                      a = [req |-> o.body, status |-> o.status]
         /\ answered \subseteq answered'
         /\ failed' = failed \cup {o.body : o \in Broadcasts(ops)}
         /\ Attempted' = Attempted
<1>1. /\ answered' = answered \cup {[req |-> o.body, status |-> o.status] : o \in Broadcasts(arrived)}
      /\ failed' = failed \cup {o.body : o \in Broadcasts(ops)} /\ ops' = {}
  BY DEF Crash
<1>2. Broadcasts(arrived) \subseteq Broadcasts(ops) /\ Broadcasts(ops)' = {}
  BY <1>1 DEF Broadcasts
<1>3. ASSUME NEW r \in Requests, r \in Attempted PROVE r \in Attempted'
  BY <1>1, <1>3 DEF Attempted, Answered
<1>4. ASSUME NEW r \in Requests, r \in Attempted' PROVE r \in Attempted
  <2>1. CASE \E a \in answered' : a.req = r
    <3>1. PICK a \in answered' : a.req = r
      BY <2>1
    <3>2. CASE a \in answered
      BY <3>1, <3>2 DEF Attempted, Answered
    <3>3. ASSUME NEW o \in Broadcasts(arrived), a = [req |-> o.body, status |-> o.status]
          PROVE  r \in Attempted
      <4>1. o \in Broadcasts(ops) /\ o.body = r
        BY <1>2, <3>1, <3>3
      <4>2. QED BY <4>1 DEF Attempted
    <3>4. QED BY <1>1, <3>2, <3>3
  <2>2. CASE r \in failed'
    BY <1>1, <2>2 DEF Attempted
  <2>3. QED BY <1>2, <1>4, <2>1, <2>2 DEF Attempted, Answered
<1>5. QED BY <1>1, <1>3, <1>4 DEF Attempted

LEMMA CrashStep ==
  ASSUME DInv, NEW i \in Prefixes, NEW arrived \in SUBSET ops, Crash(i, arrived)
  PROVE  /\ DInv' /\ UNCHANGED custStatus
         /\ \A b : InMag(b)' => InMag(b)
         /\ \A r \in Requests : InMag(r) => InMag(r)' \/ r \in Attempted
<1> DEFINE left == {m \in unacked : \A o \in arrived : o.msgId # m.msgId}
<1>0. /\ queued \subseteq Bodies /\ unacked \subseteq Message
      /\ faults \in 0..MaxFaults /\ MaxFaults \in Nat
      /\ answered \subseteq [req : Requests, status : FinalStatuses] /\ failed \subseteq Requests
  BY DeliveryAssumption DEF DInv, DTypeInv, DTypeOK, DeliveryAssumption
<1>1. /\ queued' = queued \cup {m.body : m \in left} /\ unacked' = {} /\ instance' = i
      /\ halfOpen' = FALSE /\ faults' = faults + 1 /\ faults < MaxFaults /\ UNCHANGED custStatus
      /\ Init'
  BY DEF Crash, Init
<1>2. TypeInv'
  BY <1>1, TypeInit, PTL
<1>3. DOMAIN msgCache' = {} /\ ops' = {} /\ \A t \in Tasks : task'[t] = Idle
  BY <1>1 DEF Init, Empty
<1>4. DOMAIN Idle.batch = {} /\ DOMAIN Idle.todo = {}
  BY DEF Idle, Empty
<1>5. /\ \A a \in answered' : \/ a \in answered
                              \/ \E o \in Broadcasts(arrived) :
                                   a = [req |-> o.body, status |-> o.status]
      /\ failed' = failed \cup {o.body : o \in Broadcasts(ops)}
      /\ Attempted' = Attempted
  BY CrashAnswers
<1>6. Broadcasts(arrived) \subseteq Broadcasts(ops)
      /\ \A o \in Broadcasts(ops) : o.body \in Requests /\ o.status \in FinalStatuses
  BY BroadcastTrue DEF Broadcasts, DInv
<1>7. \A b : InMag(b)' => InMag(b)
  BY <1>1 DEF InMag
<1>8. ASSUME NEW r \in Requests, InMag(r), ~InMag(r)' PROVE r \in Attempted
  <2>1. PICK m \in unacked : m.body = r /\ m \notin left
    BY <1>1, <1>8 DEF InMag
  <2>2. PICK o \in arrived : o.msgId = m.msgId
    BY <2>1
  <2>3. m.msgId # NoMsgId
    BY <1>0, ConstantsAssumption DEF Message, ConstantsAssumption
  <2>4. CASE o.kind \in {"ack", "discard"}
    BY <2>1, <2>2, <2>4, ReleasesOwn
  <2>5. CASE o.kind = "broadcast"
    <3>1. Names(m.msgId, m.body) /\ Names(m.msgId, o.body) /\ m.msgId \in MsgIds
      BY <1>0, <2>2 DEF Names, AgentNames, OpNames, Message
    <3>2. o.body = r
      BY <2>1, <3>1 DEF DInv, OneBody
    <3>3. QED BY <2>5, <3>2 DEF Attempted, Broadcasts
  <2>6. o \in Op
    BY DEF DInv, DTypeInv, TypeInv, TypeOK
  <2>7. QED BY <2>4, <2>5, <2>6 DEF Op
<1>9. DTypeInv'
  <2>1. queued' \subseteq Bodies
    BY <1>0, <1>1 DEF Message
  <2>2. answered' \subseteq [req : Requests, status : FinalStatuses] /\ failed' \subseteq Requests
    BY <1>0, <1>5, <1>6
  <2>3. faults' \in 0..MaxFaults
    BY <1>0, <1>1
  <2>4. Kinds'
    BY <1>3 DEF Kinds
  <2>5. QED BY <1>1, <1>2, <2>1, <2>2, <2>3, <2>4 DEF DInv, DTypeInv, DTypeOK, TypeInv
<1>10. OneBody'
  <2>1. \A id, b : ~Names(id, b)'
    BY <1>1, <1>3, <1>4 DEF Names, AgentNames, CacheNames, OpNames, TaskNames
  <2>2. QED BY <2>1 DEF OneBody
<1>11. TellTruth'
  <2>1. \A r, s : ~Told(r, s)'
    BY <1>3, <1>4 DEF Told, CacheTold, OpTold, TaskTold, Broadcasts
  <2>2. QED BY <2>1 DEF TellTruth
<1>12. Advances
  <2>1. failed' \subseteq failed \cup Attempted
    BY <1>5, <1>6 DEF Attempted
  <2>2. \A a \in answered' : \/ a \in answered
                             \/ \E o \in Broadcasts(ops) : a = [req |-> o.body, status |-> o.status]
    BY <1>5, <1>6
  <2>3. QED BY <1>1, <1>3, <1>5, <1>8, <2>1, <2>2 DEF Advances, DecisionsKept
<1>13. QED BY <1>1, <1>7, <1>8, <1>9, <1>10, <1>11, <1>12, InvKept

-----------------------------------------------------------------------------
LEMMA DInvInit == DInit => DInv
<1> SUFFICES ASSUME DInit PROVE DInv
  OBVIOUS
<1>1. /\ Init /\ queued = Bodies /\ unacked = {} /\ answered = {} /\ failed = {} /\ faults = 0
      /\ instance \in Prefixes /\ halfOpen = FALSE /\ custStatus = [r \in Requests |-> "none"]
  BY DEF DInit, Prefixes
<1>2. TypeInv
  BY <1>1, TypeInit
<1>3. DOMAIN msgCache = {} /\ ops = {} /\ \A t \in Tasks : task[t] = Idle
  BY <1>1 DEF Init, Empty
<1>4. DOMAIN Idle.batch = {} /\ DOMAIN Idle.todo = {}
  BY DEF Idle, Empty
<1>5. DTypeInv
  <2>1. custStatus \in [Requests -> Statuses \cup {"none"}] /\ faults \in 0..MaxFaults
    BY <1>1, DeliveryAssumption DEF DeliveryAssumption
  <2>2. queued \subseteq Bodies /\ unacked \subseteq Message /\ halfOpen \in BOOLEAN
        /\ answered \subseteq [req : Requests, status : FinalStatuses] /\ failed \subseteq Requests
    BY <1>1
  <2>3. QED BY <1>1, <1>2, <1>3, <2>1, <2>2 DEF DTypeInv, DTypeOK, Kinds, TypeInv
<1>6. OneBody
  <2>1. \A id, b : ~Names(id, b)
    BY <1>1, <1>3, <1>4 DEF Names, AgentNames, CacheNames, OpNames, TaskNames
  <2>2. QED BY <2>1 DEF OneBody
<1>7. TellTruth
  <2>1. \A r, s : ~Told(r, s)
    BY <1>3, <1>4 DEF Told, CacheTold, OpTold, TaskTold, Broadcasts
  <2>2. QED BY <2>1 DEF TellTruth
<1>8. AcksFollow /\ FailedDecided /\ AnswersAgree
  BY <1>1, <1>3 DEF AcksFollow, FailedDecided, AnswersAgree
<1>9. ReleasedAttempted
  BY <1>1 DEF ReleasedAttempted, InMag, Bodies
<1>10. QED BY <1>5, <1>6, <1>7, <1>8, <1>9 DEF DInv

(* The disjuncts of DNext, grouped as the lemmas above take them.          *)
LEMMA StepCases ==
  ASSUME [DNext]_dvars
  PROVE  \/ MagMoves
         \/ \E t \in Tasks : \E batch \in Batches(Message) : Deliver(t, batch)
         \/ \E t \in Tasks : \E resp \in Batches(Report) :
              CustomerReplies(t, resp) \/ PollReplies(t, resp)
         \/ (\E t \in Tasks : CustomerFails(t)) \/ (\E r \in Requests : CustomerDecides(r))
         \/ \E t \in Tasks : Local(t)
         \/ \E o \in ops : Settles(o)
         \/ \E i \in Prefixes : \E arrived \in SUBSET ops : Crash(i, arrived)
BY DEF DNext, MagMoves

LEMMA DInvStep == DInv /\ [DNext]_dvars => DInv'
<1> SUFFICES ASSUME DInv, [DNext]_dvars PROVE DInv'
  OBVIOUS
<1>1. CASE MagMoves
  BY <1>1, MagStep
<1>2. ASSUME NEW t \in Tasks, NEW batch \in Batches(Message), Deliver(t, batch) PROVE DInv'
  BY <1>2, DeliverStep
<1>3. ASSUME NEW t \in Tasks, NEW resp \in Batches(Report),
             CustomerReplies(t, resp) \/ PollReplies(t, resp)
      PROVE  DInv'
  BY <1>3, AnswerStep
<1>4. CASE (\E t \in Tasks : CustomerFails(t)) \/ (\E r \in Requests : CustomerDecides(r))
  BY <1>4, CustomerStep
<1>5. ASSUME NEW t \in Tasks, Local(t) PROVE DInv'
  BY <1>5, LocalStep
<1>6. ASSUME NEW o \in ops, Settles(o) PROVE DInv'
  BY <1>6, SettlesStep
<1>7. ASSUME NEW i \in Prefixes, NEW arrived \in SUBSET ops, Crash(i, arrived) PROVE DInv'
  BY <1>7, CrashStep
<1>8. QED BY <1>1, <1>2, <1>3, <1>4, <1>5, <1>6, <1>7, StepCases

(* The invariant holds always, and so does all that follows from it.       *)
LEMMA DInvAlways == DSpec => []DInv
BY DInvInit, DInvStep, PTL DEF DSpec

(* Every variable of the agent and of its peers has its type.              *)
THEOREM DTypeCorrect == DSpec => []DTypeOK
<1>1. DInv => DTypeOK BY DEF DInv, DTypeInv
<1>2. QED BY DInvAlways, <1>1, PTL

(* A request leaves MAG only when the customer has decided it: acks follow *)
(* final statuses that the agent has learnt (lines 242-260).               *)
THEOREM OnlyDecidedAcked == DSpec => []NeverAckedUndecided
<1>1. DInv => NeverAckedUndecided
  <2> SUFFICES ASSUME DInv, NEW r \in Requests, ~InMag(r) PROVE custStatus[r] \in FinalStatuses
    BY DEF NeverAckedUndecided
  <2>1. r \in Attempted
    BY DEF DInv, ReleasedAttempted
  <2>2. QED BY <2>1, AttemptedDecided
<1>2. QED BY DInvAlways, <1>1, PTL

(* Every response that reached MAG is the customer's one decision (lines   *)
(* 104-113, 241-255).                                                      *)
THEOREM AnswersTrue == DSpec => []AnswersAgree
<1>1. DInv => AnswersAgree BY DEF DInv
<1>2. QED BY DInvAlways, <1>1, PTL

(* A msgId that the agent acks or keeps names no delivery of another       *)
(* request (lines 220-239), also across MAG instances.                     *)
THEOREM OwnAcksOnly == DSpec => []NoForeignAck
<1>1. DInv => NoForeignAck
  <2> SUFFICES ASSUME DInv PROVE NoForeignAck
    OBVIOUS
  <2>1. ASSUME NEW m \in unacked PROVE Names(m.msgId, m.body) /\ m.msgId \in MsgIds
    BY DEF DInv, DTypeInv, DTypeOK, Message, Names
  <2>2. ASSUME NEW m \in unacked, NEW o \in ops, o.msgId = m.msgId PROVE o.body = m.body
    <3>1. Names(m.msgId, o.body)
      BY <2>2 DEF Names, AgentNames, OpNames
    <3>2. QED BY <2>1, <3>1 DEF DInv, OneBody
  <2>3. ASSUME NEW m \in unacked, NEW r \in DOMAIN msgCache, msgCache[r].msgId = m.msgId
        PROVE  r = m.body
    <3>1. Names(m.msgId, r)
      BY <2>3 DEF Names, AgentNames, CacheNames
    <3>2. QED BY <2>1, <3>1 DEF DInv, OneBody
  <2>4. QED BY <2>2, <2>3 DEF NoForeignAck
<1>2. QED BY DInvAlways, <1>1, PTL

-----------------------------------------------------------------------------
(* The refinement: every step is a step of the life cycle or leaves it.    *)

HeldRequests == {r \in Requests : InMag(r)}
Decision == [r \in Requests |->
  IF custStatus[r] \in FinalStatuses THEN custStatus[r] ELSE "undecided"]

LEMMA LifecycleInit == DInit => Lifecycle!Init
<1> SUFFICES ASSUME DInit PROVE Lifecycle!Init
  OBVIOUS
<1>1. /\ ops = {} /\ queued = Bodies /\ unacked = {} /\ answered = {} /\ failed = {}
      /\ custStatus = [r \in Requests |-> "none"]
  BY DEF DInit, Init
<1>2. {r \in Requests : InMag(r)} = Requests
  BY <1>1 DEF InMag, Bodies
<1>3. Attempted = {}
  BY <1>1 DEF Attempted, Answered, Broadcasts
<1>4. Decision = [r \in Requests |-> "undecided"]
  BY <1>1 DEF Decision, FinalStatuses
<1>5. QED BY <1>1, <1>2, <1>3, <1>4 DEF Lifecycle!Init, Decision

(* The customer's answers, as far as they decide requests.                 *)
LEMMA DecideStep ==
  ASSUME DInv, UNCHANGED <<ops, answered, failed>>, \A b : InMag(b)' <=> InMag(b),
         DecisionsKept, custStatus' \in [Requests -> Statuses \cup {"none"}]
  PROVE  Lifecycle!Next
<1>0. PICK S \in SUBSET Requests :
        \A r \in Requests : r \in S <=> /\ custStatus[r] \notin FinalStatuses
                                       /\ custStatus'[r] \in FinalStatuses
  <2>1. \E S \in SUBSET Requests :
          S = {r \in Requests : custStatus[r] \notin FinalStatuses /\ custStatus'[r] \in FinalStatuses}
    OBVIOUS
  <2>2. QED BY <2>1
<1>1. HeldRequests' = HeldRequests
  BY DEF HeldRequests
<1>2. Attempted' = Attempted
  BY DEF Attempted, Answered, Broadcasts
<1>3. PICK d \in [S -> FinalStatuses] : \A r \in S : d[r] = custStatus'[r]
  <2>1. [r \in S |-> custStatus'[r]] \in [S -> FinalStatuses]
    BY <1>0
  <2>2. QED BY <2>1
<1>4. Decision' = [r \in Requests |-> IF r \in S THEN d[r] ELSE Decision[r]]
  <2>1. \A r \in Requests : Decision'[r] = IF r \in S THEN d[r] ELSE Decision[r]
    BY <1>0, <1>3 DEF Decision, DecisionsKept
  <2>2. QED BY <2>1 DEF Decision
<1>5. \A r \in S : Decision[r] \notin FinalStatuses
  BY <1>0 DEF Decision, FinalStatuses
<1>6. Lifecycle!Decide(S)
  BY <1>1, <1>2, <1>3, <1>4, <1>5
     DEF Lifecycle!Decide, Lifecycle!Decided, Lifecycle!Decisions, HeldRequests, Decision, FinalStatuses
<1>7. QED BY <1>6 DEF Lifecycle!Next

LEMMA AttemptStep ==
  ASSUME DInv, NEW r \in Requests, custStatus[r] \in FinalStatuses,
         Attempted' = Attempted \cup {r},
         UNCHANGED <<custStatus, answered>>, \A b : InMag(b)' <=> InMag(b)
  PROVE  Lifecycle!Next
<1>1. HeldRequests' = HeldRequests /\ Decision' = Decision
  BY DEF HeldRequests, Decision
<1>2. Decision[r] \in FinalStatuses
  BY DEF Decision
<1>3. Lifecycle!Attempt(r)
  BY <1>1, <1>2 DEF Lifecycle!Attempt, Lifecycle!Decided, Lifecycle!Decisions, HeldRequests,
     Decision, FinalStatuses
<1>4. QED BY <1>3 DEF Lifecycle!Next

(* Acks taken and answers arrived, of requests with an attempted answer.   *)
LEMMA ReleaseStep ==
  ASSUME DInv, UNCHANGED custStatus, Attempted' = Attempted,
         NEW arrived \in SUBSET Broadcasts(ops),
         answered' = answered \cup {[req |-> o.body, status |-> o.status] : o \in arrived},
         \A b : InMag(b)' => InMag(b),
         \A r \in Requests : InMag(r) => InMag(r)' \/ r \in Attempted
  PROVE  Lifecycle!Next
<1> DEFINE acked == HeldRequests \ HeldRequests'
           sent == {o.body : o \in arrived}
<1>1. HeldRequests' = HeldRequests \ acked /\ acked \subseteq Attempted
  BY DEF HeldRequests
<1>2. Decision' = Decision
  BY DEF Decision
<1>3. ASSUME NEW o \in arrived
      PROVE  o.body \in Attempted /\ o.body \in Requests /\ o.status = Decision[o.body]
  <2>1. o.body \in Requests /\ o.status \in FinalStatuses /\ o.status = custStatus[o.body]
    BY BroadcastTrue DEF DInv
  <2>2. QED BY <2>1 DEF Decision, Attempted
<1>4. sent \subseteq Attempted
  BY <1>3
<1>5. {[req |-> o.body, status |-> o.status] : o \in arrived}
      = {[req |-> r, status |-> Decision[r]] : r \in sent}
  BY <1>3
<1>6. Lifecycle!Settle(acked, sent)
  <2> HIDE DEF acked, sent
  <2>1. QED BY <1>1, <1>2, <1>5 DEF Lifecycle!Settle, Lifecycle!Answer, HeldRequests, Decision
<1>7. QED
  <2> HIDE DEF acked, sent
  <2>1. QED BY <1>1, <1>4, <1>6 DEF Lifecycle!Next

LEMMA LifecycleStep == DInv /\ [DNext]_dvars => [Lifecycle!Next]_(Lifecycle!lvars)
<1> SUFFICES ASSUME DInv, [DNext]_dvars PROVE Lifecycle!Next \/ UNCHANGED Lifecycle!lvars
  OBVIOUS
<1>0. ASSUME UNCHANGED <<custStatus, answered>>, Attempted' = Attempted, \A b : InMag(b)' <=> InMag(b)
      PROVE  UNCHANGED Lifecycle!lvars
  <2>1. HeldRequests' = HeldRequests /\ Decision' = Decision
    BY <1>0 DEF HeldRequests, Decision
  <2>2. QED BY <1>0, <2>1 DEF Lifecycle!lvars, HeldRequests, Decision
<1>1. CASE MagMoves
  <2>1. UNCHANGED <<ops, custStatus, answered, failed>> /\ \A b : InMag(b)' <=> InMag(b)
    BY <1>1, MagMovesOnly
  <2>2. QED BY <1>0, <2>1 DEF Attempted, Answered, Broadcasts
<1>2. ASSUME NEW t \in Tasks, NEW batch \in Batches(Message), Deliver(t, batch)
      PROVE  UNCHANGED Lifecycle!lvars
  <2>1. UNCHANGED <<ops, custStatus, answered, failed>> /\ \A b : InMag(b)' <=> InMag(b)
    BY <1>2, DeliverStep
  <2>2. QED BY <1>0, <2>1 DEF Attempted, Answered, Broadcasts
<1>3. ASSUME NEW t \in Tasks, NEW resp \in Batches(Report),
             CustomerReplies(t, resp) \/ PollReplies(t, resp)
      PROVE  Lifecycle!Next
  BY <1>3, AnswerStep, DecideStep
<1>4. CASE (\E t \in Tasks : CustomerFails(t)) \/ (\E r \in Requests : CustomerDecides(r))
  BY <1>4, CustomerStep, DecideStep
<1>5. ASSUME NEW t \in Tasks, Local(t) PROVE Lifecycle!Next \/ UNCHANGED Lifecycle!lvars
  BY <1>0, <1>5, LocalStep, AttemptStep
<1>6. ASSUME NEW o \in ops, Settles(o) PROVE Lifecycle!Next
  <2>1. /\ UNCHANGED custStatus /\ Attempted' = Attempted
        /\ UNCHANGED answered \/ (o \in Broadcasts(ops) /\ Published(o))
        /\ \A b : InMag(b)' => InMag(b)
        /\ \A r \in Requests : InMag(r) => InMag(r)' \/ r \in Attempted
    BY <1>6, SettlesStep
  <2>2. PICK arrived \in SUBSET Broadcasts(ops) :
          answered' = answered \cup {[req |-> p.body, status |-> p.status] : p \in arrived}
    <3>1. CASE UNCHANGED answered
      <4>1. answered' = answered \cup {[req |-> p.body, status |-> p.status] : p \in {}}
        BY <3>1
      <4>2. QED BY <4>1
    <3>2. CASE o \in Broadcasts(ops) /\ Published(o)
      <4>1. answered' = answered \cup {[req |-> p.body, status |-> p.status] : p \in {o}}
        BY <3>2 DEF Published
      <4>2. QED BY <3>2, <4>1
    <3>3. QED BY <2>1, <3>1, <3>2
  <2>3. QED BY <2>1, <2>2, ReleaseStep
<1>7. ASSUME NEW i \in Prefixes, NEW arrived \in SUBSET ops, Crash(i, arrived)
      PROVE  Lifecycle!Next
  <2>1. answered' = answered \cup {[req |-> o.body, status |-> o.status] : o \in Broadcasts(arrived)}
        /\ Broadcasts(arrived) \subseteq Broadcasts(ops)
    BY <1>7 DEF Crash, Broadcasts
  <2>2. QED BY <1>7, <2>1, CrashStep, CrashAnswers, ReleaseStep
<1>8. QED BY <1>1, <1>2, <1>3, <1>4, <1>5, <1>6, <1>7, StepCases

(* The agent between its peers implements the life cycle of a request: an  *)
(* answer is attempted only for what is decided, says the decision, and    *)
(* MAG lets go of a request only after the attempt, for good.              *)
THEOREM ImplementsLifecycle == DSpec => KeepsLifecycle
BY DInvAlways, LifecycleInit, LifecycleStep, PTL DEF DSpec, KeepsLifecycle, Lifecycle!Spec

(* Once MAG has let go of a request it never holds it again, whatever is   *)
(* redelivered: the life cycle only releases.                              *)
THEOREM ReleasedForGood == DSpec => [][\A r \in Requests : ~InMag(r) => ~InMag(r)']_dvars
<1>1. [Lifecycle!Next]_(Lifecycle!lvars) => HeldRequests' \subseteq HeldRequests
  BY DEF Lifecycle!Next, Lifecycle!lvars, Lifecycle!Decide, Lifecycle!Attempt, Lifecycle!Settle,
         HeldRequests
<1>2. HeldRequests' \subseteq HeldRequests => \A r \in Requests : ~InMag(r) => ~InMag(r)'
  BY DEF HeldRequests
<1>3. QED BY <1>1, <1>2, ImplementsLifecycle, PTL DEF KeepsLifecycle, Lifecycle!Spec

-----------------------------------------------------------------------------
(* Which responses can be lost at all (see NoLostResponse).                *)

(* A request that MAG has let go of has been answered, or its answer is on *)
(* its way, or one of its broadcasts was rejected, written to a session    *)
(* that MAG read no more, or in flight when the process died: there is no  *)
(* other way to lose a response (lines 249-260, fb-server-ws.api.ts:92-93, *)
(* 105-112).                                                               *)
LossExplained == \A r \in Requests :
  InMag(r) \/ Answered(r) \/ (\E o \in Broadcasts(ops) : o.body = r) \/ r \in failed

THEOREM LossesExplained == DSpec => []LossExplained
<1>1. DInv => LossExplained
  BY DEF DInv, ReleasedAttempted, LossExplained, Attempted
<1>2. QED BY DInvAlways, <1>1, PTL

(* No frame goes astray in HTTP mode, nor in WebSocket mode before the     *)
(* first session breaks.                                                   *)
Calm == ~WEBSOCKET_ENABLED \/ (faults = 0 /\ ~halfOpen)
SocketUsed == \A o \in ops : o.via = "ws" => connected
NoneAstray ==
  /\ ~WEBSOCKET_ENABLED => ~connected
  /\ Calm => failed = {} /\ ~halfOpen /\ SocketUsed
CalmAnswers == Calm => NoLostResponse

LEMMA SentOnSocket ==
  ASSUME TypeOK, NEW t \in Tasks, Local(t), SocketUsed
  PROVE  SocketUsed' /\ connected' = connected
<1>1. ASSUME NEW k, NEW item, NEW id, NEW o \in Dispatched(t, k, item, id), o.via = "ws"
      PROVE  connected
  BY <1>1 DEF Dispatched, BroadcastVia, AckVia
<1>2. ASSUME NEW from, NEW to, NEW S, AckMessages(t, from, to, S)
      PROVE  SocketUsed' /\ connected' = connected
  BY <1>2 DEF AckMessages, AckVia, SocketUsed
<1>3. ASSUME NEW k, UpdateNew(t, k) \/ UpdateCached(t, k) \/ Added(t, k)
      PROVE  SocketUsed' /\ connected' = connected
  <2>1. CASE UpdateNew(t, k)
    BY <2>1 DEF UpdateNew, SocketUsed
  <2>2. CASE UpdateCached(t, k)
    BY <1>1, <2>2 DEF UpdateCached, ItemDone, SocketUsed
  <2>3. CASE Added(t, k)
    BY <1>1, <2>3 DEF Added, ItemDone, SocketUsed
  <2>4. QED BY <1>3, <2>1, <2>2, <2>3
<1>4. CASE \/ EndOfItems(t) \/ Flushed(t) \/ Updated(t) \/ Throw(t) \/ MessagesToSign(t)
           \/ Discarded(t) \/ HandlerEnds(t) \/ CertificatesReady(t) \/ CertificatesFail(t)
           \/ PullMessagesStatus(t) \/ PullFails(t)
  BY <1>4 DEF EndOfItems, Flushed, Updated, Throw, MessagesToSign, Discarded, HandlerEnds,
     CertificatesReady, CertificatesFail, PullMessagesStatus, PullFails, SocketUsed
<1>5. QED BY <1>2, <1>3, <1>4 DEF Local, Internal, AckUnknown, AckInvalid

LEMMA NoneAstrayStep ==
  ASSUME ~BroadcastsMayFail, ~CrashesAllowed, DInv, NoneAstray, [DNext]_dvars
  PROVE  NoneAstray'
<1>0. TypeOK /\ faults \in Nat /\ WEBSOCKET_ENABLED \in BOOLEAN
  BY DeliveryAssumption, ConstantsAssumption
     DEF DInv, DTypeInv, DTypeOK, DeliveryAssumption, ConstantsAssumption
<1>1. ASSUME UNCHANGED <<faults, halfOpen, failed, connected>>, ops' \subseteq ops
      PROVE  NoneAstray'
  BY <1>1 DEF NoneAstray, Calm, SocketUsed
<1>2. CASE UNCHANGED dvars
  BY <1>1, <1>2 DEF dvars, vars, magVars, responses
<1>3. ASSUME NEW t \in Tasks, NEW batch, Deliver(t, batch) PROVE NoneAstray'
  BY <1>1, <1>3 DEF Deliver, ReceiveMessages, responses
<1>4. ASSUME NEW t \in Tasks, NEW resp, CustomerReplies(t, resp) \/ PollReplies(t, resp)
      PROVE  NoneAstray'
  BY <1>1, <1>4 DEF CustomerReplies, PollReplies, SignResponse, PullResponse, magVars, responses
<1>5. ASSUME NEW t \in Tasks, CustomerFails(t) PROVE NoneAstray'
  BY <1>1, <1>5 DEF CustomerFails, SignFails, magVars, responses
<1>6. ASSUME NEW t \in Tasks, Local(t) PROVE NoneAstray'
  <2>1. UNCHANGED <<faults, halfOpen, failed>>
    BY <1>6 DEF Local, magVars, responses
  <2>2. CASE Calm
    BY <1>0, <1>6, <2>1, <2>2, SentOnSocket DEF NoneAstray, Calm
  <2>3. CASE ~Calm
    BY <2>1, <2>3 DEF NoneAstray, Calm
  <2>4. QED BY <2>2, <2>3
<1>7. ASSUME NEW o \in ops, Settles(o) PROVE NoneAstray'
  <2>1. UNCHANGED <<faults, halfOpen, connected>> /\ ops' \subseteq ops
    BY <1>7 DEF Settles, BroadcastArrives, BroadcastFrameLost, BroadcastFails, AckArrives,
       AckFrameLost, AckFails, BroadcastDone, AckDone, DiscardSettled, OpFails, magVars
  <2>2. CASE Calm
    <3>1. Reaches(o)
      BY <2>2 DEF NoneAstray, Reaches, SocketUsed
    <3>2. failed' = failed
      BY <1>7, <3>1 DEF Settles, BroadcastArrives, BroadcastFrameLost, BroadcastFails, AckArrives,
         AckFrameLost, AckFails, Reaches, magVars, responses
    <3>3. QED BY <1>1, <2>1, <3>2
  <2>3. CASE ~Calm
    BY <2>1, <2>3 DEF NoneAstray, Calm
  <2>4. QED BY <2>2, <2>3
<1>8. ASSUME NEW m \in unacked, Redeliver(m) PROVE NoneAstray'
  BY <1>1, <1>8 DEF Redeliver, vars, responses
<1>9. ASSUME NEW i \in Prefixes, SessionLost(i) PROVE NoneAstray'
  <2>1. CASE WEBSOCKET_ENABLED
    BY <1>0, <1>9, <2>1 DEF SessionLost, NoneAstray, Calm
  <2>2. CASE ~WEBSOCKET_ENABLED
    BY <1>9, <2>2 DEF SessionLost, NoneAstray, Calm, SocketUsed, vars, responses
  <2>3. QED BY <1>0, <2>1, <2>2
<1>10. ASSUME NEW r \in Requests, CustomerDecides(r) PROVE NoneAstray'
  BY <1>1, <1>10 DEF CustomerDecides, vars, magVars, responses
<1>11. CASE Connect
  BY <1>0, <1>11 DEF Connect, ConnectionChanges, magVars, responses, NoneAstray, Calm, SocketUsed
<1>12. CASE SessionBreaks
  BY <1>0, <1>12 DEF SessionBreaks, NoneAstray, Calm, vars
<1>13. ASSUME NEW i \in Prefixes, NEW arrived \in SUBSET ops, Crash(i, arrived) PROVE FALSE
  BY <1>13 DEF Crash
<1>14. QED
  BY <1>2, <1>3, <1>4, <1>5, <1>6, <1>7, <1>8, <1>9, <1>10, <1>11, <1>12, <1>13 DEF DNext

(* Where no call that broadcasts fails and no process dies, no response is *)
(* lost in HTTP mode, and in WebSocket mode none before the first session  *)
(* breaks: failed and late acks, redeliveries, moves to another instance,  *)
(* evictions and failing calls of the customer's server lose none.  A lost *)
(* WebSocket session may lose one (fb-server-ws.api.ts:92-93, 105-108).    *)
THEOREM OnlyFailuresLose ==
  ASSUME ~BroadcastsMayFail, ~CrashesAllowed
  PROVE  DSpec => [](Calm => NoLostResponse)
<1>1. DInit => NoneAstray
  BY DEF DInit, Init, NoneAstray, SocketUsed
<1>2. DInv /\ NoneAstray /\ [DNext]_dvars => NoneAstray'
  BY NoneAstrayStep
<1>3. DSpec => []NoneAstray
  BY <1>1, <1>2, DInvAlways, PTL DEF DSpec
<1>4. LossExplained /\ NoneAstray => CalmAnswers
  BY DEF NoneAstray, LossExplained, NoLostResponse, StillAnswering, Broadcasts, CalmAnswers
<1>5. DSpec => []CalmAnswers
  BY <1>3, <1>4, LossesExplained, PTL
<1>6. QED BY <1>5, PTL DEF CalmAnswers

=============================================================================
