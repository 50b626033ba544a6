------------------------ MODULE MessageServiceProofs ------------------------
(***************************************************************************)
(* Type correctness of the message service, the consistency of the two     *)
(* halves of its cache and the bound on its broadcasts, for every set of   *)
(* requests, every cache and batch size and any number of activations.     *)
(***************************************************************************)
EXTENDS MessageService, WellFoundedInduction, SequenceTheorems, FiniteSetTheorems, TLAPS

-----------------------------------------------------------------------------
(* Operators the model is built from.                                      *)

(* A partial function is a function on a part of the domain.               *)
LEMMA PartialMember ==
  ASSUME NEW D, NEW S, NEW f
  PROVE  f \in Partial(D, S) <=> DOMAIN f \subseteq D /\ f \in [DOMAIN f -> S]
BY DEF Partial

(* A batch is a function on positions up to MaxBatch.                      *)
LEMMA BatchMember ==
  ASSUME NEW S, NEW f \in Batches(S)
  PROVE  DOMAIN f \subseteq 1..MaxBatch /\ f \in [DOMAIN f -> S]
<1>1. PICK n \in 0..MaxBatch : f \in [1..n -> S]
  BY DEF Batches
<1>2. 1..n \subseteq 1..MaxBatch
  BY ConstantsAssumption DEF ConstantsAssumption
<1>3. QED BY <1>1, <1>2

(* Among finitely many positions there is a first one: Array.find          *)
(* (line 146) is well defined.                                             *)
LEMMA FirstPosition ==
  ASSUME NEW P \in SUBSET Nat, P # {}
  PROVE  \E k \in P : \A j \in P : k <= j
<1> DEFINE R == OpToRel(<, Nat)
<1>1. PICK k \in P : \A j \in P : <<j, k>> \notin R
  <2>1. IsWellFoundedOn(R, Nat) BY NatLessThanWellFounded
  <2> HIDE DEF R
  <2>2. QED BY <2>1, WFMin
<1>2. \A j \in P : ~ (j < k)
  BY <1>1 DEF OpToRel
<1> HIDE DEF R
<1>3. \A j \in P : k <= j
  BY <1>2
<1>4. QED BY <1>3

(* Without takes one element out of a sequence and keeps the order of the  *)
(* others.                                                                 *)
LEMMA WithoutType ==
  ASSUME NEW S, NEW s \in Seq(S), NEW x
  PROVE  /\ Without(s, x) \in Seq(S)
         /\ Len(Without(s, x)) <= Len(s)
<1>1. CASE \E i \in DOMAIN s : s[i] = x
  <2> DEFINE i == CHOOSE j \in DOMAIN s : s[j] = x
             w == [j \in 1..(Len(s) - 1) |-> IF j < i THEN s[j] ELSE s[j + 1]]
  <2>1. Without(s, x) = w
    BY <1>1 DEF Without
  <2>2. Len(s) \in Nat /\ DOMAIN s = 1..Len(s) /\ Len(s) >= 1
    BY <1>1, LenProperties
  <2>3. i \in 1..Len(s)
    BY <1>1, <2>2
  <2>4. \A j \in 1..(Len(s) - 1) : (IF j < i THEN s[j] ELSE s[j + 1]) \in S
    BY <2>2, <2>3, ElementOfSeq
  <2>5. w \in [1..(Len(s) - 1) -> S] /\ Len(s) - 1 \in Nat
    BY <2>2, <2>4
  <2>6. w \in Seq(S) /\ Len(w) = Len(s) - 1
    BY <2>5
  <2>7. QED BY <2>1, <2>2, <2>6
<1>2. CASE ~ \E i \in DOMAIN s : s[i] = x
  BY <1>2, LenProperties DEF Without
<1>3. QED BY <1>1, <1>2
-----------------------------------------------------------------------------
(* Types.  Two facts beyond TypeOK make it inductive: the messages still   *)
(* to be signed are messages of the batch, and what is broadcast has a     *)
(* final status (line 242).                                                *)

Held == \A t \in Tasks : task[t].toHandle \subseteq DOMAIN task[t].batch
Sent == \A o \in ops : o.kind = "broadcast" => o.status \in FinalStatuses
TypeInv == TypeOK /\ Held /\ Sent

(* Both ends of the cache after an entry is added (lines 181-197).         *)
LEMMA AddType ==
  ASSUME TypeOK, NEW item \in Item, AddMessageToCache(item)
  PROVE  msgCache' \in Partial(Requests, Entry) /\ msgCacheOrder' \in Seq(Requests)
<1> DEFINE full == Len(msgCacheOrder) >= AGENT_REQUESTS_CACHE_SIZE
           kept == IF full THEN DOMAIN msgCache \ {Head(msgCacheOrder)} ELSE DOMAIN msgCache
           order == IF full THEN Tail(msgCacheOrder) ELSE msgCacheOrder
<1>1. order \in Seq(Requests)
  <2>1. Len(msgCacheOrder) \in Nat /\ (full => msgCacheOrder # <<>>)
    BY ConstantsAssumption DEF ConstantsAssumption, TypeOK
  <2>2. QED BY <2>1, HeadTailProperties DEF TypeOK
<1>2. msgCacheOrder' \in Seq(Requests)
  <2>1. Without(order, item.req) \in Seq(Requests)
    BY <1>1, WithoutType
  <2>2. msgCacheOrder' = Append(Without(order, item.req), item.req)
    BY DEF AddMessageToCache
  <2>3. item.req \in Requests
    BY DEF Item
  <2> HIDE DEF order
  <2>4. QED BY <2>1, <2>2, <2>3
<1>3. msgCache' \in Partial(Requests, Entry)
  <2>1. DOMAIN msgCache \subseteq Requests /\ msgCache \in [DOMAIN msgCache -> Entry]
    BY PartialMember DEF TypeOK
  <2>2. msgCache' = [r \in kept \cup {item.req} |->
                       IF r = item.req THEN [msgId |-> item.msgId, status |-> item.status]
                       ELSE msgCache[r]]
    BY DEF AddMessageToCache
  <2>3. kept \subseteq DOMAIN msgCache
    OBVIOUS
  <2> HIDE DEF kept
  <2>4. item.req \in Requests /\ [msgId |-> item.msgId, status |-> item.status] \in Entry
    BY DEF Item, Entry
  <2>5. msgCache' \in [kept \cup {item.req} -> Entry]
    BY <2>1, <2>2, <2>3, <2>4
  <2>6. QED BY <2>1, <2>3, <2>4, <2>5, PartialMember
<1>4. QED BY <1>2, <1>3

(* A msgId taken from a delivery, kept or forgotten is a msgId or null     *)
(* (lines 220-239).                                                        *)
LEMMA NewMsgIdType ==
  ASSUME TypeOK, NEW item \in Item, NEW r \in DOMAIN msgCache
  PROVE  NewMsgId(item, r) \in MsgIds \cup {NoMsgId}
<1>1. msgCache \in [DOMAIN msgCache -> Entry]
  BY PartialMember DEF TypeOK
<1>2. msgCache[r].msgId \in MsgIds \cup {NoMsgId}
  BY <1>1 DEF Entry
<1>3. QED BY <1>2 DEF NewMsgId, Item

LEMMA UpdateType ==
  ASSUME TypeOK, NEW item \in Item, UpdateMsgId(item)
  PROVE  msgCache' \in Partial(Requests, Entry) /\ msgCacheOrder' \in Seq(Requests)
<1>1. DOMAIN msgCache \subseteq Requests /\ msgCache \in [DOMAIN msgCache -> Entry]
  BY PartialMember DEF TypeOK
<1>2. \A r \in DOMAIN msgCache : [msgCache[r] EXCEPT !.msgId = NewMsgId(item, r)] \in Entry
  BY <1>1, NewMsgIdType DEF Entry
<1>3. msgCache' \in [DOMAIN msgCache -> Entry]
  BY <1>2 DEF UpdateMsgId
<1>4. QED BY <1>1, <1>3, PartialMember DEF UpdateMsgId, TypeOK

LEMMA DeleteType ==
  ASSUME TypeOK, NEW r, DeleteMessageFromCache(r)
  PROVE  msgCache' \in Partial(Requests, Entry) /\ msgCacheOrder' \in Seq(Requests)
<1>1. msgCacheOrder' \in Seq(Requests)
  BY WithoutType DEF TypeOK, DeleteMessageFromCache
<1>2. DOMAIN msgCache \subseteq Requests /\ msgCache \in [DOMAIN msgCache -> Entry]
  BY PartialMember DEF TypeOK
<1>3. msgCache' \in [DOMAIN msgCache \ {r} -> Entry]
  BY <1>2 DEF DeleteMessageFromCache, Restrict
<1>4. QED BY <1>1, <1>2, <1>3, PartialMember

(* What one item of updateStatus dispatches (lines 241-261).               *)
LEMMA DispatchedType ==
  ASSUME NEW t \in Tasks, NEW k \in 1..MaxBatch, NEW item \in Item,
         NEW id \in MsgIds \cup {NoMsgId}
  PROVE  /\ Dispatched(t, k, item, id) \subseteq Op
         /\ \A o \in Dispatched(t, k, item, id) : o.kind = "broadcast" => o.status \in FinalStatuses
BY DEF Dispatched, BroadcastVia, AckVia, Op, Item, Bodies, FinalStatuses, Statuses

-----------------------------------------------------------------------------
(* One activation changes at a time; the others keep their type.           *)
LEMMA TaskStep ==
  ASSUME TypeInv, NEW t \in Tasks, NEW v \in Task, v.toHandle \subseteq DOMAIN v.batch,
         task' = [task EXCEPT ![t] = v]
  PROVE  task' \in [Tasks -> Task] /\ Held'
<1>1. task \in [Tasks -> Task]
  BY DEF TypeInv, TypeOK
<1>2. \A u \in Tasks : task'[u] = IF u = t THEN v ELSE task[u]
  BY <1>1
<1>3. QED BY <1>1, <1>2 DEF TypeInv, Held

(* An activation that is over is as if it had never been.                  *)
LEMMA IdleType == Idle \in Task /\ Idle.toHandle \subseteq DOMAIN Idle.batch
<1>1. <<>> \in Batches(Message)
  <2>1. <<>> \in [1..0 -> Message] /\ 0 \in 0..MaxBatch
    BY ConstantsAssumption DEF ConstantsAssumption
  <2>2. QED BY <2>1 DEF Batches
<1>2. Empty \in Partial(1..MaxBatch, Item)
  <2>1. DOMAIN Empty = {} /\ Empty \in [DOMAIN Empty -> Item]
    BY DEF Empty
  <2>2. QED BY <2>1, PartialMember
<1>3. QED BY <1>1, <1>2 DEF Idle, Task, Pcs, Phases

LEMMA Stops ==
  ASSUME TypeInv, NEW t \in Tasks, task' = [task EXCEPT ![t] = Idle]
  PROVE  task' \in [Tasks -> Task] /\ Held'
BY IdleType, TaskStep

(* Moving to another await changes the pc, the phase and the counters only.*)
LEMMA MovesOn ==
  ASSUME TypeInv, NEW t \in Tasks, NEW pc \in Pcs, NEW phase \in Phases, NEW n \in Nat,
         NEW aliased \in BOOLEAN, NEW rejected \in BOOLEAN,
         task' = [task EXCEPT ![t] =
           [task[t] EXCEPT !.pc = pc, !.phase = phase, !.n = n,
                           !.aliased = aliased, !.rejected = rejected]]
  PROVE  task' \in [Tasks -> Task] /\ Held'
<1> DEFINE v == [task[t] EXCEPT !.pc = pc, !.phase = phase, !.n = n,
                                !.aliased = aliased, !.rejected = rejected]
<1>1. task[t] \in Task /\ task[t].toHandle \subseteq DOMAIN task[t].batch
  BY DEF TypeInv, TypeOK, Held
<1>2. v \in Task
  BY <1>1 DEF Task
<1>3. v.toHandle \subseteq DOMAIN v.batch
  BY <1>1 DEF Task
<1>4. task' = [task EXCEPT ![t] = v]
  OBVIOUS
<1> HIDE DEF v
<1>5. QED BY <1>2, <1>3, <1>4, TaskStep

(* An item still to do is an item at a position of the batch.              *)
LEMMA TodoType ==
  ASSUME TypeOK, NEW t \in Tasks
  PROVE  /\ DOMAIN task[t].todo \subseteq 1..MaxBatch
         /\ \A k \in DOMAIN task[t].todo : task[t].todo[k] \in Item
<1> DEFINE todo == task[t].todo
<1>1. todo \in Partial(1..MaxBatch, Item)
  BY DEF TypeOK, Task
<1> HIDE DEF todo
<1>2. DOMAIN todo \subseteq 1..MaxBatch /\ todo \in [DOMAIN todo -> Item]
  BY <1>1, PartialMember
<1>3. \A k \in DOMAIN todo : todo[k] \in Item
  BY <1>2
<1>4. QED BY <1>2, <1>3 DEF todo

(* The bookkeeping after an item: it leaves todo, its requests fly, and    *)
(* the counter grows by at most two.                                       *)
LEMMA ItemDoneType ==
  ASSUME TypeInv, NEW t \in Tasks, NEW k \in 1..MaxBatch, NEW new,
         new \subseteq Op,
         \A o \in new : o.kind = "broadcast" => o.status \in FinalStatuses,
         ItemDone(t, k, new)
  PROVE  task' \in [Tasks -> Task] /\ Held' /\ ops' \subseteq Op /\ Sent'
<1> DEFINE n == task[t].n + Pushed(t, new)
           pc == IF n >= BROADCAST_BATCH_SIZE THEN "flush" ELSE "loop"
           todo == Restrict(task[t].todo, DOMAIN task[t].todo \ {k})
           v == [task[t] EXCEPT !.todo = todo, !.n = n, !.pc = pc]
<1>1. task[t] \in Task /\ task[t].toHandle \subseteq DOMAIN task[t].batch
  BY DEF TypeInv, TypeOK, Held
<1>2. n \in Nat
  BY <1>1 DEF Task, Pushed
<1>3. todo \in Partial(1..MaxBatch, Item)
  <2>1. todo \in [DOMAIN task[t].todo \ {k} -> Item]
    BY TodoType DEF Restrict, TypeInv
  <2>2. QED BY <2>1, TodoType, PartialMember DEF TypeInv
<1>4. pc \in Pcs
  BY DEF Pcs
<1>5. task' = [task EXCEPT ![t] = v] /\ ops' = ops \cup new
  BY <1>1 DEF ItemDone, TypeInv, TypeOK
<1> HIDE DEF n, pc, todo
<1>6. v \in Task /\ v.toHandle \subseteq DOMAIN v.batch
  BY <1>1, <1>2, <1>3, <1>4 DEF Task
<1> HIDE DEF v
<1>7. task' \in [Tasks -> Task] /\ Held'
  BY <1>5, <1>6, TaskStep
<1>8. ops' \subseteq Op /\ Sent'
  BY <1>5 DEF TypeInv, TypeOK, Sent
<1>9. QED BY <1>7, <1>8

-----------------------------------------------------------------------------
(* updateStatus keeps the types.                                           *)
LEMMA UpdateStatusType ==
  ASSUME TypeInv, NEW t \in Tasks,
         \/ \E k \in 1..MaxBatch : UpdateNew(t, k) \/ UpdateCached(t, k) \/ Added(t, k)
         \/ EndOfItems(t) \/ Flushed(t) \/ Updated(t) \/ Throw(t)
  PROVE  TypeInv'
<1>0. task[t] \in Task /\ TypeOK
  BY DEF TypeInv, TypeOK
<1>fields. /\ task[t].phase \in Phases /\ task[t].n \in Nat
       /\ task[t].aliased \in BOOLEAN /\ task[t].rejected \in BOOLEAN
  BY <1>0 DEF Task
<1>1. ASSUME NEW k \in 1..MaxBatch, UpdateNew(t, k) PROVE TypeInv'
  <2>1. task[t].todo[k] \in Item
    BY <1>0, <1>1, TodoType DEF UpdateNew, IsNext
  <2>2. msgCache' \in Partial(Requests, Entry) /\ msgCacheOrder' \in Seq(Requests)
    BY <1>0, <1>1, <2>1, AddType DEF UpdateNew
  <2>3. task' = [task EXCEPT ![t] = [task[t] EXCEPT !.pc = "added", !.phase = task[t].phase,
          !.n = task[t].n, !.aliased = task[t].aliased, !.rejected = task[t].rejected]]
    BY <1>0, <1>1 DEF UpdateNew, Task
  <2>4. task' \in [Tasks -> Task] /\ Held'
    <3>1. "added" \in Pcs BY DEF Pcs
    <3>2. QED BY <1>fields, <2>3, <3>1, MovesOn
  <2>5. QED
    BY <1>1, <2>2, <2>4 DEF UpdateNew, TypeInv, TypeOK, Sent
<1>2. ASSUME NEW k \in 1..MaxBatch, UpdateCached(t, k) PROVE TypeInv'
  <2> DEFINE item == task[t].todo[k]
             id == NewMsgId(item, item.req)
  <2>1. item \in Item /\ item.req \in DOMAIN msgCache
    BY <1>0, <1>2, TodoType DEF UpdateCached, IsNext, IsCached
  <2>2. id \in MsgIds \cup {NoMsgId}
    BY <1>0, <2>1, NewMsgIdType
  <2>3. UpdateMsgId(item) /\ ItemDone(t, k, Dispatched(t, k, item, id))
    BY <1>2 DEF UpdateCached
  <2> HIDE DEF id, item
  <2>4. task' \in [Tasks -> Task] /\ Held' /\ ops' \subseteq Op /\ Sent'
    BY <2>1, <2>2, <2>3, DispatchedType, ItemDoneType
  <2>5. msgCache' \in Partial(Requests, Entry) /\ msgCacheOrder' \in Seq(Requests)
    BY <1>0, <2>1, <2>3, UpdateType
  <2>6. QED
    BY <1>2, <2>4, <2>5 DEF UpdateCached, TypeInv, TypeOK
<1>3. ASSUME NEW k \in 1..MaxBatch, Added(t, k) PROVE TypeInv'
  <2> DEFINE item == task[t].todo[k]
             id == msgCache[item.req].msgId
             new == IF IsCached(item.req) THEN Dispatched(t, k, item, id) ELSE {}
  <2>1. item \in Item
    BY <1>0, <1>3, TodoType DEF Added, IsNext
  <2>2. ASSUME IsCached(item.req) PROVE id \in MsgIds \cup {NoMsgId}
    <3>1. msgCache \in [DOMAIN msgCache -> Entry]
      BY <1>0, PartialMember DEF TypeOK
    <3>2. QED BY <2>2, <3>1 DEF IsCached, Entry
  <2>3. ItemDone(t, k, new)
    BY <1>3 DEF Added
  <2> HIDE DEF id, item
  <2>4. new \subseteq Op /\ \A o \in new : o.kind = "broadcast" => o.status \in FinalStatuses
    BY <2>1, <2>2, DispatchedType
  <2> HIDE DEF new
  <2>5. task' \in [Tasks -> Task] /\ Held' /\ ops' \subseteq Op /\ Sent'
    BY <2>3, <2>4, ItemDoneType
  <2>6. QED
    BY <1>3, <2>5 DEF Added, TypeInv, TypeOK
<1>4. ASSUME EndOfItems(t) \/ Flushed(t) PROVE TypeInv'
  <2>1. PICK pc \in Pcs, n \in Nat, aliased \in BOOLEAN :
          task' = [task EXCEPT ![t] = [task[t] EXCEPT !.pc = pc, !.phase = task[t].phase,
            !.n = n, !.aliased = aliased, !.rejected = task[t].rejected]]
    <3>1. CASE EndOfItems(t)
      <4>1. task' = [task EXCEPT ![t] = [task[t] EXCEPT !.pc = "final", !.phase = task[t].phase,
              !.n = task[t].n, !.aliased = task[t].aliased, !.rejected = task[t].rejected]]
        BY <1>0, <3>1 DEF EndOfItems, Task
      <4>2. QED BY <1>0, <4>1 DEF Task, Pcs
    <3>2. CASE Flushed(t)
      <4>1. task' = [task EXCEPT ![t] = [task[t] EXCEPT !.pc = "loop", !.phase = task[t].phase,
              !.n = 0, !.aliased = TRUE, !.rejected = task[t].rejected]]
        BY <1>0, <3>2 DEF Flushed, Task
      <4>2. QED BY <1>0, <4>1 DEF Task, Pcs
    <3>3. QED BY <1>4, <3>1, <3>2
  <2>2. task' \in [Tasks -> Task] /\ Held'
    BY <1>0, <2>1, MovesOn DEF Task
  <2>3. QED
    BY <1>4, <2>2 DEF EndOfItems, Flushed, TypeInv, TypeOK, Sent
<1>5. ASSUME Updated(t) PROVE TypeInv'
  <2>1. task' \in [Tasks -> Task] /\ Held'
    <3>1. CASE task[t].phase = "pulled"
      <4>1. task' = [task EXCEPT ![t] = Idle]
        BY <1>5, <3>1, <1>0 DEF Updated, TypeInv, TypeOK
      <4>2. QED BY <4>1, Stops
    <3>2. CASE task[t].phase # "pulled"
      <4>1. task' = [task EXCEPT ![t] = [task[t] EXCEPT !.pc = "next", !.phase = task[t].phase,
              !.n = 0, !.aliased = FALSE, !.rejected = task[t].rejected]]
        BY <1>0, <1>5, <3>2 DEF Updated, Task, TypeInv, TypeOK
      <4>2. "next" \in Pcs BY DEF Pcs
      <4>3. QED BY <1>fields, <4>1, <4>2, MovesOn
    <3>3. QED BY <3>1, <3>2
  <2>2. QED
    BY <1>5, <2>1 DEF Updated, TypeInv, TypeOK, Sent
<1>6. ASSUME Throw(t) PROVE TypeInv'
  <2>1. task' \in [Tasks -> Task] /\ Held'
    BY <1>6, Stops DEF Throw
  <2>2. QED
    BY <1>6, <2>1 DEF Throw, TypeInv, TypeOK, Sent
<1>7. QED
  BY <1>1, <1>2, <1>3, <1>4, <1>5, <1>6

-----------------------------------------------------------------------------
(* Handlers and polls keep the types.                                      *)

LEMMA PositionsType ==
  ASSUME TypeOK, NEW t \in Tasks, NEW S
  PROVE  /\ Positions(t, S) \subseteq DOMAIN task[t].batch
         /\ DOMAIN task[t].batch \subseteq 1..MaxBatch
         /\ \A k \in DOMAIN task[t].batch : task[t].batch[k] \in Message
<1> DEFINE batch == task[t].batch
<1>1. batch \in Batches(Message)
  BY DEF TypeOK, Task
<1>2. Positions(t, S) \subseteq DOMAIN batch
  BY DEF Positions
<1> HIDE DEF batch
<1>3. DOMAIN batch \subseteq 1..MaxBatch /\ batch \in [DOMAIN batch -> Message]
  BY <1>1, BatchMember
<1>4. \A k \in DOMAIN batch : batch[k] \in Message
  BY <1>3
<1>5. QED BY <1>2, <1>3, <1>4 DEF batch

(* A classified batch: cached messages become items, known ones are kept.  *)
LEMMA ClassifyType ==
  ASSUME TypeInv, NEW t \in Tasks
  PROVE  Classify(t) \in Task /\ Classify(t).toHandle \subseteq DOMAIN Classify(t).batch
<1> DEFINE cached == Positions(t, DOMAIN msgCache)
           toHandle == Positions(t, Requests) \ cached
           todo == [k \in cached |-> CachedItem(task[t].batch[k])]
           pc == IF cached = {} THEN "next" ELSE "loop"
<1>0. task[t] \in Task /\ TypeOK
  BY DEF TypeInv, TypeOK
<1>1. cached \subseteq 1..MaxBatch /\ toHandle \subseteq 1..MaxBatch
      /\ toHandle \subseteq DOMAIN task[t].batch
  BY <1>0, PositionsType
<1>2. \A k \in cached : CachedItem(task[t].batch[k]) \in Item
  <2> TAKE k \in cached
  <2>1. task[t].batch[k] \in Message /\ task[t].batch[k].body \in DOMAIN msgCache
    BY <1>0, PositionsType DEF Positions
  <2>2. DOMAIN msgCache \subseteq Requests /\ msgCache \in [DOMAIN msgCache -> Entry]
    BY <1>0, PartialMember DEF TypeOK
  <2>3. QED BY <2>1, <2>2 DEF CachedItem, Message, Entry, Item
<1>3. todo \in Partial(1..MaxBatch, Item)
  <2>1. todo \in [cached -> Item] BY <1>2
  <2>2. QED BY <1>1, <2>1, PartialMember
<1>4. pc \in Pcs /\ "cached" \in Phases
  BY DEF Pcs, Phases
<1>5. Classify(t) = [task[t] EXCEPT !.phase = "cached", !.toHandle = toHandle,
                                    !.todo = todo, !.pc = pc]
  BY DEF Classify
<1> HIDE DEF cached, toHandle, todo, pc
<1>6. QED BY <1>0, <1>1, <1>3, <1>4, <1>5 DEF Task

(* A report is matched with a message of the batch (lines 145-160).        *)
LEMMA SignedItemsType ==
  ASSUME TypeInv, NEW t \in Tasks, NEW resp \in Batches(Report)
  PROVE  SignedItems(t, resp) \in Partial(1..MaxBatch, Item)
<1> DEFINE batch == task[t].batch
           matched == {k \in DOMAIN resp : \E j \in task[t].toHandle : batch[j].body = resp[k].req}
<1>0. task[t] \in Task /\ TypeOK
  BY DEF TypeInv, TypeOK
<1>1. DOMAIN resp \subseteq 1..MaxBatch /\ resp \in [DOMAIN resp -> Report]
  BY BatchMember
<1>2. ASSUME NEW k \in matched
      PROVE  batch[FirstOf(t, resp[k].req)] \in Message
  <2> DEFINE P == {j \in task[t].toHandle : batch[j].body = resp[k].req}
  <2>1. P \in SUBSET Nat /\ P # {}
    BY <1>0 DEF Task
  <2>2. PICK j \in P : \A i \in P : j <= i
    <3> HIDE DEF P
    <3>1. QED BY <2>1, FirstPosition
  <2>3. FirstOf(t, resp[k].req) \in task[t].toHandle
    BY <2>2 DEF FirstOf
  <2>4. FirstOf(t, resp[k].req) \in DOMAIN batch
    BY <2>3 DEF TypeInv, Held
  <2>5. QED BY <1>0, <2>4, PositionsType
<1>3. \A k \in matched : [msgId |-> batch[FirstOf(t, resp[k].req)].msgId,
                          req |-> resp[k].req, status |-> resp[k].status] \in Item
  BY <1>1, <1>2 DEF Message, Report, Item
<1>4. SignedItems(t, resp) \in [matched -> Item]
  BY <1>3 DEF SignedItems
<1>5. QED BY <1>1, <1>4, PartialMember

LEMMA PulledItemsType ==
  ASSUME TypeInv, NEW t \in Tasks, NEW resp \in Batches(Report)
  PROVE  PulledItems(t, resp) \in Partial(1..MaxBatch, Item)
<1> DEFINE known == {k \in DOMAIN resp : resp[k].req \in task[t].asked}
<1>1. DOMAIN resp \subseteq 1..MaxBatch /\ resp \in [DOMAIN resp -> Report]
  BY BatchMember
<1>2. \A k \in known : [msgId |-> NoMsgId, req |-> resp[k].req, status |-> resp[k].status] \in Item
  BY <1>1 DEF Report, Item
<1>3. PulledItems(t, resp) \in [known -> Item]
  BY <1>2 DEF PulledItems
<1>4. QED BY <1>1, <1>3, PartialMember

LEMMA HandlerType ==
  ASSUME TypeInv, NEW t \in Tasks,
         \/ \E batch \in Batches(Message) : ReceiveMessages(t, batch)
         \/ CertificatesReady(t) \/ CertificatesFail(t) \/ MessagesToSign(t)
         \/ \E resp \in Batches(Report) : SignResponse(t, resp)
         \/ SignFails(t) \/ AckUnknown(t) \/ AckInvalid(t) \/ Discarded(t) \/ HandlerEnds(t)
  PROVE  TypeInv'
<1>0. task[t] \in Task /\ TypeOK
  BY DEF TypeInv, TypeOK
<1>fields. /\ task[t].phase \in Phases /\ task[t].n \in Nat
           /\ task[t].aliased \in BOOLEAN /\ task[t].rejected \in BOOLEAN
  BY <1>0 DEF Task
<1>1. ASSUME NEW batch \in Batches(Message), ReceiveMessages(t, batch) PROVE TypeInv'
  <2> DEFINE v == [Idle EXCEPT !.pc = "certs", !.batch = batch]
  <2>1. v \in Task /\ v.toHandle \subseteq DOMAIN v.batch
    BY IdleType DEF Idle, Task, Pcs
  <2>2. task' = [task EXCEPT ![t] = v]
    BY <1>1 DEF ReceiveMessages
  <2> HIDE DEF v
  <2>3. task' \in [Tasks -> Task] /\ Held'
    BY <2>1, <2>2, TaskStep
  <2>4. QED BY <1>1, <2>3 DEF ReceiveMessages, TypeInv, TypeOK, Sent
<1>2. ASSUME CertificatesReady(t) PROVE TypeInv'
  <2>1. task' \in [Tasks -> Task] /\ Held'
    BY <1>2, ClassifyType, TaskStep DEF CertificatesReady
  <2>2. QED BY <1>2, <2>1 DEF CertificatesReady, TypeInv, TypeOK, Sent
<1>3. ASSUME CertificatesFail(t) \/ SignFails(t) \/ HandlerEnds(t) PROVE TypeInv'
  <2>1. task' \in [Tasks -> Task] /\ Held'
    BY <1>3, Stops DEF CertificatesFail, SignFails, HandlerEnds
  <2>2. QED BY <1>3, <2>1 DEF CertificatesFail, SignFails, HandlerEnds, TypeInv, TypeOK, Sent
<1>4. ASSUME MessagesToSign(t) PROVE TypeInv'
  <2> DEFINE pc == IF task[t].toHandle # {} THEN "sign" ELSE "next"
  <2>1. task' = [task EXCEPT ![t] = [task[t] EXCEPT !.pc = pc, !.phase = "signed",
          !.n = task[t].n, !.aliased = task[t].aliased, !.rejected = task[t].rejected]]
    BY <1>0, <1>4 DEF MessagesToSign, Task, TypeInv, TypeOK
  <2>2. pc \in Pcs /\ "signed" \in Phases BY DEF Pcs, Phases
  <2> HIDE DEF pc
  <2>3. task' \in [Tasks -> Task] /\ Held' BY <1>fields, <2>1, <2>2, MovesOn
  <2>4. QED BY <1>4, <2>3 DEF MessagesToSign, TypeInv, TypeOK, Sent
<1>5. ASSUME NEW resp \in Batches(Report), SignResponse(t, resp) PROVE TypeInv'
  <2> DEFINE v == [task[t] EXCEPT !.pc = "loop", !.todo = SignedItems(t, resp)]
  <2>1. v \in Task /\ v.toHandle \subseteq DOMAIN v.batch
    BY <1>0, SignedItemsType DEF Task, Pcs, TypeInv, Held
  <2>2. task' = [task EXCEPT ![t] = v]
    BY <1>0, <1>5 DEF SignResponse, TypeInv, TypeOK
  <2> HIDE DEF v
  <2>3. task' \in [Tasks -> Task] /\ Held' BY <2>1, <2>2, TaskStep
  <2>4. QED BY <1>5, <2>3 DEF SignResponse, TypeInv, TypeOK, Sent
<1>6. ASSUME NEW from, NEW to \in Phases, NEW S, AckMessages(t, from, to, S) PROVE TypeInv'
  <2> DEFINE ks == Positions(t, S)
             new == {AckVia(t, k, "discard", task[t].batch[k].body, task[t].batch[k].msgId) : k \in ks}
             pc == IF ks = {} THEN "next" ELSE "discard"
  <2>1. task' = [task EXCEPT ![t] = [task[t] EXCEPT !.pc = pc, !.phase = to,
          !.n = task[t].n, !.aliased = task[t].aliased, !.rejected = task[t].rejected]]
    BY <1>0, <1>6 DEF AckMessages, Task, TypeInv, TypeOK
  <2>2. pc \in Pcs BY DEF Pcs
  <2>3. \A k \in ks : k \in 1..MaxBatch /\ task[t].batch[k] \in Message
    BY <1>0, PositionsType
  <2>4. new \subseteq Op /\ \A o \in new : o.kind # "broadcast"
    BY <2>3 DEF AckVia, Op, Message
  <2>5. ops' = ops \cup new
    BY <1>6 DEF AckMessages
  <2> HIDE DEF pc, new
  <2>6. task' \in [Tasks -> Task] /\ Held' BY <1>fields, <2>1, <2>2, MovesOn
  <2>7. ops' \subseteq Op /\ Sent' BY <2>4, <2>5 DEF TypeInv, TypeOK, Sent
  <2>8. QED BY <1>6, <2>6, <2>7 DEF AckMessages, TypeInv, TypeOK
<1>7. ASSUME AckUnknown(t) \/ AckInvalid(t) PROVE TypeInv'
  <2>1. "unknown" \in Phases /\ "invalid" \in Phases BY DEF Phases
  <2>2. QED BY <1>6, <1>7, <2>1 DEF AckUnknown, AckInvalid
<1>8. ASSUME Discarded(t) PROVE TypeInv'
  <2>1. task' = [task EXCEPT ![t] = [task[t] EXCEPT !.pc = "next", !.phase = task[t].phase,
          !.n = task[t].n, !.aliased = task[t].aliased, !.rejected = task[t].rejected]]
    BY <1>0, <1>8 DEF Discarded, Task, TypeInv, TypeOK
  <2>2. "next" \in Pcs BY DEF Pcs
  <2>3. task' \in [Tasks -> Task] /\ Held' BY <1>fields, <2>1, <2>2, MovesOn
  <2>4. QED BY <1>8, <2>3 DEF Discarded, TypeInv, TypeOK, Sent
<1>9. QED
  BY <1>1, <1>2, <1>3, <1>4, <1>5, <1>7, <1>8

LEMMA PollType ==
  ASSUME TypeInv, NEW t \in Tasks,
         \/ PullMessagesStatus(t) \/ PullFails(t)
         \/ \E resp \in Batches(Report) : PullResponse(t, resp)
  PROVE  TypeInv'
<1>0. task[t] \in Task /\ TypeOK
  BY DEF TypeInv, TypeOK
<1>1. ASSUME PullMessagesStatus(t) PROVE TypeInv'
  <2> DEFINE v == [Idle EXCEPT !.pc = "status", !.phase = "pulled", !.asked = Pending]
  <2>1. Pending \subseteq Requests
    BY <1>0, PartialMember DEF Pending, TypeOK
  <2>2. v \in Task /\ v.toHandle \subseteq DOMAIN v.batch
    BY <2>1, IdleType DEF Idle, Task, Pcs, Phases
  <2>3. task' = [task EXCEPT ![t] = v]
    BY <1>1 DEF PullMessagesStatus
  <2> HIDE DEF v
  <2>4. task' \in [Tasks -> Task] /\ Held' BY <2>2, <2>3, TaskStep
  <2>5. QED BY <1>1, <2>4 DEF PullMessagesStatus, TypeInv, TypeOK, Sent
<1>2. ASSUME PullFails(t) PROVE TypeInv'
  <2>1. task' \in [Tasks -> Task] /\ Held' BY <1>2, Stops DEF PullFails
  <2>2. QED BY <1>2, <2>1 DEF PullFails, TypeInv, TypeOK, Sent
<1>3. ASSUME NEW resp \in Batches(Report), PullResponse(t, resp) PROVE TypeInv'
  <2> DEFINE v == [task[t] EXCEPT !.todo = PulledItems(t, resp), !.pc = "loop"]
  <2>1. v \in Task /\ v.toHandle \subseteq DOMAIN v.batch
    BY <1>0, PulledItemsType DEF Task, Pcs, TypeInv, Held
  <2>2. task' = [task EXCEPT ![t] = v]
    BY <1>0, <1>3 DEF PullResponse, TypeInv, TypeOK
  <2> HIDE DEF v
  <2>3. task' \in [Tasks -> Task] /\ Held' BY <2>1, <2>2, TaskStep
  <2>4. QED BY <1>3, <2>3 DEF PullResponse, TypeInv, TypeOK, Sent
<1>4. QED BY <1>1, <1>2, <1>3

(* Settling a request keeps the types: what a broadcast stores is final.   *)
LEMMA SettleType ==
  ASSUME TypeInv, NEW o \in ops, Settle(o)
  PROVE  TypeInv'
<1>0. o \in Op /\ TypeOK
  BY DEF TypeInv, TypeOK
<1>1. ASSUME BroadcastDone(o) PROVE TypeInv'
  <2>1. DOMAIN msgCache \subseteq Requests /\ msgCache \in [DOMAIN msgCache -> Entry]
    BY <1>0, PartialMember DEF TypeOK
  <2>2. o.status \in Statuses
    BY <1>1 DEF BroadcastDone, TypeInv, Sent, FinalStatuses, Statuses
  <2>3. msgCache' \in [DOMAIN msgCache -> Entry]
    BY <1>1, <2>1, <2>2 DEF BroadcastDone, IsCached, Entry
  <2>4. msgCache' \in Partial(Requests, Entry)
    BY <2>1, <2>3, PartialMember
  <2>5. QED BY <1>1, <2>4 DEF BroadcastDone, TypeInv, TypeOK, Held, Sent
<1>2. ASSUME AckDone(o) PROVE TypeInv'
  <2>1. msgCache' \in Partial(Requests, Entry) /\ msgCacheOrder' \in Seq(Requests)
    BY <1>0, <1>2, DeleteType DEF AckDone
  <2>2. QED BY <1>2, <2>1 DEF AckDone, TypeInv, TypeOK, Held, Sent
<1>3. ASSUME DiscardSettled(o) PROVE TypeInv'
  BY <1>3 DEF DiscardSettled, TypeInv, TypeOK, Held, Sent
<1>4. ASSUME OpFails(o) PROVE TypeInv'
  <2> DEFINE t == o.task
             rejected == task[t].rejected \/ task[t].pc # "free"
  <2>1. t \in Tasks
    BY <1>0 DEF Op
  <2>2. task[t] \in Task
    BY <2>1 DEF TypeInv, TypeOK
  <2>3. task' = [task EXCEPT ![t] = [task[t] EXCEPT !.pc = task[t].pc, !.phase = task[t].phase,
          !.n = task[t].n, !.aliased = task[t].aliased, !.rejected = rejected]]
    BY <1>4, <2>1, <2>2 DEF OpFails, Task, TypeInv, TypeOK
  <2>4. /\ task[t].pc \in Pcs /\ task[t].phase \in Phases /\ task[t].n \in Nat
        /\ task[t].aliased \in BOOLEAN /\ rejected \in BOOLEAN
    BY <2>2 DEF Task
  <2> HIDE DEF rejected, t
  <2>5. task' \in [Tasks -> Task] /\ Held' BY <2>1, <2>3, <2>4, MovesOn
  <2>6. QED BY <1>4, <2>5 DEF OpFails, TypeInv, TypeOK, Sent
<1>5. QED
  BY <1>1, <1>2, <1>3, <1>4 DEF Settle

LEMMA TypeInit == Init => TypeInv
<1> SUFFICES ASSUME Init PROVE TypeInv
  OBVIOUS
<1>1. msgCache \in Partial(Requests, Entry)
  <2>1. DOMAIN Empty = {} /\ Empty \in [DOMAIN Empty -> Entry] BY DEF Empty
  <2>2. QED BY <2>1, PartialMember DEF Init
<1>2. task \in [Tasks -> Task] /\ Held
  BY IdleType DEF Init, Held
<1>3. msgCacheOrder \in Seq(Requests)
  BY EmptySeq DEF Init
<1>4. certificates \in BOOLEAN /\ connected \in BOOLEAN
  BY DEF Init
<1>5. ops \subseteq Op /\ Sent
  BY DEF Init, Sent
<1>6. QED
  BY <1>1, <1>2, <1>3, <1>4, <1>5 DEF TypeInv, TypeOK

LEMMA TypeStep == TypeInv /\ [Next]_vars => TypeInv'
<1> SUFFICES ASSUME TypeInv, [Next]_vars PROVE TypeInv'
  OBVIOUS
<1>1. ASSUME NEW t \in Tasks, NEW batch \in Batches(Message), ReceiveMessages(t, batch)
      PROVE  TypeInv'
  BY <1>1, HandlerType
<1>2. ASSUME NEW t \in Tasks, PullMessagesStatus(t) PROVE TypeInv'
  BY <1>2, PollType
<1>3. ASSUME NEW t \in Tasks, Answer(t) PROVE TypeInv'
  BY <1>3, HandlerType, PollType DEF Answer
<1>4. ASSUME NEW t \in Tasks, Internal(t) PROVE TypeInv'
  BY <1>4, HandlerType, UpdateStatusType DEF Internal
<1>5. ASSUME NEW o \in ops, Settle(o) PROVE TypeInv'
  BY <1>5, SettleType
<1>6. CASE ConnectionChanges
  BY <1>6 DEF ConnectionChanges, TypeInv, TypeOK, Held, Sent
<1>7. CASE UNCHANGED vars
  BY <1>7 DEF vars, TypeInv, TypeOK, Held, Sent
<1>8. QED
  BY <1>1, <1>2, <1>3, <1>4, <1>5, <1>6, <1>7 DEF Next

(* Every variable of the message service has its type.                     *)
THEOREM TypeCorrect == Spec => []TypeOK
<1>1. TypeInv => TypeOK BY DEF TypeInv
<1>2. QED BY TypeInit, TypeStep, <1>1, PTL DEF Spec

-----------------------------------------------------------------------------
(* The two halves of the cache.                                            *)

Holds(s, x) == \E i \in DOMAIN s : s[i] = x

(* Without removes every trace of the element from a sequence without      *)
(* repetition, and leaves the others in it, once each.                     *)
LEMMA WithoutRemoves ==
  ASSUME NEW S, NEW s \in Seq(S), NEW x, IsInjective(s)
  PROVE  /\ IsInjective(Without(s, x))
         /\ \A y : Holds(Without(s, x), y) <=> Holds(s, y) /\ y # x
<1>1. CASE Holds(s, x)
  <2> DEFINE n == Len(s)
             i == CHOOSE j \in DOMAIN s : s[j] = x
             w == [j \in 1..(n - 1) |-> IF j < i THEN s[j] ELSE s[j + 1]]
  <2>1. Without(s, x) = w
    BY <1>1 DEF Without, Holds
  <2>2. n \in Nat /\ DOMAIN s = 1..n
    BY LenProperties
  <2>3. i \in 1..n /\ s[i] = x
    BY <1>1, <2>2 DEF Holds
  <2>4. \A j, k \in 1..n : s[j] = s[k] => j = k
    BY <2>2 DEF IsInjective
  <2> HIDE DEF i, n
  <2>5. \A j, k \in 1..(n - 1) : w[j] = w[k] => j = k
    BY <2>2, <2>3, <2>4
  <2>6. \A j \in 1..(n - 1) : \E k \in 1..n : w[j] = s[k] /\ s[k] # x
    BY <2>2, <2>3, <2>4
  <2>7. \A k \in 1..n : s[k] # x => \E j \in 1..(n - 1) : w[j] = s[k]
    <3> TAKE k \in 1..n
    <3> HAVE s[k] # x
    <3>1. CASE k < i
      BY <2>2, <2>3, <3>1
    <3>2. CASE k > i
      <4>1. k - 1 \in 1..(n - 1) /\ w[k - 1] = s[k]
        BY <2>2, <2>3, <3>2
      <4>2. QED BY <4>1
    <3>3. QED BY <2>2, <2>3, <3>1, <3>2
  <2>8. DOMAIN w = 1..(n - 1)
    OBVIOUS
  <2> HIDE DEF w
  <2>9. IsInjective(w)
    BY <2>5, <2>8 DEF IsInjective
  <2>10. \A y : Holds(w, y) <=> Holds(s, y) /\ y # x
    BY <2>2, <2>6, <2>7, <2>8 DEF Holds
  <2>11. QED BY <2>1, <2>9, <2>10
<1>2. CASE ~Holds(s, x)
  BY <1>2 DEF Without, Holds
<1>3. QED BY <1>1, <1>2

LEMMA AppendOnce ==
  ASSUME NEW S, NEW s \in Seq(S), NEW x \in S, IsInjective(s), ~Holds(s, x)
  PROVE  /\ IsInjective(Append(s, x))
         /\ \A y : Holds(Append(s, x), y) <=> Holds(s, y) \/ y = x
         /\ Len(Append(s, x)) = Len(s) + 1
<1>1. Len(s) \in Nat /\ DOMAIN s = 1..Len(s)
  BY LenProperties
<1>2. /\ Append(s, x) \in Seq(S) /\ Len(Append(s, x)) = Len(s) + 1
      /\ \A i \in 1..(Len(s) + 1) : Append(s, x)[i] = IF i = Len(s) + 1 THEN x ELSE s[i]
  BY AppendProperties
<1>3. DOMAIN Append(s, x) = 1..(Len(s) + 1)
  BY <1>2, LenProperties
<1>4. IsInjective(Append(s, x))
  BY <1>1, <1>2, <1>3 DEF IsInjective, Holds
<1>5. \A y : Holds(Append(s, x), y) <=> Holds(s, y) \/ y = x
  BY <1>1, <1>2, <1>3 DEF Holds
<1>6. QED BY <1>2, <1>4, <1>5

LEMMA TailDropsHead ==
  ASSUME NEW S, NEW s \in Seq(S), s # <<>>, IsInjective(s)
  PROVE  /\ IsInjective(Tail(s))
         /\ \A y : Holds(Tail(s), y) <=> Holds(s, y) /\ y # Head(s)
<1>1. Len(s) \in Nat \ {0} /\ DOMAIN s = 1..Len(s) /\ Head(s) = s[1]
  BY LenProperties, EmptySeq
<1>2. /\ Tail(s) \in Seq(S) /\ Len(Tail(s)) = Len(s) - 1
      /\ \A i \in 1..(Len(s) - 1) : Tail(s)[i] = s[i + 1]
  BY HeadTailProperties
<1>3. DOMAIN Tail(s) = 1..(Len(s) - 1)
  BY <1>2, LenProperties
<1>4. IsInjective(Tail(s))
  BY <1>1, <1>2, <1>3 DEF IsInjective
<1>5. ASSUME NEW y, Holds(s, y), y # Head(s) PROVE Holds(Tail(s), y)
  <2>1. PICK i \in 1..Len(s) : s[i] = y
    BY <1>1, <1>5 DEF Holds
  <2>2. i - 1 \in 1..(Len(s) - 1) /\ Tail(s)[i - 1] = y
    BY <1>1, <1>2, <1>5, <2>1
  <2>3. QED BY <1>3, <2>2 DEF Holds
<1>6. ASSUME NEW y, Holds(Tail(s), y) PROVE Holds(s, y) /\ y # Head(s)
  BY <1>1, <1>2, <1>3, <1>6 DEF Holds, IsInjective
<1>7. QED BY <1>4, <1>5, <1>6

-----------------------------------------------------------------------------
(* Eviction, deletion and re-insertion keep the halves alike.              *)

LEMMA AddKeeps ==
  ASSUME TypeOK, CacheConsistent, NEW item \in Item, ~IsCached(item.req), AddMessageToCache(item)
  PROVE  CacheConsistent'
<1> DEFINE full == Len(msgCacheOrder) >= AGENT_REQUESTS_CACHE_SIZE
           kept == IF full THEN DOMAIN msgCache \ {Head(msgCacheOrder)} ELSE DOMAIN msgCache
           order == IF full THEN Tail(msgCacheOrder) ELSE msgCacheOrder
           w == Without(order, item.req)
<1>0. /\ msgCacheOrder \in Seq(Requests) /\ Len(msgCacheOrder) \in Nat
      /\ IsInjective(msgCacheOrder) /\ Len(msgCacheOrder) <= AGENT_REQUESTS_CACHE_SIZE
      /\ \A r \in Requests : r \in DOMAIN msgCache <=> Holds(msgCacheOrder, r)
      /\ item.req \in Requests
      /\ AGENT_REQUESTS_CACHE_SIZE \in Nat \ {0}
  BY LenProperties, ConstantsAssumption
  DEF ConstantsAssumption, TypeOK, CacheConsistent, Item, Holds
<1>1. /\ order \in Seq(Requests) /\ IsInjective(order)
      /\ Len(order) < AGENT_REQUESTS_CACHE_SIZE
      /\ \A r \in Requests : Holds(order, r) <=> r \in kept
  <2>1. CASE full
    <3>1. msgCacheOrder # <<>>
      BY <1>0, <2>1
    <3>2. /\ Tail(msgCacheOrder) \in Seq(Requests)
          /\ Len(Tail(msgCacheOrder)) = Len(msgCacheOrder) - 1
      BY <1>0, <3>1, HeadTailProperties
    <3>3. /\ IsInjective(Tail(msgCacheOrder))
          /\ \A y : Holds(Tail(msgCacheOrder), y) <=> Holds(msgCacheOrder, y) /\ y # Head(msgCacheOrder)
      BY <1>0, <3>1, TailDropsHead
    <3>4. QED BY <1>0, <2>1, <3>2, <3>3
  <2>2. CASE ~full
    BY <1>0, <2>2
  <2>3. QED BY <2>1, <2>2
<1>2. /\ msgCacheOrder' = Append(w, item.req)
      /\ DOMAIN msgCache' = kept \cup {item.req}
  BY DEF AddMessageToCache
<1> HIDE DEF order, kept
<1>3. /\ w \in Seq(Requests) /\ Len(w) <= Len(order) /\ IsInjective(w)
      /\ \A y : Holds(w, y) <=> Holds(order, y) /\ y # item.req
  BY <1>1, WithoutType, WithoutRemoves
<1> HIDE DEF w
<1>4. /\ IsInjective(msgCacheOrder') /\ Len(msgCacheOrder') = Len(w) + 1
      /\ \A y : Holds(msgCacheOrder', y) <=> Holds(w, y) \/ y = item.req
  BY <1>0, <1>2, <1>3, AppendOnce
<1>5. Len(msgCacheOrder') <= AGENT_REQUESTS_CACHE_SIZE
  <2>1. Len(w) \in Nat /\ Len(order) \in Nat
    BY <1>1, <1>3, LenProperties
  <2>2. QED BY <1>0, <1>1, <1>3, <1>4, <2>1
<1>6. \A r \in Requests : r \in DOMAIN msgCache' <=> Holds(msgCacheOrder', r)
  BY <1>1, <1>2, <1>3, <1>4
<1>7. QED
  BY <1>4, <1>5, <1>6 DEF CacheConsistent, Holds

LEMMA DeleteKeeps ==
  ASSUME TypeOK, CacheConsistent, NEW r, DeleteMessageFromCache(r)
  PROVE  CacheConsistent'
<1>1. /\ msgCacheOrder \in Seq(Requests) /\ Len(msgCacheOrder) \in Nat
      /\ IsInjective(msgCacheOrder) /\ Len(msgCacheOrder) <= AGENT_REQUESTS_CACHE_SIZE
      /\ \A q \in Requests : q \in DOMAIN msgCache <=> Holds(msgCacheOrder, q)
      /\ AGENT_REQUESTS_CACHE_SIZE \in Nat
  BY LenProperties, ConstantsAssumption DEF ConstantsAssumption, TypeOK, CacheConsistent, Holds
<1>2. msgCacheOrder' = Without(msgCacheOrder, r) /\ DOMAIN msgCache' = DOMAIN msgCache \ {r}
  BY DEF DeleteMessageFromCache, Restrict
<1>3. /\ IsInjective(msgCacheOrder')
      /\ \A y : Holds(msgCacheOrder', y) <=> Holds(msgCacheOrder, y) /\ y # r
  BY <1>1, <1>2, WithoutRemoves
<1>4. Len(msgCacheOrder') <= AGENT_REQUESTS_CACHE_SIZE
  <2>1. msgCacheOrder' \in Seq(Requests) /\ Len(msgCacheOrder') <= Len(msgCacheOrder)
    BY <1>1, <1>2, WithoutType
  <2>2. Len(msgCacheOrder') \in Nat
    BY <2>1, LenProperties
  <2>3. QED BY <1>1, <2>1, <2>2
<1>5. \A q \in Requests : q \in DOMAIN msgCache' <=> Holds(msgCacheOrder', q)
  BY <1>1, <1>2, <1>3
<1>6. QED
  BY <1>3, <1>4, <1>5 DEF CacheConsistent, Holds

(* A step that leaves the order and the cached requestIds alone.           *)
LEMMA SameKeysKeeps ==
  ASSUME CacheConsistent, DOMAIN msgCache' = DOMAIN msgCache, msgCacheOrder' = msgCacheOrder
  PROVE  CacheConsistent'
BY DEF CacheConsistent

(* Only an insertion that found no entry, and a deletion, change the       *)
(* cached requestIds.                                                      *)
LEMMA CacheStep == TypeInv /\ CacheConsistent /\ [Next]_vars => CacheConsistent'
<1> SUFFICES ASSUME TypeInv, CacheConsistent, [Next]_vars PROVE CacheConsistent'
  OBVIOUS
<1>0. TypeOK
  BY DEF TypeInv
<1>1. ASSUME NEW t \in Tasks, NEW k \in 1..MaxBatch, UpdateNew(t, k) PROVE CacheConsistent'
  <2>1. task[t].todo[k] \in Item
    BY <1>0, <1>1, TodoType DEF UpdateNew, IsNext
  <2>2. QED BY <1>0, <1>1, <2>1, AddKeeps DEF UpdateNew
<1>2. ASSUME NEW t \in Tasks, NEW k \in 1..MaxBatch, UpdateCached(t, k) PROVE CacheConsistent'
  BY <1>2, SameKeysKeeps DEF UpdateCached, UpdateMsgId
<1>3. ASSUME NEW o \in ops, BroadcastDone(o) PROVE CacheConsistent'
  <2>1. DOMAIN msgCache' = DOMAIN msgCache
    BY <1>3 DEF BroadcastDone
  <2>2. QED BY <1>3, <2>1, SameKeysKeeps DEF BroadcastDone
<1>4. ASSUME NEW o \in ops, AckDone(o) PROVE CacheConsistent'
  BY <1>0, <1>4, DeleteKeeps DEF AckDone
<1>5. CASE UNCHANGED <<msgCache, msgCacheOrder>>
  BY <1>5, SameKeysKeeps
<1>6. QED
  BY <1>1, <1>2, <1>3, <1>4, <1>5
  DEF Next, Answer, Internal, Settle, vars, ReceiveMessages, PullMessagesStatus,
      CertificatesReady, CertificatesFail, SignResponse, PullResponse, SignFails, PullFails,
      Added, EndOfItems, Flushed, Updated, Throw, MessagesToSign, AckUnknown, AckInvalid,
      AckMessages, Discarded, HandlerEnds, DiscardSettled, OpFails, ConnectionChanges

(* The two halves of the cache always hold the same requestIds, each once, *)
(* and never more than the cache may hold.                                 *)
THEOREM CacheIsConsistent == Spec => []CacheConsistent
<1>1. Init => CacheConsistent
  <2>1. ASSUME Init PROVE CacheConsistent
    <3>1. DOMAIN msgCache = {} /\ DOMAIN msgCacheOrder = {} /\ Len(msgCacheOrder) = 0
      BY <2>1, EmptySeq, LenProperties DEF Init, Empty
    <3>2. QED
      BY <3>1, ConstantsAssumption DEF ConstantsAssumption, CacheConsistent, IsInjective
  <2>2. QED BY <2>1
<1>2. QED
  BY TypeInit, TypeStep, CacheStep, <1>1, PTL DEF Spec

-----------------------------------------------------------------------------
(* The bound on broadcasts in flight.  n counts at least the broadcasts    *)
(* pushed since the last flush, and a flush waits for all of them, so      *)
(* between flushes n bounds what is in flight.                             *)

InFlight(t) == {o \in OpsOf(t) : o.kind = "broadcast"}

Covered(S, v) ==
  /\ IsFiniteSet(S) /\ Cardinality(S) <= BROADCAST_BATCH_SIZE
  /\ v.pc \in {"loop", "added"} => Cardinality(S) <= v.n /\ v.n < BROADCAST_BATCH_SIZE
  /\ v.pc \in {"certs", "next", "sign", "discard", "status"} => S = {} /\ v.n = 0

BoundInv == \A t \in Tasks : Covered(InFlight(t), task[t])

LEMMA FewerCovered ==
  ASSUME NEW S, NEW T \in SUBSET S, NEW v, v.n \in Nat, Covered(S, v)
  PROVE  Covered(T, v)
<1>1. /\ IsFiniteSet(T) /\ Cardinality(T) <= Cardinality(S)
      /\ Cardinality(T) \in Nat /\ Cardinality(S) \in Nat
  BY FS_Subset, FS_CardinalityType DEF Covered
<1>2. BROADCAST_BATCH_SIZE \in Nat
  BY ConstantsAssumption DEF ConstantsAssumption
<1>3. QED BY <1>1, <1>2 DEF Covered

(* Nothing in flight is covered wherever the counter has been reset.       *)
LEMMA NoneCovered ==
  ASSUME NEW v, v.n = 0
  PROVE  Covered({}, v)
<1>1. IsFiniteSet({}) /\ Cardinality({}) = 0
  BY FS_EmptySet
<1>2. BROADCAST_BATCH_SIZE \in Nat \ {0}
  BY ConstantsAssumption DEF ConstantsAssumption
<1>3. QED BY <1>1, <1>2 DEF Covered

(* One activation changes; the others have no more in flight than before.  *)
LEMMA BoundMoves ==
  ASSUME TypeInv, BoundInv, NEW t \in Tasks, NEW v, task' = [task EXCEPT ![t] = v],
         \A u \in Tasks : u # t => InFlight(u)' \subseteq InFlight(u),
         Covered(InFlight(t)', v)
  PROVE  BoundInv'
<1>1. \A u \in Tasks : task'[u] = IF u = t THEN v ELSE task[u]
  BY DEF TypeInv, TypeOK
<1>2. ASSUME NEW u \in Tasks PROVE Covered(InFlight(u)', task'[u])
  <2>1. CASE u = t
    BY <1>1, <2>1
  <2>2. CASE u # t
    <3>1. task[u].n \in Nat
      BY DEF TypeInv, TypeOK, Task
    <3>2. Covered(InFlight(u)', task[u])
      BY <2>2, <3>1, FewerCovered DEF BoundInv
    <3>3. QED BY <1>1, <2>2, <3>2
  <2>3. QED BY <2>1, <2>2
<1>3. QED BY <1>2 DEF BoundInv, Covered

(* An item that is done adds one broadcast at most, and counts it.         *)
LEMMA ItemDoneBound ==
  ASSUME TypeInv, BoundInv, NEW t \in Tasks, NEW k, NEW item, NEW id, NEW new,
         new = {} \/ new = Dispatched(t, k, item, id),
         task[t].pc \in {"loop", "added"}, ItemDone(t, k, new)
  PROVE  BoundInv'
<1> DEFINE n == task[t].n + Pushed(t, new)
           v == [task[t] EXCEPT !.todo = Restrict(task[t].todo, DOMAIN task[t].todo \ {k}), !.n = n,
                                !.pc = IF n >= BROADCAST_BATCH_SIZE THEN "flush" ELSE "loop"]
           b == BroadcastVia(t, k, item)
<1>0. /\ task[t] \in Task /\ task \in [Tasks -> Task] /\ task[t].n \in Nat
      /\ BROADCAST_BATCH_SIZE \in Nat \ {0}
  BY ConstantsAssumption DEF ConstantsAssumption, TypeInv, TypeOK, Task
<1>1. task' = [task EXCEPT ![t] = v] /\ ops' = ops \cup new
  BY <1>0 DEF ItemDone
<1>2. v.n = n /\ v.pc = IF n >= BROADCAST_BATCH_SIZE THEN "flush" ELSE "loop"
  BY <1>0 DEF Task
<1>3. \A o \in new : o.task = t /\ (o.kind = "ack" \/ o = b)
  BY DEF Dispatched, BroadcastVia, AckVia
<1>4. \A u \in Tasks : u # t => InFlight(u)' \subseteq InFlight(u)
  BY <1>1, <1>3 DEF InFlight, OpsOf
<1>5. InFlight(t)' \subseteq InFlight(t) \cup (IF new = {} THEN {} ELSE {b})
  BY <1>1, <1>3 DEF InFlight, OpsOf
<1>6. Pushed(t, new) \in Nat /\ (new # {} => Pushed(t, new) >= 1)
  BY DEF Pushed
<1>7. Covered(InFlight(t), task[t])
  BY DEF BoundInv
<1> HIDE DEF v, n, b
<1>8. Covered(InFlight(t)', v)
  <2> DEFINE S == InFlight(t) \cup (IF new = {} THEN {} ELSE {b})
  <2>1. /\ IsFiniteSet(InFlight(t)) /\ Cardinality(InFlight(t)) \in Nat
        /\ Cardinality(InFlight(t)) <= task[t].n /\ task[t].n < BROADCAST_BATCH_SIZE
    BY <1>7, FS_CardinalityType DEF Covered
  <2>2. IsFiniteSet(S) /\ Cardinality(S) \in Nat
        /\ Cardinality(S) <= Cardinality(InFlight(t)) + (IF new = {} THEN 0 ELSE 1)
    <3>1. CASE new = {}
      BY <2>1, <3>1
    <3>2. CASE new # {}
      <4>1. S = InFlight(t) \cup {b}
        BY <3>2
      <4>2. IsFiniteSet(S) /\ Cardinality(S) <= Cardinality(InFlight(t)) + 1
        <5> HIDE DEF S
        <5>1. QED BY <2>1, <4>1, FS_AddElement
      <4>3. QED BY <3>2, <4>2, FS_CardinalityType
    <3>3. QED BY <3>1, <3>2
  <2> HIDE DEF S
  <2>3. n \in Nat /\ Cardinality(S) <= n /\ Cardinality(S) <= BROADCAST_BATCH_SIZE
    BY <1>0, <1>6, <2>1, <2>2 DEF n
  <2>4. Covered(S, v)
    BY <1>0, <1>2, <2>2, <2>3 DEF Covered
  <2>5. QED
    BY <1>2, <1>5, <2>3, <2>4, FewerCovered DEF S
<1>9. QED BY <1>1, <1>4, <1>8, BoundMoves

(* Activation t becomes v, and nothing v has to cover has been added.      *)
NoneSent(t, v) ==
  /\ task' = [task EXCEPT ![t] = v]
  /\ \A u \in Tasks : InFlight(u)' \subseteq InFlight(u)
  /\ \/ v.pc \in {"free", "flush", "final"}
     \/ InFlight(t) = {} /\ v.n = 0
     \/ v.n = task[t].n /\ (v.pc = task[t].pc \/ {v.pc, task[t].pc} \subseteq {"loop", "added"})

LEMMA NoneSentBound ==
  ASSUME TypeInv, BoundInv, NEW t \in Tasks, NEW v, NoneSent(t, v)
  PROVE  BoundInv'
<1>1. Covered(InFlight(t), task[t]) /\ task[t].n \in Nat /\ InFlight(t)' \in SUBSET InFlight(t)
  BY DEF BoundInv, TypeInv, TypeOK, Task, NoneSent
<1>2. Covered(InFlight(t)', task[t])
  BY <1>1, FewerCovered
<1>3. Covered(InFlight(t)', v)
  <2>1. CASE v.pc \in {"free", "flush", "final"}
    BY <1>2, <2>1 DEF Covered
  <2>2. CASE InFlight(t) = {} /\ v.n = 0
    <3>1. InFlight(t)' = {}
      BY <1>1, <2>2
    <3>2. QED BY <2>2, <3>1, NoneCovered
  <2>3. CASE v.n = task[t].n /\ (v.pc = task[t].pc \/ {v.pc, task[t].pc} \subseteq {"loop", "added"})
    BY <1>2, <2>3 DEF Covered
  <2>4. QED BY <2>1, <2>2, <2>3 DEF NoneSent
<1>4. QED BY <1>3, BoundMoves DEF NoneSent

(* An activation that waits for anything but broadcasts has none.          *)
LEMMA NoneInFlight ==
  ASSUME TypeInv, BoundInv, NEW t \in Tasks,
         task[t].pc \in {"certs", "next", "sign", "discard", "status"}
  PROVE  InFlight(t) = {} /\ task[t].n = 0
BY DEF BoundInv, Covered

(* handleMessages and the poll: the steps between two updateStatus.        *)
LEMMA HandlerStepBound ==
  ASSUME TypeInv, BoundInv, NEW t \in Tasks,
         \/ \E batch \in Batches(Message) : ReceiveMessages(t, batch)
         \/ PullMessagesStatus(t)
         \/ Answer(t)
         \/ MessagesToSign(t) \/ AckUnknown(t) \/ AckInvalid(t) \/ Discarded(t) \/ HandlerEnds(t)
  PROVE  BoundInv'
<1>1. task \in [Tasks -> Task] /\ task[t] \in Task
  BY DEF TypeInv, TypeOK
<1>2. ASSUME NEW batch \in Batches(Message), ReceiveMessages(t, batch) PROVE BoundInv'
  <2> DEFINE v == [Idle EXCEPT !.pc = "certs", !.batch = batch]
  <2>1. NoneSent(t, v)
    BY <1>2 DEF ReceiveMessages, Available, NoneSent, InFlight, OpsOf, Idle
  <2>2. QED BY <2>1, NoneSentBound
<1>3. ASSUME PullMessagesStatus(t) PROVE BoundInv'
  <2> DEFINE v == [Idle EXCEPT !.pc = "status", !.phase = "pulled", !.asked = Pending]
  <2>1. NoneSent(t, v)
    BY <1>3 DEF PullMessagesStatus, Available, NoneSent, InFlight, OpsOf, Idle
  <2>2. QED BY <2>1, NoneSentBound
<1>4. ASSUME CertificatesReady(t) PROVE BoundInv'
  <2>1. Classify(t).n = task[t].n /\ task[t].pc = "certs"
    BY <1>1, <1>4 DEF Classify, Task, CertificatesReady
  <2>2. NoneSent(t, Classify(t))
    BY <1>1, <1>4, <2>1, NoneInFlight DEF CertificatesReady, NoneSent, InFlight, OpsOf
  <2>3. QED BY <2>2, NoneSentBound
<1>5. ASSUME CertificatesFail(t) \/ SignFails(t) \/ PullFails(t) \/ HandlerEnds(t) PROVE BoundInv'
  <2>1. NoneSent(t, Idle)
    BY <1>1, <1>5 DEF CertificatesFail, SignFails, PullFails, HandlerEnds, NoneSent, InFlight, OpsOf, Idle
  <2>2. QED BY <2>1, NoneSentBound
<1>6. ASSUME NEW resp \in Batches(Report), SignResponse(t, resp) PROVE BoundInv'
  <2> DEFINE v == [task[t] EXCEPT !.pc = "loop", !.todo = SignedItems(t, resp)]
  <2>1. NoneSent(t, v)
    BY <1>1, <1>6, NoneInFlight DEF SignResponse, NoneSent, InFlight, OpsOf, Task
  <2>2. QED BY <2>1, NoneSentBound
<1>7. ASSUME NEW resp \in Batches(Report), PullResponse(t, resp) PROVE BoundInv'
  <2> DEFINE v == [task[t] EXCEPT !.todo = PulledItems(t, resp), !.pc = "loop"]
  <2>1. NoneSent(t, v)
    BY <1>1, <1>7, NoneInFlight DEF PullResponse, NoneSent, InFlight, OpsOf, Task
  <2>2. QED BY <2>1, NoneSentBound
<1>8. ASSUME MessagesToSign(t) PROVE BoundInv'
  <2> DEFINE v == [task[t] EXCEPT !.phase = "signed",
                                  !.pc = IF task[t].toHandle # {} THEN "sign" ELSE "next"]
  <2>1. NoneSent(t, v)
    BY <1>1, <1>8, NoneInFlight DEF MessagesToSign, NoneSent, InFlight, OpsOf, Task
  <2>2. QED BY <2>1, NoneSentBound
<1>9. ASSUME NEW from, NEW to, NEW S, AckMessages(t, from, to, S) PROVE BoundInv'
  <2> DEFINE v == [task[t] EXCEPT !.phase = to,
                                  !.pc = IF Positions(t, S) = {} THEN "next" ELSE "discard"]
  <2>1. \A u \in Tasks : InFlight(u)' \subseteq InFlight(u)
    BY <1>9 DEF AckMessages, AckVia, InFlight, OpsOf
  <2>2. NoneSent(t, v)
    BY <1>1, <1>9, <2>1, NoneInFlight DEF AckMessages, NoneSent, Task
  <2>3. QED BY <2>2, NoneSentBound
<1>10. ASSUME Discarded(t) PROVE BoundInv'
  <2> DEFINE v == [task[t] EXCEPT !.pc = "next"]
  <2>1. NoneSent(t, v)
    BY <1>1, <1>10, NoneInFlight DEF Discarded, NoneSent, InFlight, OpsOf, Task
  <2>2. QED BY <2>1, NoneSentBound
<1>11. QED
  BY <1>2, <1>3, <1>4, <1>5, <1>6, <1>7, <1>8, <1>9, <1>10 DEF Answer, AckUnknown, AckInvalid

(* updateStatus: the items, the flushes and the end of the loop.           *)
LEMMA UpdateStepBound ==
  ASSUME TypeInv, BoundInv, NEW t \in Tasks,
         \/ \E k \in 1..MaxBatch : UpdateNew(t, k) \/ UpdateCached(t, k) \/ Added(t, k)
         \/ EndOfItems(t) \/ Flushed(t) \/ Updated(t) \/ Throw(t)
  PROVE  BoundInv'
<1>1. task \in [Tasks -> Task] /\ task[t] \in Task
  BY DEF TypeInv, TypeOK
<1>2. ASSUME NEW k \in 1..MaxBatch, UpdateNew(t, k) PROVE BoundInv'
  <2> DEFINE v == [task[t] EXCEPT !.pc = "added"]
  <2>1. NoneSent(t, v)
    BY <1>1, <1>2 DEF UpdateNew, NoneSent, InFlight, OpsOf, Task
  <2>2. QED BY <2>1, NoneSentBound
<1>3. ASSUME NEW k \in 1..MaxBatch, UpdateCached(t, k) PROVE BoundInv'
  <2> DEFINE item == task[t].todo[k]
  <2>1. /\ ItemDone(t, k, Dispatched(t, k, item, NewMsgId(item, item.req)))
        /\ task[t].pc \in {"loop", "added"}
    BY <1>3 DEF UpdateCached
  <2>2. QED BY <2>1, ItemDoneBound
<1>4. ASSUME NEW k \in 1..MaxBatch, Added(t, k) PROVE BoundInv'
  <2> DEFINE item == task[t].todo[k]
             new == IF IsCached(item.req) THEN Dispatched(t, k, item, msgCache[item.req].msgId) ELSE {}
  <2>1. ItemDone(t, k, new) /\ task[t].pc \in {"loop", "added"}
    BY <1>4 DEF Added
  <2>2. new = {} \/ new = Dispatched(t, k, item, msgCache[item.req].msgId)
    OBVIOUS
  <2>3. QED BY <2>1, <2>2, ItemDoneBound
<1>5. ASSUME EndOfItems(t) PROVE BoundInv'
  <2> DEFINE v == [task[t] EXCEPT !.pc = "final"]
  <2>1. NoneSent(t, v)
    BY <1>1, <1>5 DEF EndOfItems, NoneSent, InFlight, OpsOf, Task
  <2>2. QED BY <2>1, NoneSentBound
<1>6. ASSUME Flushed(t) PROVE BoundInv'
  <2> DEFINE v == [task[t] EXCEPT !.pc = "loop", !.n = 0, !.aliased = TRUE]
  <2>1. NoneSent(t, v)
    BY <1>1, <1>6 DEF Flushed, AllResolved, NoneSent, InFlight, OpsOf, Task
  <2>2. QED BY <2>1, NoneSentBound
<1>7. ASSUME Updated(t) PROVE BoundInv'
  <2> DEFINE v == [task[t] EXCEPT !.pc = "next", !.n = 0, !.aliased = FALSE]
  <2>1. NoneSent(t, Idle) \/ NoneSent(t, v)
    BY <1>1, <1>7 DEF Updated, AllResolved, NoneSent, InFlight, OpsOf, Task, Idle
  <2>2. QED BY <2>1, NoneSentBound
<1>8. ASSUME Throw(t) PROVE BoundInv'
  <2>1. NoneSent(t, Idle)
    BY <1>1, <1>8 DEF Throw, NoneSent, InFlight, OpsOf, Idle
  <2>2. QED BY <2>1, NoneSentBound
<1>9. QED BY <1>2, <1>3, <1>4, <1>5, <1>6, <1>7, <1>8

LEMMA SettleBound ==
  ASSUME TypeInv, BoundInv, NEW o \in ops, Settle(o)
  PROVE  BoundInv'
<1>1. /\ task \in [Tasks -> Task] /\ o.task \in Tasks
      /\ \A u \in Tasks : InFlight(u)' \subseteq InFlight(u)
  BY DEF TypeInv, TypeOK, Op, Settle, BroadcastDone, AckDone, DiscardSettled, OpFails, InFlight, OpsOf
<1>2. ASSUME task' = task PROVE BoundInv'
  <2>1. task' = [task EXCEPT ![o.task] = task[o.task]]
    BY <1>1, <1>2
  <2>2. QED BY <1>1, <2>1, NoneSentBound DEF NoneSent
<1>3. ASSUME OpFails(o) PROVE BoundInv'
  <2> DEFINE v == [task[o.task] EXCEPT !.rejected = @ \/ task[o.task].pc # "free"]
  <2>1. NoneSent(o.task, v)
    BY <1>1, <1>3 DEF OpFails, NoneSent, Task
  <2>2. QED BY <1>1, <2>1, NoneSentBound
<1>4. QED BY <1>2, <1>3 DEF Settle, BroadcastDone, AckDone, DiscardSettled

LEMMA BoundInit == Init => BoundInv
<1>1. ASSUME Init PROVE BoundInv
  <2>1. \A t \in Tasks : InFlight(t) = {} /\ task[t].n = 0
    BY <1>1 DEF Init, InFlight, OpsOf, Idle
  <2>2. QED BY <2>1, NoneCovered DEF BoundInv
<1>2. QED BY <1>1

LEMMA BoundStep == TypeInv /\ BoundInv /\ [Next]_vars => BoundInv'
<1> SUFFICES ASSUME TypeInv, BoundInv, [Next]_vars PROVE BoundInv'
  OBVIOUS
<1>1. ASSUME NEW t \in Tasks, Answer(t) \/ Internal(t) \/ PullMessagesStatus(t) PROVE BoundInv'
  BY <1>1, HandlerStepBound, UpdateStepBound DEF Internal
<1>2. ASSUME UNCHANGED <<task, ops>> PROVE BoundInv'
  BY <1>2 DEF BoundInv, Covered, InFlight, OpsOf
<1>3. QED
  BY <1>1, <1>2, HandlerStepBound, SettleBound DEF Next, ConnectionChanges, vars

(* However flushes, the aliasing of the two arrays and rejections fall,    *)
(* the counter covers the broadcasts that one updateStatus has in flight.  *)
THEOREM BroadcastsAreBounded == Spec => []BroadcastsBounded
<1>1. BoundInv => BroadcastsBounded
  BY DEF BoundInv, Covered, InFlight, BroadcastsBounded
<1>2. QED
  BY TypeInit, TypeStep, BoundInit, BoundStep, <1>1, PTL DEF Spec

-----------------------------------------------------------------------------
(* An activation goes forward.  Shaped says which await goes with which    *)
(* part of handleMessages or of the poll; Stage orders the parts, and      *)
(* within one updateStatus every item left stands for four steps at most:  *)
(* add it, dispatch it, flush, go on.                                      *)

Shaped(v) ==
  \/ v.pc = "free" /\ v.phase = "none"
  \/ v.pc = "certs" /\ v.phase = "none"
  \/ v.pc \in {"loop", "added", "flush", "final"} /\ v.phase \in {"cached", "signed", "pulled"}
  \/ v.pc = "next" /\ v.phase \in {"cached", "signed", "unknown", "invalid"}
  \/ v.pc = "sign" /\ v.phase = "signed"
  \/ v.pc = "discard" /\ v.phase \in {"unknown", "invalid"}
  \/ v.pc = "status" /\ v.phase = "pulled"

Stage(v) ==
  IF v.pc = "free" THEN 0
  ELSE IF v.pc = "certs" THEN 6
  ELSE IF v.phase = "cached" THEN 5
  ELSE IF v.pc = "sign" THEN 4
  ELSE IF v.phase = "signed" THEN 3
  ELSE IF v.phase = "unknown" \/ v.pc = "status" THEN 2
  ELSE 1

ItemsLeft(v) == Cardinality(DOMAIN v.todo)
Left(v) ==
  IF v.pc = "flush" THEN 4 * ItemsLeft(v) + 3
  ELSE IF v.pc = "loop" THEN 4 * ItemsLeft(v) + 2
  ELSE IF v.pc = "added" THEN 4 * ItemsLeft(v) + 1
  ELSE IF v.pc \in {"final", "discard"} THEN 1
  ELSE 0

Nearer(v, w) == Stage(v) < Stage(w) \/ (Stage(v) = Stage(w) /\ Left(v) < Left(w))
AsFar(v, w) == Stage(v) = Stage(w) /\ Left(v) = Left(w)

InShape == \A t \in Tasks : Shaped(task[t])

(* How far an activation is from its end is one of finitely many places.   *)
Measured ==
  \A t \in Tasks : Stage(task[t]) \in 0..6 /\ Left(task[t]) \in 0..(4 * MaxBatch + 3)

(* Every answer an activation gets, and every step it takes by itself,     *)
(* brings it nearer to its end, and nothing any other activation or any    *)
(* request in flight does takes it back.                                   *)
GoesForward ==
  \A t \in Tasks : /\ Internal(t) \/ Answer(t) => Nearer(task'[t], task[t])
                   /\ task[t].pc # "free" => Nearer(task'[t], task[t]) \/ AsFar(task'[t], task[t])

LEMMA ItemsLeftType ==
  ASSUME TypeOK, NEW t \in Tasks
  PROVE  IsFiniteSet(DOMAIN task[t].todo) /\ ItemsLeft(task[t]) \in 0..MaxBatch
<1>1. IsFiniteSet(1..MaxBatch) /\ Cardinality(1..MaxBatch) = MaxBatch
  BY FS_Interval, ConstantsAssumption DEF ConstantsAssumption
<1>2. DOMAIN task[t].todo \in SUBSET (1..MaxBatch)
  BY TodoType
<1>3. QED
  BY <1>1, <1>2, FS_Subset, FS_CardinalityType DEF ItemsLeft

LEMMA IsMeasured == TypeInv => Measured
<1> SUFFICES ASSUME TypeInv, NEW t \in Tasks
             PROVE  Stage(task[t]) \in 0..6 /\ Left(task[t]) \in 0..(4 * MaxBatch + 3)
  BY DEF Measured
<1>1. ItemsLeft(task[t]) \in 0..MaxBatch /\ MaxBatch \in Nat
  BY ItemsLeftType, ConstantsAssumption DEF ConstantsAssumption, TypeInv
<1>2. QED BY <1>1 DEF Stage, Left

(* Activation t alone moves, and it moves forward.                         *)
Onward(t) ==
  /\ Shaped(task'[t]) /\ Nearer(task'[t], task[t])
  /\ task'[t].phase = "pulled" => task[t].phase = "pulled"
  /\ \A u \in Tasks : u # t => task'[u] = task[u]

LEMMA BecomesOnward ==
  ASSUME TypeInv, NEW t \in Tasks, NEW v, task' = [task EXCEPT ![t] = v],
         Shaped(v), Nearer(v, task[t]), v.phase = "pulled" => task[t].phase = "pulled"
  PROVE  Onward(t)
<1>1. task'[t] = v /\ \A u \in Tasks : u # t => task'[u] = task[u]
  BY DEF TypeInv, TypeOK
<1>2. QED BY <1>1 DEF Onward

LEMMA EndsOnward ==
  ASSUME TypeInv, NEW t \in Tasks, task' = [task EXCEPT ![t] = Idle], task[t].pc # "free"
  PROVE  Onward(t)
<1>1. Idle.pc = "free" /\ Idle.phase = "none"
  BY DEF Idle
<1>2. Shaped(Idle) /\ Nearer(Idle, task[t])
  BY <1>1 DEF Shaped, Nearer, Stage
<1>3. QED BY <1>1, <1>2, BecomesOnward

(* An item that is done is one item less.                                  *)
LEMMA ItemDoneOnward ==
  ASSUME TypeInv, NEW t \in Tasks, NEW k \in DOMAIN task[t].todo, NEW new,
         Shaped(task[t]), task[t].pc \in {"loop", "added"}, ItemDone(t, k, new)
  PROVE  Onward(t)
<1> DEFINE n == task[t].n + Pushed(t, new)
           v == [task[t] EXCEPT !.todo = Restrict(task[t].todo, DOMAIN task[t].todo \ {k}), !.n = n,
                                !.pc = IF n >= BROADCAST_BATCH_SIZE THEN "flush" ELSE "loop"]
<1>0. task[t] \in Task /\ task \in [Tasks -> Task]
  BY DEF TypeInv, TypeOK
<1>1. task' = [task EXCEPT ![t] = v]
  BY <1>0 DEF ItemDone
<1>2. /\ v.pc \in {"flush", "loop"} /\ v.phase = task[t].phase
      /\ v.todo = Restrict(task[t].todo, DOMAIN task[t].todo \ {k})
  BY <1>0 DEF Task
<1> HIDE DEF v
<1>3. DOMAIN v.todo = DOMAIN task[t].todo \ {k}
  BY <1>2 DEF Restrict
<1>4. ItemsLeft(task[t]) \in Nat /\ ItemsLeft(v) = ItemsLeft(task[t]) - 1
  <2>1. IsFiniteSet(DOMAIN task[t].todo) /\ Cardinality(DOMAIN task[t].todo) \in Nat
    BY ItemsLeftType, FS_CardinalityType DEF TypeInv
  <2>2. Cardinality(DOMAIN task[t].todo \ {k}) = Cardinality(DOMAIN task[t].todo) - 1
    BY <2>1, FS_RemoveElement
  <2>3. QED BY <1>3, <2>1, <2>2 DEF ItemsLeft
<1>5. Shaped(v)
  BY <1>2 DEF Shaped
<1>6. Stage(v) = Stage(task[t])
  BY <1>2 DEF Stage
<1>7. Left(v) < Left(task[t])
  BY <1>2, <1>4 DEF Left
<1>8. QED BY <1>1, <1>2, <1>5, <1>6, <1>7, BecomesOnward DEF Nearer

LEMMA UpdateStatusOnward ==
  ASSUME TypeInv, NEW t \in Tasks, Shaped(task[t]),
         \/ \E k \in 1..MaxBatch : UpdateNew(t, k) \/ UpdateCached(t, k) \/ Added(t, k)
         \/ EndOfItems(t) \/ Flushed(t) \/ Updated(t) \/ Throw(t)
  PROVE  Onward(t)
<1>1. task \in [Tasks -> Task] /\ task[t] \in Task
  BY DEF TypeInv, TypeOK
<1>2. ItemsLeft(task[t]) \in Nat
  BY ItemsLeftType, ConstantsAssumption DEF TypeInv, ConstantsAssumption
<1>3. ASSUME NEW k \in 1..MaxBatch, UpdateNew(t, k) PROVE Onward(t)
  <2>1. PICK v : v = [task[t] EXCEPT !.pc = "added"]
    OBVIOUS
  <2>2. v.pc = "added" /\ v.phase = task[t].phase /\ v.todo = task[t].todo
    BY <1>1, <2>1 DEF Task
  <2>3. task' = [task EXCEPT ![t] = v] /\ task[t].pc = "loop"
    BY <1>1, <1>3, <2>1 DEF UpdateNew
  <2>4. Shaped(v) /\ Nearer(v, task[t])
    BY <1>2, <2>2, <2>3 DEF Shaped, Nearer, Stage, Left, ItemsLeft
  <2>5. QED BY <2>2, <2>3, <2>4, BecomesOnward
<1>4. ASSUME NEW k \in 1..MaxBatch, UpdateCached(t, k) \/ Added(t, k) PROVE Onward(t)
  <2>1. k \in DOMAIN task[t].todo /\ task[t].pc \in {"loop", "added"}
    BY <1>4 DEF UpdateCached, Added, IsNext
  <2>2. \E new : ItemDone(t, k, new)
    BY <1>4 DEF UpdateCached, Added
  <2>3. QED BY <2>1, <2>2, ItemDoneOnward
<1>5. ASSUME EndOfItems(t) PROVE Onward(t)
  <2>1. PICK v : v = [task[t] EXCEPT !.pc = "final"]
    OBVIOUS
  <2>2. v.pc = "final" /\ v.phase = task[t].phase
    BY <1>1, <2>1 DEF Task
  <2>3. task' = [task EXCEPT ![t] = v] /\ task[t].pc = "loop"
    BY <1>1, <1>5, <2>1 DEF EndOfItems
  <2>4. Shaped(v) /\ Nearer(v, task[t])
    BY <1>2, <2>2, <2>3 DEF Shaped, Nearer, Stage, Left
  <2>5. QED BY <2>2, <2>3, <2>4, BecomesOnward
<1>6. ASSUME Flushed(t) PROVE Onward(t)
  <2>1. PICK v : v = [task[t] EXCEPT !.pc = "loop", !.n = 0, !.aliased = TRUE]
    OBVIOUS
  <2>2. v.pc = "loop" /\ v.phase = task[t].phase /\ v.todo = task[t].todo
    BY <1>1, <2>1 DEF Task
  <2>3. task' = [task EXCEPT ![t] = v] /\ task[t].pc = "flush"
    BY <1>1, <1>6, <2>1 DEF Flushed
  <2>4. Shaped(v) /\ Nearer(v, task[t])
    BY <1>2, <2>2, <2>3 DEF Shaped, Nearer, Stage, Left, ItemsLeft
  <2>5. QED BY <2>2, <2>3, <2>4, BecomesOnward
<1>7. ASSUME Updated(t) PROVE Onward(t)
  <2>1. CASE task[t].phase = "pulled"
    <3>1. task' = [task EXCEPT ![t] = Idle] /\ task[t].pc = "final"
      BY <1>1, <1>7, <2>1 DEF Updated
    <3>2. QED BY <3>1, EndsOnward
  <2>2. CASE task[t].phase # "pulled"
    <3>1. PICK v : v = [task[t] EXCEPT !.pc = "next", !.n = 0, !.aliased = FALSE]
      OBVIOUS
    <3>2. v.pc = "next" /\ v.phase = task[t].phase
      BY <1>1, <3>1 DEF Task
    <3>3. task' = [task EXCEPT ![t] = v] /\ task[t].pc = "final"
      BY <1>1, <1>7, <2>2, <3>1 DEF Updated
    <3>4. Shaped(v) /\ Nearer(v, task[t])
      BY <2>2, <3>2, <3>3 DEF Shaped, Nearer, Stage, Left
    <3>5. QED BY <3>2, <3>3, <3>4, BecomesOnward
  <2>3. QED BY <2>1, <2>2
<1>8. ASSUME Throw(t) PROVE Onward(t)
  BY <1>8, EndsOnward DEF Throw
<1>9. QED BY <1>3, <1>4, <1>5, <1>6, <1>7, <1>8

LEMMA HandlerOnward ==
  ASSUME TypeInv, NEW t \in Tasks, Shaped(task[t]),
         \/ Answer(t)
         \/ MessagesToSign(t) \/ AckUnknown(t) \/ AckInvalid(t) \/ Discarded(t) \/ HandlerEnds(t)
  PROVE  Onward(t)
<1>1. task \in [Tasks -> Task] /\ task[t] \in Task
  BY DEF TypeInv, TypeOK
<1>2. ASSUME CertificatesReady(t) PROVE Onward(t)
  <2>1. PICK v : v = Classify(t)
    OBVIOUS
  <2>2. v.pc \in {"next", "loop"} /\ v.phase = "cached"
    BY <1>1, <2>1 DEF Classify, Task
  <2>3. task' = [task EXCEPT ![t] = v] /\ task[t].pc = "certs"
    BY <1>2, <2>1 DEF CertificatesReady
  <2>4. Shaped(v) /\ Nearer(v, task[t])
    BY <2>2, <2>3 DEF Shaped, Nearer, Stage
  <2>5. QED BY <2>2, <2>3, <2>4, BecomesOnward
<1>3. ASSUME CertificatesFail(t) \/ SignFails(t) \/ PullFails(t) \/ HandlerEnds(t) PROVE Onward(t)
  <2>1. task' = [task EXCEPT ![t] = Idle] /\ task[t].pc # "free"
    BY <1>3 DEF CertificatesFail, SignFails, PullFails, HandlerEnds
  <2>2. QED BY <2>1, EndsOnward
<1>4. ASSUME NEW resp, SignResponse(t, resp) PROVE Onward(t)
  <2>1. PICK v : v = [task[t] EXCEPT !.pc = "loop", !.todo = SignedItems(t, resp)]
    OBVIOUS
  <2>2. v.pc = "loop" /\ v.phase = task[t].phase
    BY <1>1, <2>1 DEF Task
  <2>3. task' = [task EXCEPT ![t] = v] /\ task[t].pc = "sign"
    BY <1>1, <1>4, <2>1 DEF SignResponse
  <2>4. Shaped(v) /\ Nearer(v, task[t])
    BY <2>2, <2>3 DEF Shaped, Nearer, Stage
  <2>5. QED BY <2>2, <2>3, <2>4, BecomesOnward
<1>5. ASSUME NEW resp, PullResponse(t, resp) PROVE Onward(t)
  <2>1. PICK v : v = [task[t] EXCEPT !.todo = PulledItems(t, resp), !.pc = "loop"]
    OBVIOUS
  <2>2. v.pc = "loop" /\ v.phase = task[t].phase
    BY <1>1, <2>1 DEF Task
  <2>3. task' = [task EXCEPT ![t] = v] /\ task[t].pc = "status"
    BY <1>1, <1>5, <2>1 DEF PullResponse
  <2>4. Shaped(v) /\ Nearer(v, task[t])
    BY <2>2, <2>3 DEF Shaped, Nearer, Stage
  <2>5. QED BY <2>2, <2>3, <2>4, BecomesOnward
<1>6. ASSUME MessagesToSign(t) PROVE Onward(t)
  <2>1. PICK v : v = [task[t] EXCEPT !.phase = "signed",
                                     !.pc = IF task[t].toHandle # {} THEN "sign" ELSE "next"]
    OBVIOUS
  <2>2. v.pc \in {"sign", "next"} /\ v.phase = "signed"
    BY <1>1, <2>1 DEF Task
  <2>3. task' = [task EXCEPT ![t] = v] /\ task[t].pc = "next" /\ task[t].phase = "cached"
    BY <1>1, <1>6, <2>1 DEF MessagesToSign
  <2>4. Shaped(v) /\ Nearer(v, task[t])
    BY <2>2, <2>3 DEF Shaped, Nearer, Stage
  <2>5. QED BY <2>2, <2>3, <2>4, BecomesOnward
<1>7. ASSUME NEW from, NEW to, NEW S, AckMessages(t, from, to, S),
             <<from, to>> = <<"signed", "unknown">> \/ <<from, to>> = <<"unknown", "invalid">>
      PROVE  Onward(t)
  <2>1. PICK v : v = [task[t] EXCEPT !.phase = to,
                                     !.pc = IF Positions(t, S) = {} THEN "next" ELSE "discard"]
    OBVIOUS
  <2>2. v.pc \in {"next", "discard"} /\ v.phase = to
    BY <1>1, <2>1 DEF Task
  <2>3. task' = [task EXCEPT ![t] = v] /\ task[t].pc = "next" /\ task[t].phase = from
    BY <1>1, <1>7, <2>1 DEF AckMessages
  <2>4. Shaped(v) /\ Nearer(v, task[t])
    BY <1>7, <2>2, <2>3 DEF Shaped, Nearer, Stage
  <2>5. QED BY <1>7, <2>2, <2>3, <2>4, BecomesOnward
<1>8. ASSUME Discarded(t) PROVE Onward(t)
  <2>1. PICK v : v = [task[t] EXCEPT !.pc = "next"]
    OBVIOUS
  <2>2. v.pc = "next" /\ v.phase = task[t].phase
    BY <1>1, <2>1 DEF Task
  <2>3. task' = [task EXCEPT ![t] = v] /\ task[t].pc = "discard"
    BY <1>1, <1>8, <2>1 DEF Discarded
  <2>4. Shaped(v) /\ Nearer(v, task[t])
    BY <2>2, <2>3 DEF Shaped, Nearer, Stage, Left
  <2>5. QED BY <2>2, <2>3, <2>4, BecomesOnward
<1>9. QED
  BY <1>2, <1>3, <1>4, <1>5, <1>6, <1>7, <1>8 DEF Answer, AckUnknown, AckInvalid

LEMMA OwnSteps ==
  ASSUME TypeInv, NEW t \in Tasks, Shaped(task[t]), Internal(t) \/ Answer(t)
  PROVE  Onward(t)
BY UpdateStatusOnward, HandlerOnward DEF Internal

(* A new activation is at its first await, whatever the others do.         *)
LEMMA NewActivation ==
  ASSUME TypeInv, NEW t \in Tasks,
         (\E batch \in Batches(Message) : ReceiveMessages(t, batch)) \/ PullMessagesStatus(t)
  PROVE  /\ task[t].pc = "free" /\ Shaped(task'[t])
         /\ \A u \in Tasks : u # t => task'[u] = task[u]
<1>1. PICK v : task' = [task EXCEPT ![t] = v] /\ Shaped(v)
  <2>1. ASSUME NEW batch, ReceiveMessages(t, batch)
        PROVE  \E v : task' = [task EXCEPT ![t] = v] /\ Shaped(v)
    <3> DEFINE v == [Idle EXCEPT !.pc = "certs", !.batch = batch]
    <3>1. v.pc = "certs" /\ v.phase = "none" /\ task' = [task EXCEPT ![t] = v]
      BY <2>1 DEF ReceiveMessages, Idle
    <3>2. QED BY <3>1 DEF Shaped
  <2>2. ASSUME PullMessagesStatus(t)
        PROVE  \E v : task' = [task EXCEPT ![t] = v] /\ Shaped(v)
    <3> DEFINE v == [Idle EXCEPT !.pc = "status", !.phase = "pulled", !.asked = Pending]
    <3>1. v.pc = "status" /\ v.phase = "pulled" /\ task' = [task EXCEPT ![t] = v]
      BY <2>2 DEF PullMessagesStatus, Idle
    <3>2. QED BY <3>1 DEF Shaped
  <2>3. QED BY <2>1, <2>2
<1>2. task'[t] = v /\ \A u \in Tasks : u # t => task'[u] = task[u]
  BY <1>1 DEF TypeInv, TypeOK
<1>3. task[t].pc = "free"
  BY DEF ReceiveMessages, PullMessagesStatus, Available
<1>4. QED BY <1>1, <1>2, <1>3

(* A request that settles leaves every activation where it is.             *)
LEMMA SettleStays ==
  ASSUME TypeInv, NEW o \in ops, Settle(o), NEW u \in Tasks
  PROVE  /\ task'[u].pc = task[u].pc /\ task'[u].phase = task[u].phase
         /\ task'[u].todo = task[u].todo
<1>1. task \in [Tasks -> Task] /\ task[u] \in Task /\ o.task \in Tasks
  BY DEF TypeInv, TypeOK, Op
<1>2. CASE OpFails(o)
  <2>1. PICK v : v = [task[o.task] EXCEPT !.rejected = @ \/ task[o.task].pc # "free"]
    OBVIOUS
  <2>2. task[o.task] \in Task
    BY <1>1
  <2>3. v.pc = task[o.task].pc /\ v.phase = task[o.task].phase /\ v.todo = task[o.task].todo
    BY <2>1, <2>2 DEF Task
  <2>4. task' = [task EXCEPT ![o.task] = v]
    BY <1>1, <1>2, <2>1 DEF OpFails
  <2>5. QED BY <1>1, <2>3, <2>4
<1>3. CASE task' = task
  BY <1>3
<1>4. QED BY <1>2, <1>3 DEF Settle, BroadcastDone, AckDone, DiscardSettled

LEMMA ForwardStep == TypeInv /\ InShape /\ [Next]_vars => InShape' /\ GoesForward
<1> SUFFICES ASSUME TypeInv, InShape, [Next]_vars PROVE InShape' /\ GoesForward
  OBVIOUS
<1>1. \A t \in Tasks : Internal(t) \/ Answer(t) => Onward(t)
  BY OwnSteps DEF InShape
<1>2. SUFFICES ASSUME NEW u \in Tasks
      PROVE /\ Shaped(task'[u])
            /\ task[u].pc # "free" => Nearer(task'[u], task[u]) \/ AsFar(task'[u], task[u])
  BY <1>1 DEF InShape, GoesForward, Onward
<1>3. Shaped(task[u])
  BY DEF InShape
<1>4. ASSUME task'[u] = task[u] PROVE Shaped(task'[u]) /\ AsFar(task'[u], task[u])
  BY <1>3, <1>4 DEF AsFar
<1>5. ASSUME NEW t \in Tasks, Internal(t) \/ Answer(t)
      PROVE  Shaped(task'[u]) /\ (Nearer(task'[u], task[u]) \/ AsFar(task'[u], task[u]))
  BY <1>1, <1>4, <1>5 DEF Onward
<1>6. ASSUME NEW t \in Tasks,
             (\E batch \in Batches(Message) : ReceiveMessages(t, batch)) \/ PullMessagesStatus(t)
      PROVE  Shaped(task'[u]) /\ (task[u].pc # "free" => AsFar(task'[u], task[u]))
  BY <1>4, <1>6, NewActivation
<1>7. ASSUME NEW o \in ops, Settle(o) PROVE Shaped(task'[u]) /\ AsFar(task'[u], task[u])
  <2>1. /\ task'[u].pc = task[u].pc /\ task'[u].phase = task[u].phase
        /\ task'[u].todo = task[u].todo
    BY <1>7, SettleStays
  <2>2. QED BY <1>3, <2>1 DEF Shaped, AsFar, Stage, Left, ItemsLeft
<1>8. ASSUME UNCHANGED task PROVE Shaped(task'[u]) /\ AsFar(task'[u], task[u])
  BY <1>4, <1>8
<1>9. QED
  BY <1>5, <1>6, <1>7, <1>8 DEF Next, ConnectionChanges, vars

(* What ActivationsEnd rests on, for any number of activations, messages   *)
(* and items: handleMessages and the poll cannot go round.  An activation  *)
(* has finitely many places left, every answer and every step of its own   *)
(* takes it to a nearer one, and no other activation, flush, rejection or  *)
(* eviction takes it back; so it ends if the answers it waits for come.    *)
THEOREM ActivationsGoForward == Spec => []Measured /\ [][GoesForward]_vars
<1>1. Init => InShape
  BY DEF Init, InShape, Shaped, Idle
<1>2. QED
  BY TypeInit, TypeStep, IsMeasured, ForwardStep, <1>1, PTL DEF Spec

(* One poll at a time, and the flag that says one is running belongs to an *)
(* activation that is: whatever fails, it is over before the next is       *)
(* scheduled (customer-server-client.ts:12-15, 46-48).                     *)
OnePoll ==
  /\ \A t \in Tasks : task[t].phase = "pulled" => task[t].pc # "free"
  /\ \A t, u \in Tasks : task[t].phase = "pulled" /\ task[u].phase = "pulled" => t = u

AtMostOne == \A t, u \in Tasks : task[t].phase = "pulled" /\ task[u].phase = "pulled" => t = u

LEMMA PollStep == TypeInv /\ InShape /\ AtMostOne /\ [Next]_vars => AtMostOne'
<1> SUFFICES ASSUME TypeInv, InShape, AtMostOne, [Next]_vars PROVE AtMostOne'
  OBVIOUS
<1>1. ASSUME \A t \in Tasks : task'[t].phase = "pulled" => task[t].phase = "pulled"
      PROVE  AtMostOne'
  BY <1>1 DEF AtMostOne
<1>2. ASSUME NEW t \in Tasks, Internal(t) \/ Answer(t) PROVE AtMostOne'
  <2>1. Onward(t)
    BY <1>2, OwnSteps DEF InShape
  <2>2. QED BY <1>1, <2>1 DEF Onward
<1>3. ASSUME NEW t \in Tasks, NEW batch \in Batches(Message), ReceiveMessages(t, batch)
      PROVE  AtMostOne'
  <2>1. \A u \in Tasks : u # t => task'[u] = task[u]
    BY <1>3, NewActivation
  <2>2. task'[t].phase = "none"
    BY <1>3 DEF ReceiveMessages, Idle, TypeInv, TypeOK
  <2>3. QED BY <1>1, <2>1, <2>2
<1>4. ASSUME NEW t \in Tasks, PullMessagesStatus(t) PROVE AtMostOne'
  <2>1. \A u \in Tasks : u # t => task'[u] = task[u]
    BY <1>4, NewActivation
  <2>2. \A u \in Tasks : task[u].phase # "pulled"
    BY <1>4 DEF PullMessagesStatus, Pulling
  <2>3. QED BY <2>1, <2>2 DEF AtMostOne
<1>5. ASSUME NEW o \in ops, Settle(o) PROVE AtMostOne'
  BY <1>1, <1>5, SettleStays
<1>6. ASSUME UNCHANGED task PROVE AtMostOne'
  BY <1>1, <1>6
<1>7. QED
  BY <1>2, <1>3, <1>4, <1>5, <1>6 DEF Next, ConnectionChanges, vars

(* What PendingIsPolled rests on, for any number of activations: the poll  *)
(* never blocks itself.  At any time at most one is running, and no flag   *)
(* of one that is over keeps the next from starting; ActivationsGoForward  *)
(* says that it comes to its end, after an error as after an answer.       *)
THEOREM OnePollAtATime == Spec => []OnePoll
<1>1. Init => InShape /\ AtMostOne
  BY DEF Init, InShape, AtMostOne, Shaped, Idle
<1>2. InShape /\ AtMostOne => OnePoll
  BY DEF InShape, AtMostOne, OnePoll, Shaped
<1>3. QED
  BY TypeInit, TypeStep, ForwardStep, PollStep, <1>1, <1>2, PTL DEF Spec
=============================================================================
