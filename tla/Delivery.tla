------------------------------ MODULE Delivery ------------------------------
(***************************************************************************)
(* The agent's message service between its two peers: the Fireblocks       *)
(* mobile gateway (MAG), which delivers requests, takes acks and responses *)
(* and redelivers what is not acked, and the customer's server, which      *)
(* signs.  MAG is external, and the customer may run any server, of which  *)
(* module CustomerServer models an example: both are modelled here from    *)
(* what the agent assumes (messages.service.ts:18-26, 278-280,             *)
(* README.md:104).                                                         *)
(***************************************************************************)
EXTENDS MessageService

CONSTANTS
  MaxFaults,            \* bound: lost sessions and agent crashes
  CrashesAllowed,       \* may the agent process crash
  BroadcastsMayFail     \* may a broadcast be rejected or lost

ASSUME DeliveryAssumption ==
  /\ MaxFaults \in Nat
  /\ CrashesAllowed \in BOOLEAN
  /\ BroadcastsMayFail \in BOOLEAN

VARIABLES
  queued,         \* MAG: bodies waiting to be delivered
  unacked,        \* MAG: messages delivered on the current session
  instance,       \* MAG: the prefix of the instance that serves the agent
  custStatus,     \* customer server: status of each request it knows
  answered,       \* responses that reached MAG
  halfOpen,       \* the session is about to end: MAG reads no more of it
  failed,         \* history: requests of which a broadcast was rejected,
                  \* written but never read, or lost in a crash
  faults          \* lost sessions and crashes so far

responses == <<answered, failed>>
magVars == <<queued, unacked, instance, halfOpen, responses>>
dvars == <<vars, magVars, custStatus, faults>>

DInit ==
  /\ Init
  /\ queued = Bodies
  /\ unacked = {}
  /\ instance \in {Prefix(id) : id \in MsgIds}
  /\ custStatus = [r \in Requests |-> "none"]
  /\ halfOpen = FALSE
  /\ answered = {}
  /\ failed = {}
  /\ faults = 0

-----------------------------------------------------------------------------
(* MAG.  A msgId names one delivery: MAG numbers deliveries from a counter *)
(* of the instance, so an id still known to anybody is never used again.   *)
(* Ids that nobody knows any more are reused, lowest first, which keeps    *)
(* the states finite and takes nothing away: the agent never orders ids.   *)

InMag(b) == b \in queued \/ \E m \in unacked : m.body = b
HeldBy(t, m) == \E k \in DOMAIN task[t].batch : task[t].batch[k] = m
InUse(id) ==
  \/ \E m \in unacked : m.msgId = id
  \/ \E r \in DOMAIN msgCache : msgCache[r].msgId = id
  \/ \E o \in ops : o.msgId = id
  \/ \E t \in Tasks : \/ \E k \in DOMAIN task[t].batch : task[t].batch[k].msgId = id
                      \/ \E k \in DOMAIN task[t].todo : task[t].todo[k].msgId = id

Deliver(t, batch) ==
  /\ batch # <<>>
  /\ \A k \in DOMAIN batch : /\ batch[k].body \in queued
                             /\ Prefix(batch[k].msgId) = instance
                             /\ ~InUse(batch[k].msgId)
  /\ \A j, k \in DOMAIN batch :
       j # k => batch[j].msgId # batch[k].msgId /\ batch[j].body # batch[k].body
  /\ \A k \in DOMAIN batch : \A id \in MsgIds :
       Prefix(id) = instance /\ id < batch[k].msgId
         => InUse(id) \/ \E j \in 1..(k - 1) : batch[j].msgId = id
  /\ ReceiveMessages(t, batch)
  /\ queued' = queued \ {batch[k].body : k \in DOMAIN batch}
  /\ unacked' = unacked \cup {batch[k] : k \in DOMAIN batch}
  /\ UNCHANGED <<instance, halfOpen, responses, custStatus, faults>>

(* Nothing in the agent will ack m any more: no activation handles it, no  *)
(* ack of it is in flight, and the poll does not ask about its request.    *)
Abandoned(m) ==
  /\ \A t \in Tasks : task[t].pc = "free" \/ ~HeldBy(t, m)
  /\ \A t \in Tasks : \A k \in DOMAIN task[t].todo : task[t].todo[k].req # m.body
  /\ \A o \in ops : o.body # m.body
  /\ ~(m.body \in Pending /\ msgCache[m.body].msgId = m.msgId)

Redeliver(m) ==
  /\ m \in unacked /\ Abandoned(m)
  /\ unacked' = unacked \ {m}
  /\ queued' = queued \cup {m.body}
  /\ UNCHANGED <<vars, instance, halfOpen, responses, custStatus, faults>>

(* Frames go into a socket whose other end may read no more of them: the   *)
(* agent's keep-alive or a 'close' ends such a session later (module       *)
(* FbServerWs, DeadSocketReleased).                                        *)
SessionBreaks ==
  /\ StackEmpty /\ faults < MaxFaults
  /\ connected /\ ~halfOpen
  /\ halfOpen' = TRUE
  /\ UNCHANGED <<vars, queued, unacked, instance, responses, custStatus, faults>>

RequeueAll(i) ==
  /\ queued' = queued \cup {m.body : m \in unacked}
  /\ unacked' = {}
  /\ instance' = i

SessionLost(i) ==
  /\ StackEmpty /\ faults < MaxFaults
  /\ IF WEBSOCKET_ENABLED THEN connected /\ ConnectionChanges ELSE UNCHANGED vars
  /\ RequeueAll(i)
  /\ halfOpen' = FALSE
  /\ faults' = faults + 1
  /\ UNCHANGED <<responses, custStatus>>

Connect ==
  /\ ~connected /\ ConnectionChanges
  /\ UNCHANGED <<magVars, custStatus, faults>>

Broadcasts(S) == {o \in S : o.kind = "broadcast"}
Ack(msgId) == unacked' = {m \in unacked : m.msgId # msgId}
Answered(r) == \E a \in answered : a.req = r
Published(o) == answered' = answered \cup {[req |-> o.body, status |-> o.status]}

(* Does what o sends now reach MAG?  The HTTP calls are answered by MAG;   *)
(* the callback of ws.send only says that the frame was written.           *)
Reaches(o) == o.via = "ws" => connected /\ ~halfOpen

BroadcastArrives(o) ==
  /\ BroadcastDone(o) /\ Reaches(o) /\ Published(o)
  /\ UNCHANGED <<queued, unacked, instance, halfOpen, failed, custStatus, faults>>

(* The agent ignores MAG's broadcastAck and does not transmit again: a     *)
(* frame that is not read counts as sent.                                  *)
BroadcastFrameLost(o) ==
  /\ BroadcastDone(o) /\ ~Reaches(o)
  /\ failed' = failed \cup {o.body}
  /\ UNCHANGED <<queued, unacked, instance, halfOpen, answered, custStatus, faults>>

(* A broadcast chosen for the socket is rejected if that has closed during *)
(* its awaits.  Any broadcast may fail for other reasons.                  *)
BroadcastFails(o) ==
  /\ o.kind = "broadcast" /\ OpFails(o)
  /\ \/ (BroadcastsMayFail \/ (o.via = "ws" /\ ~connected)) /\ UNCHANGED answered
     \/ BroadcastsMayFail /\ Reaches(o) /\ Published(o)
  /\ failed' = failed \cup {o.body}
  /\ UNCHANGED <<queued, unacked, instance, halfOpen, custStatus, faults>>

AckArrives(o) ==
  /\ (AckDone(o) \/ DiscardSettled(o)) /\ Reaches(o)
  /\ Ack(o.msgId)
  /\ UNCHANGED <<queued, instance, halfOpen, responses, custStatus, faults>>

AckFrameLost(o) ==
  /\ (AckDone(o) \/ DiscardSettled(o)) /\ ~Reaches(o)
  /\ UNCHANGED <<magVars, custStatus, faults>>

AckFails(o) ==
  /\ \/ o.kind = "ack" /\ OpFails(o)
     \/ DiscardSettled(o)
  /\ (Reaches(o) /\ Ack(o.msgId)) \/ UNCHANGED unacked
  /\ UNCHANGED <<queued, instance, halfOpen, responses, custStatus, faults>>

-----------------------------------------------------------------------------
(* The customer's server: it knows a request from the first messagesToSign *)
(* that reaches it, decides it once (README.md:104), and reports its       *)
(* status as it was when the call was served, which may be earlier.        *)

Asked(t) == {task[t].batch[k].body : k \in task[t].toHandle}

Reports(resp, S, status) ==
  /\ \A r \in S : \E k \in DOMAIN resp : resp[k].req = r
  /\ Len(resp) = Cardinality(S)
  /\ \A k \in DOMAIN resp : /\ resp[k].req \in S
                            /\ resp[k].status \in {"PENDING_SIGN", status[resp[k].req]}

Registered(S, status) ==
  /\ status \in [Requests -> Statuses \cup {"none"}]
  /\ \A r \in Requests : IF r \in S /\ custStatus[r] = "none" THEN status[r] # "none"
                         ELSE status[r] = custStatus[r]

CustomerReplies(t, resp) ==
  /\ task[t].pc = "sign"
  /\ \E status \in [Requests -> Statuses \cup {"none"}] :
       Registered(Asked(t), status) /\ Reports(resp, Asked(t), status) /\ custStatus' = status
  /\ SignResponse(t, resp)
  /\ UNCHANGED <<magVars, faults>>

CustomerFails(t) ==
  /\ SignFails(t)
  /\ \E S \in {{}, Asked(t)} : custStatus' =
       [r \in Requests |-> IF r \in S /\ custStatus[r] = "none" THEN "PENDING_SIGN" ELSE custStatus[r]]
  /\ UNCHANGED <<magVars, faults>>

CustomerDecides(r) ==
  /\ custStatus[r] = "PENDING_SIGN"
  /\ \E s \in FinalStatuses : custStatus' = [custStatus EXCEPT ![r] = s]
  /\ UNCHANGED <<vars, magVars, faults>>

PollReplies(t, resp) ==
  /\ task[t].pc = "status" /\ Reports(resp, task[t].asked, custStatus)
  /\ PullResponse(t, resp)
  /\ UNCHANGED <<magVars, custStatus, faults>>

-----------------------------------------------------------------------------
(* The agent process dies and is started again: its memory is gone, its    *)
(* session with it; what it had sent may or may not have arrived.          *)
Crash(i, arrived) ==
  /\ CrashesAllowed /\ StackEmpty /\ faults < MaxFaults
  /\ \A o \in arrived : Reaches(o)
  /\ msgCache' = Empty /\ msgCacheOrder' = <<>> /\ certificates' = FALSE
  /\ connected' = FALSE /\ task' = [t \in Tasks |-> Idle] /\ ops' = {}
  /\ answered' = answered \cup
       {[req |-> o.body, status |-> o.status] : o \in Broadcasts(arrived)}
  /\ failed' = failed \cup {o.body : o \in Broadcasts(ops)}
  /\ LET left == {m \in unacked : \A o \in arrived : o.msgId # m.msgId}
     IN  queued' = queued \cup {m.body : m \in left}
  /\ unacked' = {} /\ instance' = i /\ halfOpen' = FALSE
  /\ faults' = faults + 1
  /\ UNCHANGED custStatus

(* Steps of the agent that concern neither peer.                           *)
Local(t) ==
  /\ Internal(t) \/ CertificatesReady(t) \/ CertificatesFail(t)
     \/ PullMessagesStatus(t) \/ PullFails(t)
  /\ UNCHANGED <<magVars, custStatus, faults>>

Settles(o) ==
  \/ BroadcastArrives(o) \/ BroadcastFrameLost(o) \/ BroadcastFails(o)
  \/ AckArrives(o) \/ AckFrameLost(o) \/ AckFails(o)
Prefixes == {Prefix(id) : id \in MsgIds}

DNext ==
  \/ \E t \in Tasks :
       \/ \E batch \in Batches(Message) : Deliver(t, batch)
       \/ \E resp \in Batches(Report) : CustomerReplies(t, resp) \/ PollReplies(t, resp)
       \/ CustomerFails(t) \/ Local(t)
  \/ \E o \in ops : Settles(o)
  \/ \E m \in unacked : Redeliver(m)
  \/ \E i \in Prefixes : SessionLost(i) \/ \E arrived \in SUBSET ops : Crash(i, arrived)
  \/ \E r \in Requests : CustomerDecides(r)
  \/ Connect \/ SessionBreaks

DSpec == DInit /\ [][DNext]_dvars

-----------------------------------------------------------------------------
(* Every variable of the peers has its type.                               *)
DTypeOK ==
  /\ TypeOK
  /\ queued \subseteq Bodies
  /\ unacked \subseteq Message
  /\ instance \in Prefixes
  /\ halfOpen \in BOOLEAN
  /\ custStatus \in [Requests -> Statuses \cup {"none"}]
  /\ answered \subseteq [req : Requests, status : FinalStatuses]
  /\ failed \subseteq Requests
  /\ faults \in 0..MaxFaults

(* A request leaves MAG only when the customer's server has decided it: no *)
(* stale msgId, redelivery, eviction, reconnection or restart lets the     *)
(* agent ack a request that is still to be signed (lines 248-260).         *)
NeverAckedUndecided == \A r \in Requests : ~InMag(r) => custStatus[r] \in FinalStatuses

(* Every ack in flight and every cached msgId names, if it names a live    *)
(* delivery at all, a delivery of that very request: the updates of msgId, *)
(* their invalidation (lines 220-239) and null msgIds never cross requests.*)
NoForeignAck ==
  /\ \A m \in unacked : \A o \in ops : o.msgId = m.msgId => o.body = m.body
  /\ \A m \in unacked : \A r \in DOMAIN msgCache : msgCache[r].msgId = m.msgId => r = m.body

(* Every response that reached MAG is the customer's one decision: stale   *)
(* polls, cached statuses sent again (lines 104-113) and orphaned          *)
(* broadcasts never contradict it.                                         *)
AnswersAgree == \A a \in answered : a.status = custStatus[a.req]

(* A request that MAG no longer holds has been answered, or the agent is   *)
(* still sending its answer: the ack and the broadcast are concurrent, and *)
(* the entry is dropped when the ack is done (lines 249-260).              *)
StillAnswering(r) ==
  \/ \E o \in ops : o.kind = "broadcast" /\ o.body = r
  \/ \E t \in Tasks : \E k \in DOMAIN task[t].todo : task[t].todo[k].req = r
  \/ \E t \in Tasks : task[t].pc \in {"certs", "sign"} /\ \E k \in DOMAIN task[t].batch : task[t].batch[k].body = r
  \/ r \in DOMAIN msgCache
NoLostResponse == \A r \in Requests : InMag(r) \/ Answered(r) \/ StillAnswering(r)

(* What MAG, the customer and the agent together make of a request is the  *)
(* life cycle of module RequestLifecycle.  An answer has been attempted    *)
(* when a broadcast of it has arrived, is in flight, or failed.            *)
Attempted == {r \in Requests :
  Answered(r) \/ r \in failed \/ \E o \in Broadcasts(ops) : o.body = r}

Lifecycle == INSTANCE RequestLifecycle WITH
  held <- {r \in Requests : InMag(r)},
  decision <- [r \in Requests |->
    IF custStatus[r] \in FinalStatuses THEN custStatus[r] ELSE "undecided"],
  attempted <- Attempted,
  published <- answered

(* No message, redelivery, late ack, eviction, poll, lost session or crash *)
(* takes a request off its life cycle: an answer is attempted only once    *)
(* the customer has decided, says what was decided, and MAG lets go of a   *)
(* request only after that, for good (lines 242-260).                      *)
KeepsLifecycle == Lifecycle!Spec

-----------------------------------------------------------------------------
Goes(t) ==
  \/ (Internal(t) \/ CertificatesFail(t) \/ PullFails(t)) /\ Local(t)
  \/ CustomerFails(t)
  \/ \E resp \in Batches(Report) : CustomerReplies(t, resp) \/ PollReplies(t, resp)
  \/ \E o \in OpsOf(t) : Settles(o)

(* The event loop serves every activation and every call returns; a call   *)
(* made again and again succeeds once; the customer decides every request; *)
(* MAG delivers, and redelivers what the agent has given up; a session of  *)
(* which MAG reads no more ends, and another opens.  Fairness is strong    *)
(* where steps compete for the stack or for an activation.                 *)
DFairness ==
  /\ SF_dvars(Connect \/ (halfOpen /\ \E i \in Prefixes : SessionLost(i)))
  /\ SF_dvars(\E t \in Tasks : CertificatesReady(t) /\ Local(t))
  /\ SF_dvars(\E t \in Tasks : PullMessagesStatus(t) /\ Local(t))
  /\ \A t \in Tasks : SF_dvars(Goes(t))
  /\ \A b \in Bodies :
       /\ WF_dvars(\E m \in unacked : m.body = b /\ Redeliver(m))
       /\ SF_dvars(\E t \in Tasks, id \in MsgIds : Deliver(t, <<[msgId |-> id, body |-> b]>>))
       /\ SF_dvars(\E o \in ops : [msgId |-> o.msgId, body |-> b] \in unacked /\ AckArrives(o))
  /\ \A r \in Requests :
       /\ WF_dvars(CustomerDecides(r))
       /\ SF_dvars(\E o \in ops : o.body = r /\ BroadcastArrives(o))
       /\ SF_dvars(\E t \in Tasks : r \in Asked(t) /\ \E resp \in Batches(Report) : CustomerReplies(t, resp))
       /\ SF_dvars(\E t \in Tasks : r \in task[t].asked /\ \E resp \in Batches(Report) :
            PollReplies(t, resp) /\ \E k \in DOMAIN resp : resp[k] = [req |-> r, status |-> custStatus[r]])
DFairSpec == DSpec /\ DFairness

(* Every request is answered in the end, whatever the delays, failed acks, *)
(* failed calls and lost sessions in between: redelivery makes up for a    *)
(* broadcast that failed, unless its ack got through (lines 18-26).        *)
EventuallyAnswered == \A r \in Requests : <>(Answered(r) \/ (r \in failed /\ ~InMag(r)))

(* Every message is discharged in the end: MAG does not redeliver for ever *)
(* what the agent has handled.                                             *)
EventuallyDischarged == \A b \in Bodies : <>[]~InMag(b)

=============================================================================
