# A TLA+ model of the Fireblocks agent

The Fireblocks agent runs beside a customer's HSM server. It receives signing
requests from Fireblocks' mobile gateway (MAG), hands them to the customer's
server, polls that server for the outcome, sends each response back to MAG and
acks the message. Everything it knows is in memory; MAG redelivers whatever is
not acked, and the customer's server is expected to be idempotent
(`README.md:104`). Line numbers below refer to the repository's files; those of
`src/src/services` are quoted by file name only.

## Inventory

| component | state | operations | what is hard | what makes it correct |
|---|---|---|---|---|
| message service, `messages.service.ts` | `msgCache`, `msgCacheOrder` | `handleMessages`, `updateStatus`, `ackMessages`, cache add/delete | every `await` lets other deliveries and the poll in; acks, broadcasts and evictions land late | the cache is consistent and bounded; only decided requests are acked; responses are the customer's decision; none is lost; everything is answered and discharged |
| status polling, `customer-server-client.ts` | none but its own schedule | `pullMessagesStatus` | runs beside the handlers on a snapshot of the cache | it never stops, pending requests are asked about again |
| main loop, `fireblocks-agent.ts` | none | start of the socket or the HTTP long poll | handlers are not awaited | - |
| WebSocket, `fb-server-ws.api.ts` | `ws`, three timers, backoff, `isAlive`, `stopped` | `start`, `stop`, `connect`, socket handlers, watchdog, keep-alive, `scheduleReconnect` | late events of superseded sockets, timers that fire at the wrong time, `stop` during an `await` | always exactly one way to a connection; the socket is always watched; no orphan socket; it reconnects |
| Fireblocks HTTP client, `fb-server.api.ts` | token cache, tenant, certificates | `getAccessToken`, the requests, `_resetTokenCache` | no single flight, a reset races fetches, clock skew | no expired token is sent; a refused token is got rid of |
| customer client, `customer-server.api.ts` | none | two POSTs | lost answers | - |
| example customer server, `examples/server/src` | a database | four message routes, upsert, signing, status update | concurrent calls in several processes, crashes between the database calls | a request is signed once and decided once; it is decided |
| HSM facade, `hsm-facade.ts`, `hsm.router.ts` | one PKCS#11 session, its login, the operation in progress on it | constructor, `sign` with its retry, `reopenSession`, `verify`, `generateKeyPair` | the link drops between any two library calls; an operation or a session left behind by a failed call | one lost session is repaired within the call; calls end; a returned key id can be used |
| verification, `messages-utils.ts`, `getCertificates` | the certificates, fetched once per process | `decodeAndVerifyMessage` | keys replaced while a process keeps old certificates, concurrent fetches | what is handed on is genuine in every part that counts; a genuine message is discarded only for a reason |
| pairing, `device.service.ts`, `fb-agent-cli.ts` | the device data file, its copy in memory | prompt loop, `pair_device`, save, `isPaired`, `getDeviceData` | failing or half-finished writes, a lost answer, restarts | the main loop runs only with complete device data; a token is wasted only for a reason |
| process, `index.ts` | - | start, exit on an uncaught exception, log of a rejection | restarts with empty memory | see `Delivery` and `DevicePairing` |

How they interact: MAG's frames (or the long poll) call `handleMessages`
without awaiting it; the handler calls the customer's server and MAG through
promises; `updateStatus`, shared by handlers and the poll, starts broadcasts
and acks whose callbacks change the cache later, in any order; they go over the
socket when `isConnected()`, else over HTTP; every HTTP request and every
connection attempt takes a token from the cache that `scheduleReconnect` drops.
Before all this the process asks for a pairing token until the device data file
exists; `handleMessages` verifies with the certificates the process has fetched.
The customer's server calls the HSM facade for each signature.

## Modules

* **`MessageService`** models `messages.service.ts` and the poll. JavaScript
  runs one stack at a time, so a step is the code from one `await` to the next
  (`OnStack` marks the steps of one stretch). `task` holds the activations with
  the position they are parked at (`certs`, `sign`, `status`, `added`, `flush`,
  `final`, `discard`); `ops` holds the broadcasts and acks in flight, which
  outlive the activation that started them. `UpdateNew`, `UpdateCached` and
  `Added` are the body of the loop of `updateStatus`, cut at its one inner
  `await` (line 219); `Flushed`, `Updated` and `Throw` are the two
  `Promise.all`; `BroadcastDone`, `AckDone` and `OpFails` are the `then`
  callbacks. The two peers may answer anything.
* **`Delivery`** EXTENDS it with MAG (`queued`, `unacked`, `instance`), the
  session between the two (`connected`, `halfOpen`) and the customer's server (`custStatus`). Both are external: what they do is what the
  comments of `messages.service.ts:18-26, 278-280` and `README.md:104` say the
  agent counts on. Faults: lost sessions (every unacked message is redelivered,
  perhaps by an instance with another msgId prefix), calls that fail before or
  after they took effect, and crashes of the agent. In WebSocket mode a session
  may break before the agent notices (`SessionBreaks` sets `halfOpen`): what is
  written from then on is never read, but its callback succeeds
  (`AckFrameLost`, `BroadcastFrameLost`). A broadcast awaits its token first, so
  that its socket may have closed when it is sent; it is then rejected
  (`BroadcastFails`, `fb-server-ws.api.ts:105-108`), whether or not
  `BroadcastsMayFail` lets broadcasts fail for other reasons.
  `failed` is a history variable: the requests of which a broadcast was
  rejected, was written and not read, or was in flight at a crash.
* **`RequestLifecycle`** is the abstract specification of what the three promise
  together about a request: MAG holds it, the customer decides it, an answer is
  attempted, what is published is the decision, and MAG releases it once an
  answer has been attempted, for good. `Delivery` instantiates it (`Lifecycle`):
  `held` is what is queued or unacked, `attempted` are the requests whose
  broadcast is in flight, has arrived or has failed. A step of the agent maps to
  one step of the life cycle or to none; the abstract `Settle` takes sets
  because a crash lets any part of what was sent arrive.
* **`FbServerWs`** models `fb-server-ws.api.ts`. Every field of the class is a
  variable; a timer is recorded as the socket its closure captured; `sock` is
  the `ws` library: which events a socket may still emit. It stands for
  `connected` of `MessageService`, where the socket just opens and closes.
* **`Connection`** is the abstract specification of that client: one attempt
  after the other, and the pause between two of them. `FbServerWs` instantiates
  it (`Managed`): `Phase` says which part of an attempt the fields are in, and
  "wedged" for values no attempt has, so that a client that is stuck, or runs two
  attempts, is no behaviour of `Connection`. A superseded socket, a ping, a pong
  and a timer that finds nothing to do are stutters.
* **`TokenCache`** models the token cache of `fb-server.api.ts` and its reset in
  `scheduleReconnect`. `WsConnect` is `connect()`; `Calls` are the other
  requests. Time is counted in ticks: a token holds the ticks it has left.
* **`CustomerServer`** models the message routes of `examples/server/src`. A
  handler is one HTTP call, in any process; each database call is one step.
  `asked` is what the agent's call is about and `reply`, a history variable, the
  last answer to it.
* **`Customer`** is the abstract specification of a customer's server: it knows
  what it was asked, decides each request once, and answers every call with the
  status of each of its requests; only an operator overrules a decision.
  `CustomerServer` instantiates it (`Contract`: `status` is the database,
  `overruled` the requests of operators' calls). `Delivery` assumes such a
  customer: its `CustomerDecides` is a step of it, and its `Reports` is what
  `StillTrue` says of a reply, however late it is read.
* **`HsmFacade`** models the PKCS#11 session of the example server, one step per
  library call: `pc` is the call that comes next. `session`, `loggedIn` and
  `active` are the token's view of the facade's session; `LinkLost` takes them
  away between any two calls. The library is external. `call` records what
  happened during a call, so that properties can say under which circumstances
  it must succeed. The signature or error of `sign` is the choice of
  `CustomerServer`'s `Sign`.
* **`DevicePairing`** models the life of a process up to its main loop: `file` is
  the device data file (absent, half-written, or a device), `cache` its copy in
  memory, `used` what Fireblocks has taken. `stopped` is a process whose `main`
  was rejected: `index.ts:12-15` logs the rejection and the process idles.
* **`Verification`** EXTENDS it with the certificates. A message is a record of
  the parts the code looks at: form, JWT key, type, signing service, keys of the
  payload and of the policy signature, major version. `Composed` is what
  Fireblocks sends with one generation of keys, `Altered` changes one part.
  `certs` is the generation a process verifies with. Each step that verifies
  chooses the message then: which part of a batch is looked at does not depend
  on the others. `served` is a history variable: the generation the first fetch
  of the process was answered with, whatever answer is kept in the end.
* **`...Proofs`** hold the theorems of the module they are named after;
  `VerificationProofs` also those of `DevicePairing`.
* **`MC...`** only add names for model values, and the symmetry of activations,
  which neither the code nor the properties tell apart.

Definitions named `Wrong...` stand just above a definition and are the same
with a defect somebody could introduce; each names the property that catches
it. They are used by no specification.

## Runs

| run | checks | instance and what it reaches |
|---|---|---|
| `handlers` | `TypeOK`, `CacheConsistent` | two activations (a handler and the poll, or two handlers), two requests and a cache of one: evictions, late deletions and zombie re-adds all happen. 0.9M states |
| `delivery_ws` | `DTypeOK`, `AnswersAgree`, `KeepsLifecycle` | WebSocket mode, two activations, a request and an unknown message, two msgIds, broadcasts that fail, one session that breaks and is lost (frames rejected or never read) or one crash. 0.7M states |
| `delivery_moves` | `NeverAckedUndecided`, `NoForeignAck`, `BroadcastsBounded` | HTTP mode, batches of up to two, two requests cached at once when a session moves to an instance with another prefix, or a crash; `BROADCAST_BATCH_SIZE` 1, so that a batch flushes in mid-loop and goes on with the aliased arrays. 0.7M states |
| `delivery_live` | `EventuallyAnswered`, `EventuallyDischarged`, `ActivationsEnd`, `PendingIsPolled` | WebSocket mode, one request, one activation, two instances, one lost session, frames rejected or never read, failing calls, broadcasts that fail. 14k states |
| `lost_response` | `NoLostResponse` **is violated** | HTTP mode with broadcasts that may fail, no other fault |
| `ws` | `TypeOK`, `NeverWedged`, `Supervised`, `NoOrphanSocket`, `ImplementsConnection`, `Reconnects`, `DeadSocketReleased` | three sockets with events to come: the current one and two superseded ones; a base and a cap that doubling does not hit exactly |
| `token` | `TypeOK`, `NeverSentExpired`, `Reconnects`, `HttpHeals` | `connect()` and one more caller, lives of three ticks, a skew of one, one revocation |
| `stale_token` | `ReconnectsAfresh` **is violated** | two callers beside `connect()` |
| `customer_server` | `TypeOK`, `SignedOnce`, `ImplementsCustomer`, `DecidedInTheEnd` | two calls at once, a request of a supported and one of an unsupported algorithm, one crash. 0.8M states |
| `hsm` | `TypeOK`, `OneLossRecovered`, `ReturnedKeysStored`, `CallsEnd` | two keys, two attempts; the link drops, calls fail and the process dies at any step. 67k states |
| `hsm_relogin` | `RecoversFromReopen` **is violated** | the same instance |
| `startup` | `VTypeOK`, `RunsPaired`, `StoppedExplained`, `NothingElseWasted`, `SavedForGood`, `StartsUp`, `HandledIsGenuine`, `DiscardExplained` | two pairing tokens, two activations that fetch certificates, two replacements of the keys, any number of restarts; every message of three types and services with at most one altered part. 29k states |

Bounds. `Tasks` bounds the activations alive at once: two are enough for every
race the code can have between a reader and a writer of the same entry. Ids are
reused when nobody knows them any more, so `MsgIds` bounds the deliveries alive,
not their number; the same holds for `Sockets`. For
liveness each instance has an id more than there are bodies, since the cache
may keep one that was acked and MAG must never lack a number; in the safety
runs it may, which only cuts behaviours short. `PrefixSize` is 10 instead of
1000000. `MaxFaults` is the number of lost sessions and crashes, at any point of
a run: one, after which the liveness run must still get to its end; the safety
theorems hold for any number.
`MaxBatch` is 1 where a batch only repeats what two activations do, and
2 where the flush is the question. The constant `MaxRevocations` is 1, since a
second revocation finds the same states with other numbers. `MaxRotations` is 2:
one before and one during the life of a process, or two fetches that differ.
Two `Keys` of the HSM are enough, since its calls are served one at a time and
touch one key each. `Tokens` is 2: one that was wasted and one that was not.
What these bounds cut off of the safety properties is covered by the proofs,
which hold for every value of the constants; `BroadcastsAreBounded`, for one,
covers batches in which several items pass between two flushes.
`CHECK_DEADLOCK FALSE` is said only for `ws`: a stopped agent with no event left
to come really stops.

## What the violations show

* `lost_response`: for a decided request the broadcast and the ack are started
  together and not ordered (`messages.service.ts:249-260`). If the ack arrives
  and the broadcast fails, MAG drops the message, the `then` of the ack deletes
  the entry, and the error of the broadcast ends the activation. Nobody sends
  the response again. At-least-once, which the comments at lines 18-26 and
  278-280 rely on, needs the message to be unacked, and it was acked. A crash
  at that moment does the same, and in WebSocket mode so does a lost session:
  the ack frame is written while the broadcast awaits its token, and the
  broadcast is then rejected (`fb-server-ws.api.ts:105-108`), or written to a
  socket of which MAG reads no more and not sent again (lines 92-93).
  What does hold is that an answer was attempted before MAG
  released the request (`KeepsLifecycle`) and that a request which is not
  answered had a failed broadcast beside an ack that got through
  (`EventuallyAnswered`). `NoLostResponse` itself is proved where broadcasting
  calls do not fail and no process dies: in HTTP mode whatever sessions are lost,
  in WebSocket mode up to the first session that breaks (`OnlyFailuresLose`).
* `stale_token`: `fb-server-ws.api.ts:296-298` drops the token so that "the next
  connect() force-fetches a fresh one". A fetch already on its way answers
  after the drop and is cached by `rememberAccessToken`; `connect()` reuses that
  older token. It is harmless in the end: the failed attempt drops the cache
  once more, and `Reconnects` holds in the run `token`. The comment is true
  whenever no other caller's token is on its way at the drop (`AfreshUnlessLate`).
* `hsm_relogin`: `reopenSession` keeps the session that `C_OpenSession` returned
  although `C_Login` then failed (`hsm-facade.ts:135-136`). From then on private
  keys are not found: `sign` throws an error of its own that carries no PKCS#11
  code, so that nothing re-opens the session until the link breaks again or the
  process is restarted. The comment at lines 125-126 promises recovery.

The model of the HSM facade also shows what leaves an operation active on the
shared session, so that the next call fails: a payload that is not a string
(`hsm-facade.ts:367, 409` after the `...Init`), and a search that fails half-way
(line 330). `OneLossRecovered` names the circumstance (`call.free`).
`StoppedExplained` and `SavedForGood` show the one file no restart repairs: a
device data file that was left half-written counts as paired and cannot be read.

The model of the example server also shows where a request stays `PENDING_SIGN`
for good: after an unsupported algorithm in the same call
(`hsm-sign-service.ts:50-55`) and after a crash between insert and update.
`DecidedInTheEnd` names both exceptions; an operator's call resolves them.

## Fairness

* `MessageService`: the event loop serves its queues in order, so an activation
  or a callback that is due gets the stack, and every request settles. Because
  others take the stack in between, a step is enabled again and again rather
  than always: fairness is strong. That requests settle is an assumption: axios
  is used without a timeout (`customer-server.api.ts:9, 29`).
* `Delivery` adds: MAG delivers and redelivers, the customer decides, a call
  repeated for ever succeeds once, an ack repeated for ever arrives once, and a
  session that has broken ends and another opens. The keep-alive and the
  watchdog see to the last: `DeadSocketReleased` and `Reconnects` of the run
  `ws`.
* `FbServerWs`: timers fire, the library emits the `close` it owes, and MAG's
  token and upgrade endpoints answer well once in infinitely many attempts.
  The token fetch has no timeout; that it settles is assumed.
* `TokenCache`: calls are made and answered; time passing is assumed only where
  the property says so (`HttpHeals`), since in WebSocket mode it is not needed.
* `CustomerServer`: calls being served go on, unless their process dies.
* `HsmFacade`: the thread runs a call to its end. Nothing is assumed of the link:
  `CallsEnd` holds however often it drops.
* `Verification` (`StartsUp`): timers fire, the operator answers the prompt and
  enters an unused token if there is one, a `pair_device` call that is repeated
  is answered once, and writing the file is one call that returns. Nothing is
  assumed of restarts: the property speaks of a process that from some point on
  stays up, and says that this very process gets to its main loop.

## Proofs

All theorems hold for every value of the constants that satisfies the named
assumptions (`ConstantsAssumption` of each module). TLC evaluates those on every
run.

* `FbServerWsProofs`: `TypeCorrect`, `AlwaysOneAttempt` (`NeverWedged`),
  `AlwaysSupervised` (`Supervised`), `NoOrphans` (`NoOrphanSocket`) and
  `ManagesOneConnection` (`ImplementsConnection`). The inductive invariant is the
  conjunction of the four state properties and "nothing runs before start": none
  is inductive alone. That there is one attempt needs that a timer belongs to the
  current socket, which needs that only the current socket lives. The refinement
  uses that invariant to show that `Phase` is never "wedged", and maps each
  action to one step of `Connection` or to a stutter.
* `MessageServiceProofs`: `TypeCorrect`, `CacheIsConsistent`,
  `BroadcastsAreBounded`, `ActivationsGoForward` and `OnePollAtATime`. `TypeOK` becomes inductive
  with two facts: what is still to be signed belongs to the batch, and what is
  broadcast has a final status. The cache argument
  rests on lemmas about `Without`: it removes the one occurrence and keeps the
  others distinct. For the bound, `Covered` relates the broadcasts in flight to
  the counter `n`: inside the loop they are at most `n`, which is below the
  batch size; everywhere else outside a flush there are none. A flush that
  rejects leaves broadcasts behind, and the activation cannot be used again
  before they have settled. `ActivationsGoForward` is the safety part of
  `ActivationsEnd`: the place of an activation is a pair, the stage of
  `handleMessages` or of the poll and, within a stage, four times the items left
  plus what remains of the current one; `Shaped` says which places there are.
  Every answer and every step of its own lowers the pair, and nothing else
  raises it. `OnePollAtATime` adds that the flag which keeps a second poll from
  starting always belongs to a running one, so that no error ends the polling.
* `DeliveryProofs`: `DTypeCorrect`, `OnlyDecidedAcked`, `AnswersTrue`,
  `OwnAcksOnly`, `ImplementsLifecycle`, `ReleasedForGood`, `LossesExplained` and
  `OnlyFailuresLose`. The invariant `DInv` says that one
  msgId never names two bodies among everything that still holds it (deliveries,
  cache, batches, items, operations), that what any item, cached status or
  broadcast says of a request is final only if it is the customer's decision,
  that an ack or a released request has a decision and an attempted answer, and
  that only decided requests have failed broadcasts. Each part needs the others:
  an ack removes exactly its own request because ids are not shared, and it is
  for a decided request because the status beside it was true. The refinement
  maps initial states to initial states and each action to a step of
  `RequestLifecycle` or a stutter, from that invariant. `ReleasedForGood` then
  follows from the abstract steps alone. `LossesExplained` is the finding of
  `lost_response` the other way round: a released request is answered, or its
  broadcast is in flight, or one is in `failed`. `OnlyFailuresLose` adds when
  none is: as long as a session has not broken (`Calm`), every frame reaches MAG,
  for which the invariant keeps that what is in flight over the socket was sent
  on a session that still stands.
* `HsmFacadeProofs`: `TypeCorrect`, `SurvivesOneLoss` (`OneLossRecovered`),
  `KeysComplete` (`ReturnedKeysStored`), `CallsGetOn` and `AnswersFromStored`.
  The invariant follows one attempt: as long as at most one loss has happened in
  the call and nothing else failed, either the session is in order and the search
  will find the key, or it is lost and an attempt is left. `CallsGetOn` is the
  safety part of `CallsEnd`: `StepsLeft`, eight for each attempt that is left and
  the rank of the next library call within one, is lowered by every library call,
  whatever it returns.
* `VerificationProofs`: `TypeCorrect`, `MainLoopPaired` (`RunsPaired`),
  `IdlingExplained` (`StoppedExplained`), `TokensAccounted`
  (`NothingElseWasted`), `DataSavedForGood` (`SavedForGood`),
  `OnlyGenuineHandled` and `DiscardsExplained`. The invariant
  says in addition that the copy in memory is what the file holds, that a token
  being saved has been used, and that certificates and their answers in flight
  are not older than the first answer of the process, whatever overtakes what
  (`ServedInLife`): `DiscardExplained` needs that of every later verification.
* `TokenCacheProofs`: `TypeCorrect`, `SkewIsEnough` (`NeverSentExpired`) and
  `AfreshUnlessLate`. A call holds a token for at most `Skew` ticks, and had more
  than `Skew` left when it took it: `Holds` adds the two numbers, and their sum
  stays above `Skew` whatever ticks in between. `AfreshUnlessLate` assumes of
  each step that no other caller's answer is on its way when the cache is dropped
  (`DropsAlone`), and shows that then no token from before a loss can come into
  the cache or into the hands of `connect()`.
* `CustomerServerProofs`: `TypeCorrect`, `Idempotent` (`SignedOnce`),
  `IsTheCustomer` (`ImplementsCustomer`), `RepliesNeverFalse` and
  `NothingForgotten`. `Owned(r)`: at most one call has `r` still to
  sign, only while the HSM has not been asked and `r` is pending; at most one
  has it to write, only after it asked. The upsert that inserts `r` is the only
  step that gives it to a call. From this a decision is never written twice, and
  what a call was asked about is in the database when it answers, because each of
  its requests was upserted or known before: the refinement.
  `NothingForgotten` is the safety part of `DecidedInTheEnd`: in HOT mode a
  pending request is in the hands of a call, or a process died, or it was left
  behind.

Only model-checked: all liveness properties, since the prover does not reason
about fairness and `ENABLED`. For `ActivationsEnd`, `CallsEnd` and
`DecidedInTheEnd` the theorems above leave only that a step which is due is
taken. And the three properties whose violation a run shows; two of them are
proved under the condition that rules the violation out.

## Plan

Done, in this order: `MessageService`, `Delivery`, `FbServerWs`, `TokenCache`,
`CustomerServer`, `HsmFacade`, `DevicePairing`, `Verification`,
`RequestLifecycle`, `Customer`, `Connection`, with the proofs of all of them.
What is left:

1. `FbServerWs` as an implementation of the changes of `connected` in
   `MessageService`, and `Delivery`'s customer as an instance of `Customer`.
2. The `tenantId` claim beside the token in `TokenCache`, read across two awaits
   (`fb-server-ws.api.ts:100-101`). Every token of a device carries the same
   claim, so that this matters only for a device that was paired anew.
3. Proofs: the safety parts of the other liveness arguments (`Reconnects`,
   `StartsUp`), and what is missing to recover from a re-opening
   that failed (`RecoversFromReopen`).

## Not modelled

Payloads, signatures and response bodies (their outcome is an input);
`extractMessageUniqueId`, whose result is the request's identity; logging and
headers; the HTTP loop's retries without a pause when `getMessages` fails
(`fireblocks-agent.ts:38-44`), which is a matter of rate; calls that never
settle (axios is used without a timeout): with one the poll or the connection
attempt stops for good, and the fairness assumes there are none;
`randomlySignOrFailMessagesAsync`, which no route calls, and `dispose`, which
nothing calls; the ASN.1 and PEM encodings of a public key; configuration
constants and the parsing of environment variables; express and database
wiring (`server.ts`, `mongo.connect.ts`, `authorization.middleware.ts`), which
has no state of its own.
