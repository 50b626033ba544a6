----------------------------- MODULE FbServerWs -----------------------------
(***************************************************************************)
(* src/services/fb-server-ws.api.ts: how the agent keeps one WebSocket to  *)
(* MAG open.  The state is the object's fields; the sockets of the ws      *)
(* library are modelled by the events they may still emit.  A timer is     *)
(* recorded as the socket its closure captured; when it fires is open,     *)
(* since any of the delays may pass between any two events.                *)
(***************************************************************************)
EXTENDS Integers, FiniteSets

CONSTANTS
  Sockets,                              \* bound: sockets with events to come
  None,                                 \* null
  RECONNECT_BASE_MS, RECONNECT_MAX_MS

ASSUME ConstantsAssumption ==
  /\ None \notin Sockets
  /\ RECONNECT_BASE_MS \in Nat \ {0}
  /\ RECONNECT_MAX_MS \in Nat
  /\ RECONNECT_BASE_MS <= RECONNECT_MAX_MS

VARIABLES
  started,            \* has start() been called (fireblocks-agent.ts:30, once)
  stopped,
  fetching,           \* activations of connect() that await the access token
  ws,
  sock,               \* library: the state of each socket
  connectTimer,       \* the socket of the open watchdog, or None
  pingTimer,          \* the socket of the keep-alive, or None
  reconnectTimer,     \* is a reconnect scheduled
  reconnectDelayMs,
  isAlive

timers == <<connectTimer, pingTimer>>
backoff == <<reconnectTimer, reconnectDelayMs>>
vars == <<started, stopped, fetching, ws, sock, timers, backoff, isAlive>>

(* connecting: the upgrade goes on; stalled: it never completes by itself. *)
(* open: the peer is there; half: it is gone and nobody has noticed.       *)
(* erroring: 'error' then 'close' are still to come; closing: 'close' is.  *)
States == {"none", "connecting", "stalled", "open", "half", "erroring", "closing"}
Connecting == {"connecting", "stalled"}
Open == {"open", "half"}              \* readyState OPEN

Init ==
  /\ started = FALSE /\ stopped = FALSE
  /\ fetching = 0
  /\ ws = None
  /\ sock = [s \in Sockets |-> "none"]
  /\ connectTimer = None /\ pingTimer = None
  /\ reconnectTimer = FALSE
  /\ reconnectDelayMs = RECONNECT_BASE_MS
  /\ isAlive = FALSE

isConnected == ws # None /\ sock[ws] \in Open

-----------------------------------------------------------------------------
(* connect(), up to its await and from it.                                 *)

EnterConnect ==
  /\ fetching' = fetching + 1
  /\ isAlive' = FALSE

(* Definitions named Wrong... are variants of the one below them with a    *)
(* plausible defect: with it, the property named there must fail.          *)

(* The doubled delay is not capped: TypeOK fails.                          *)
WrongCap ==
  IF stopped \/ reconnectTimer THEN UNCHANGED backoff
  ELSE reconnectTimer' = TRUE /\ reconnectDelayMs' = 2 * reconnectDelayMs

(* It also drops the cached access token (module TokenCache).              *)
ScheduleReconnect ==
  IF stopped \/ reconnectTimer THEN UNCHANGED backoff
  ELSE /\ reconnectTimer' = TRUE
       /\ reconnectDelayMs' = IF 2 * reconnectDelayMs < RECONNECT_MAX_MS
                              THEN 2 * reconnectDelayMs ELSE RECONNECT_MAX_MS

Start ==
  /\ ~started
  /\ started' = TRUE /\ stopped' = FALSE
  /\ EnterConnect
  /\ UNCHANGED <<ws, sock, timers, backoff>>

ReconnectTimerFires ==
  /\ reconnectTimer
  /\ reconnectTimer' = FALSE
  /\ IF stopped THEN UNCHANGED <<fetching, isAlive>> ELSE EnterConnect
  /\ UNCHANGED <<started, stopped, ws, sock, timers, reconnectDelayMs>>

Fresh(s) == sock[s] = "none" /\ s \notin {ws, connectTimer, pingTimer}

(* Does not look at stopped after the await: NoOrphanSocket fails.         *)
WrongTokenArrives(s) ==
  /\ fetching > 0 /\ fetching' = fetching - 1
  /\ Fresh(s)
  /\ ws' = s /\ connectTimer' = s
  /\ sock' = [sock EXCEPT ![s] = "connecting"]
  /\ UNCHANGED <<started, stopped, pingTimer, backoff, isAlive>>

(* Resets the delay when the attempt starts, not when it succeeds:         *)
(* ImplementsConnection fails.                                             *)
WrongReset(s) ==
  /\ fetching > 0 /\ fetching' = fetching - 1
  /\ IF stopped THEN UNCHANGED <<ws, sock, connectTimer, reconnectDelayMs>>
     ELSE /\ Fresh(s)
          /\ ws' = s /\ connectTimer' = s
          /\ sock' = [sock EXCEPT ![s] = "connecting"]
          /\ reconnectDelayMs' = RECONNECT_BASE_MS
  /\ UNCHANGED <<started, stopped, pingTimer, reconnectTimer, isAlive>>

TokenArrives(s) ==
  /\ fetching > 0 /\ fetching' = fetching - 1
  /\ IF stopped THEN UNCHANGED <<ws, sock, connectTimer>>
     ELSE /\ Fresh(s)
          /\ ws' = s /\ connectTimer' = s
          /\ sock' = [sock EXCEPT ![s] = "connecting"]
  /\ UNCHANGED <<started, stopped, pingTimer, backoff, isAlive>>

(* A failed token fetch is only logged: Reconnects fails.                  *)
WrongTokenFails ==
  /\ fetching > 0 /\ fetching' = fetching - 1
  /\ UNCHANGED <<started, stopped, ws, sock, timers, backoff, isAlive>>

(* The token is refused, or the WebSocket constructor throws.              *)
TokenFails ==
  /\ fetching > 0 /\ fetching' = fetching - 1
  /\ ScheduleReconnect
  /\ UNCHANGED <<started, stopped, ws, sock, timers, isAlive>>

Stop ==
  /\ started /\ ~stopped
  /\ stopped' = TRUE
  /\ connectTimer' = None /\ pingTimer' = None /\ reconnectTimer' = FALSE
  /\ ws' = None
  /\ sock' = IF ws = None \/ sock[ws] = "erroring" THEN sock
             ELSE [sock EXCEPT ![ws] = IF @ \in Connecting THEN "erroring" ELSE "closing"]
  /\ UNCHANGED <<started, fetching, reconnectDelayMs, isAlive>>

-----------------------------------------------------------------------------
(* Events of the sockets.  Only 'close' and 'error' look at the identity   *)
(* of the socket.                                                          *)

(* The keep-alive is not started: Supervised fails.                        *)
WrongOpenEvent(s) ==
  /\ sock[s] = "connecting"
  /\ sock' = [sock EXCEPT ![s] = "open"]
  /\ connectTimer' = None
  /\ reconnectDelayMs' = RECONNECT_BASE_MS
  /\ isAlive' = TRUE
  /\ UNCHANGED <<started, stopped, fetching, ws, pingTimer, reconnectTimer>>

OpenEvent(s) ==
  /\ sock[s] = "connecting"
  /\ sock' = [sock EXCEPT ![s] = "open"]
  /\ connectTimer' = None /\ pingTimer' = s
  /\ reconnectDelayMs' = RECONNECT_BASE_MS
  /\ isAlive' = TRUE
  /\ UNCHANGED <<started, stopped, fetching, ws, reconnectTimer>>

(* 'pong' or 'message'; a socket being closed may still emit what it had   *)
(* read.                                                                   *)
Traffic(s) ==
  /\ sock[s] \in {"open", "closing"}
  /\ isAlive' = TRUE
  /\ UNCHANGED <<started, stopped, fetching, ws, sock, timers, backoff>>

(* Without the identity guard: a late 'close' of a superseded socket makes *)
(* NeverWedged fail.                                                       *)
WrongRelease(s) ==
  /\ connectTimer' = None /\ pingTimer' = None /\ ws' = None
  /\ ScheduleReconnect

(* Release the current socket and schedule a reconnect.                    *)
Release(s) ==
  IF ws = s
  THEN /\ connectTimer' = None /\ pingTimer' = None /\ ws' = None
       /\ ScheduleReconnect
  ELSE UNCHANGED <<ws, timers, backoff>>

CloseEvent(s) ==
  /\ sock[s] = "closing"
  /\ sock' = [sock EXCEPT ![s] = "none"]
  /\ Release(s)
  /\ UNCHANGED <<started, stopped, fetching, isAlive>>

ErrorEvent(s) ==
  /\ sock[s] = "erroring"
  /\ sock' = [sock EXCEPT ![s] = "closing"]
  /\ Release(s)
  /\ UNCHANGED <<started, stopped, fetching, isAlive>>

(* The network: an upgrade stalls, fails or times out (handshakeTimeout),  *)
(* a peer vanishes, closes the connection or sends what the library        *)
(* rejects.                                                                *)
Goes(s, from, to) ==
  /\ sock[s] \in from
  /\ sock' = [sock EXCEPT ![s] = to]
  /\ UNCHANGED <<started, stopped, fetching, ws, timers, backoff, isAlive>>

Stalls(s) == Goes(s, {"connecting"}, "stalled")
Fails(s) == Goes(s, Connecting \cup {"open"}, "erroring")
Vanishes(s) == Goes(s, {"open"}, "half")
Closes(s) == Goes(s, Open, "closing")

-----------------------------------------------------------------------------
(* Timers.  terminate() makes the library emit 'close', preceded by        *)
(* 'error' when the upgrade was not complete.                              *)

Terminated(s) == CASE sock[s] \in Connecting -> "erroring"
                   [] sock[s] \in Open -> "closing"
                   [] OTHER -> sock[s]

OpenWatchdogFires ==
  LET s == connectTimer
  IN  /\ s # None
      /\ connectTimer' = None
      /\ IF ws # s THEN UNCHANGED <<ws, sock, pingTimer, backoff>>
         ELSE /\ pingTimer' = None /\ ws' = None
              /\ sock' = [sock EXCEPT ![s] = Terminated(s)]
              /\ ScheduleReconnect
      /\ UNCHANGED <<started, stopped, fetching, isAlive>>

(* The ping does not clear isAlive: DeadSocketReleased fails.              *)
WrongKeepAlive ==
  /\ pingTimer # None /\ pingTimer = ws
  /\ IF isAlive THEN UNCHANGED vars
     ELSE /\ pingTimer' = None /\ ws' = None
          /\ sock' = [sock EXCEPT ![ws] = Terminated(ws)]
          /\ ScheduleReconnect
          /\ UNCHANGED <<started, stopped, fetching, connectTimer, isAlive>>

KeepAliveTicks ==
  LET s == pingTimer
  IN  /\ s # None
      /\ IF ws # s
         THEN pingTimer' = None /\ UNCHANGED <<ws, sock, backoff, isAlive>>
         ELSE IF isAlive
         THEN isAlive' = FALSE /\ UNCHANGED <<pingTimer, ws, sock, backoff>>
         ELSE /\ pingTimer' = None /\ ws' = None
              /\ sock' = [sock EXCEPT ![s] = Terminated(s)]
              /\ ScheduleReconnect
              /\ UNCHANGED isAlive
      /\ UNCHANGED <<started, stopped, fetching, connectTimer>>

-----------------------------------------------------------------------------
SocketEvent(s) == OpenEvent(s) \/ Traffic(s) \/ CloseEvent(s) \/ ErrorEvent(s)
Network(s) == Stalls(s) \/ Fails(s) \/ Vanishes(s) \/ Closes(s)
Timer == ReconnectTimerFires \/ OpenWatchdogFires \/ KeepAliveTicks

Next ==
  \/ Start \/ Stop \/ TokenFails \/ Timer
  \/ \E s \in Sockets : TokenArrives(s) \/ SocketEvent(s) \/ Network(s)

Spec == Init /\ [][Next]_vars

-----------------------------------------------------------------------------
(* Every field has its type.                                               *)
TypeOK ==
  /\ started \in BOOLEAN /\ stopped \in BOOLEAN /\ reconnectTimer \in BOOLEAN
  /\ isAlive \in BOOLEAN
  /\ fetching \in Nat
  /\ sock \in [Sockets -> States]
  /\ {ws, connectTimer, pingTimer} \subseteq Sockets \cup {None}
  /\ reconnectDelayMs \in RECONNECT_BASE_MS..RECONNECT_MAX_MS

(* Until it is stopped the agent is always on exactly one way to a         *)
(* connection: it has a socket, awaits a token for one, or has scheduled a *)
(* reconnect.  None would be a wedge, two would be two connections; an     *)
(* error followed by a close, a close that arrives late and a watchdog     *)
(* that fires at the wrong time must all keep it so (lines 177-227, 289).  *)
NeverWedged ==
  IF started /\ ~stopped
  THEN \/ ws # None /\ fetching = 0 /\ ~reconnectTimer
       \/ ws = None /\ fetching = 1 /\ ~reconnectTimer
       \/ ws = None /\ fetching = 0 /\ reconnectTimer
  ELSE ws = None /\ fetching <= 1 /\ ~reconnectTimer

(* The current socket is always watched: by the open watchdog until it is  *)
(* open, by the keep-alive from then on, or the library still owes its     *)
(* 'error' or 'close' (lines 24-32); never by both timers, and no timer of *)
(* an earlier socket is left to act on it.                                 *)
Supervised ==
  /\ {connectTimer, pingTimer} \subseteq {None, ws}
  /\ None \in {connectTimer, pingTimer}
  /\ ws # None =>
       \/ sock[ws] \in Connecting /\ connectTimer = ws
       \/ sock[ws] \in Open /\ pingTimer = ws
       \/ sock[ws] \in {"erroring", "closing"}

(* Only the current socket is alive, and none once the agent is stopped:   *)
(* every other one is on its way to be closed, also when stop() ran while  *)
(* connect() awaited its token (lines 125-128).                            *)
NoOrphanSocket == \A s \in Sockets : sock[s] \in Connecting \cup Open => s = ws /\ ~stopped

(* The phase of the one attempt, if there is one and only one.             *)
Running == started /\ ~stopped
HasSocket == Running /\ ws # None /\ fetching = 0 /\ ~reconnectTimer
Phase ==
  CASE ~started -> "new"
    [] started /\ stopped -> "stopped"
    [] Running /\ ws = None /\ fetching = 1 /\ ~reconnectTimer -> "fetching"
    [] HasSocket /\ sock[ws] \in Connecting -> "connecting"
    [] HasSocket /\ sock[ws] \in Open -> "up"
    [] HasSocket /\ sock[ws] \in {"erroring", "closing"} -> "down"
    [] Running /\ ws = None /\ fetching = 0 /\ reconnectTimer -> "waiting"
    [] OTHER -> "wedged"

Managed == INSTANCE Connection WITH phase <- Phase, delay <- reconnectDelayMs

(* Whatever order the events of the old and of the new sockets, the timers *)
(* and stop() come in, attempts follow one another, every failure of one   *)
(* doubles the pause up to its bound, once, and only a connection that     *)
(* opens makes it short again (lines 145, 177-227, 289-309).               *)
ImplementsConnection == Managed!Spec

-----------------------------------------------------------------------------
(* Timers fire, the library emits the events it owes, and MAG's token and  *)
(* upgrade endpoints answer well now and then.                             *)
Fairness ==
  /\ WF_vars(Start) /\ WF_vars(ReconnectTimerFires)
  /\ WF_vars(OpenWatchdogFires) /\ WF_vars(KeepAliveTicks)
  /\ \A s \in Sockets : WF_vars(CloseEvent(s) \/ ErrorEvent(s))
  /\ SF_vars(\E s \in Sockets : TokenArrives(s))
  /\ SF_vars(\E s \in Sockets : OpenEvent(s))
FairSpec == Spec /\ Fairness

(* The agent gets connected, and connected again after any loss.           *)
Reconnects == started ~> stopped \/ isConnected

(* A stalled or half-dead socket is given up in the end.                   *)
DeadSocketReleased ==
  \A s \in Sockets : ws = s /\ sock[s] \in {"stalled", "half"} ~> ws # s

=============================================================================
