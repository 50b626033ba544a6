-------------------------- MODULE FbServerWsProofs --------------------------
(***************************************************************************)
(* The safety of the connection manager, for every set of sockets and      *)
(* every reconnect delay.  None of the invariants of FbServerWs is         *)
(* inductive alone: that a late event cannot start a second attempt needs  *)
(* that the timers belong to the current socket, which needs that no other *)
(* socket can still open, which needs that there is one attempt at a time. *)
(* Their conjunction is inductive, with one fact added about the agent     *)
(* before start().                                                         *)
(***************************************************************************)
EXTENDS FbServerWs, TLAPS

(* Before start() nothing is under way, and stop() has nothing to stop.    *)
IdleBeforeStart == ~started => fetching = 0 /\ ~stopped

IInv == TypeOK /\ IdleBeforeStart /\ NeverWedged /\ Supervised /\ NoOrphanSocket

-----------------------------------------------------------------------------
(* ScheduleReconnect keeps the delay between its two bounds and never      *)
(* lowers it (lines 289-309).                                              *)
LEMMA BackoffType ==
  ASSUME TypeOK, ScheduleReconnect
  PROVE  /\ reconnectTimer' \in BOOLEAN
         /\ reconnectDelayMs' \in RECONNECT_BASE_MS..RECONNECT_MAX_MS
         /\ reconnectDelayMs' >= reconnectDelayMs
<1>1. CASE stopped \/ reconnectTimer
  BY <1>1, ConstantsAssumption DEF ConstantsAssumption, TypeOK, ScheduleReconnect, backoff
<1>2. CASE ~(stopped \/ reconnectTimer)
  <2>1. reconnectTimer' = TRUE
    BY <1>2 DEF ScheduleReconnect
  <2>2. reconnectDelayMs' = IF 2 * reconnectDelayMs < RECONNECT_MAX_MS
                            THEN 2 * reconnectDelayMs ELSE RECONNECT_MAX_MS
    BY <1>2 DEF ScheduleReconnect
  <2>3. QED
    BY <2>1, <2>2, ConstantsAssumption DEF ConstantsAssumption, TypeOK
<1>3. QED BY <1>1, <1>2

(* It schedules a reconnect unless the agent was stopped (lines 290-292).  *)
LEMMA Schedules ==
  ASSUME TypeOK, ScheduleReconnect
  PROVE  reconnectTimer' = (~stopped \/ reconnectTimer)
BY Zenon DEF TypeOK, ScheduleReconnect, backoff

(* The fields hold values of their types at construction (lines 43-50).    *)
LEMMA InitInv == Init => IInv
<1> SUFFICES ASSUME Init PROVE IInv
  OBVIOUS
<1>1. TypeOK
  <2>1. reconnectDelayMs \in RECONNECT_BASE_MS..RECONNECT_MAX_MS
    BY ConstantsAssumption DEF ConstantsAssumption, Init
  <2>2. fetching \in Nat /\ sock \in [Sockets -> States]
    BY DEF Init, States
  <2>3. QED
    BY <2>1, <2>2 DEF Init, TypeOK
<1>2. IdleBeforeStart /\ NeverWedged
  BY DEF Init, IdleBeforeStart, NeverWedged
<1>3. Supervised
  BY DEF Init, Supervised
<1>4. NoOrphanSocket
  BY DEF Init, NoOrphanSocket, Connecting, Open
<1>5. QED
  BY <1>1, <1>2, <1>3, <1>4 DEF IInv

-----------------------------------------------------------------------------
(* Every step keeps the types; a socket only moves between known states.   *)
LEMMA TypeStep == ASSUME IInv, [Next]_vars PROVE TypeOK'
<1>1. ASSUME NEW s \in Sockets, SocketEvent(s) PROVE TypeOK'
  <2>1. CASE OpenEvent(s)
    BY <2>1, ConstantsAssumption DEF ConstantsAssumption, OpenEvent, IInv, TypeOK, States
  <2>2. CASE Traffic(s)
    BY <2>2 DEF Traffic, IInv, TypeOK, timers, backoff
  <2>3. CASE CloseEvent(s)
    <3>1. sock' \in [Sockets -> States]
      BY <2>3 DEF CloseEvent, IInv, TypeOK, States
    <3>2. QED
      BY <2>3, <3>1, BackoffType DEF CloseEvent, Release, IInv, TypeOK, timers, backoff
  <2>4. CASE ErrorEvent(s)
    <3>1. sock' \in [Sockets -> States]
      BY <2>4 DEF ErrorEvent, IInv, TypeOK, States
    <3>2. QED
      BY <2>4, <3>1, BackoffType DEF ErrorEvent, Release, IInv, TypeOK, timers, backoff
  <2>5. QED
    BY <1>1, <2>1, <2>2, <2>3, <2>4 DEF SocketEvent
<1>2. ASSUME NEW s \in Sockets, Network(s) PROVE TypeOK'
  BY <1>2 DEF Network, Stalls, Fails, Vanishes, Closes, Goes, IInv, TypeOK, States, timers, backoff
<1>3. ASSUME NEW s \in Sockets, TokenArrives(s) PROVE TypeOK'
  BY <1>3 DEF TokenArrives, IInv, TypeOK, States, backoff
<1>4. CASE Start
  <2>1. fetching' \in Nat
    BY <1>4 DEF Start, EnterConnect, IInv, TypeOK
  <2>2. QED
    BY <1>4, <2>1 DEF Start, EnterConnect, IInv, TypeOK, timers, backoff
<1>5. CASE Stop
  <2>1. sock' \in [Sockets -> States]
    BY <1>5 DEF Stop, IInv, TypeOK, States
  <2>2. QED
    BY <1>5, <2>1 DEF Stop, IInv, TypeOK
<1>6. CASE TokenFails
  BY <1>6, BackoffType DEF TokenFails, IInv, TypeOK, timers
<1>7. CASE ReconnectTimerFires
  <2>1. fetching' \in Nat
    BY <1>7 DEF ReconnectTimerFires, EnterConnect, IInv, TypeOK
  <2>2. isAlive' \in BOOLEAN
    BY <1>7 DEF ReconnectTimerFires, EnterConnect, IInv, TypeOK
  <2>3. QED
    BY <1>7, <2>1, <2>2 DEF ReconnectTimerFires, IInv, TypeOK, timers
<1>8. CASE OpenWatchdogFires
  <2>1. sock' \in [Sockets -> States]
    BY <1>8 DEF OpenWatchdogFires, Terminated, IInv, TypeOK, States
  <2>2. QED
    BY <1>8, <2>1, BackoffType DEF OpenWatchdogFires, IInv, TypeOK, backoff
<1>9. CASE KeepAliveTicks
  <2>1. sock' \in [Sockets -> States]
    BY <1>9 DEF KeepAliveTicks, Terminated, IInv, TypeOK, States
  <2>2. QED
    BY <1>9, <2>1, BackoffType DEF KeepAliveTicks, IInv, TypeOK, backoff
<1>10. CASE UNCHANGED vars
  BY <1>10 DEF vars, timers, backoff, IInv, TypeOK
<1>11. QED
  BY <1>1, <1>2, <1>3, <1>4, <1>5, <1>6, <1>7, <1>8, <1>9, <1>10 DEF Next, Timer

-----------------------------------------------------------------------------
(* Where an attempt is and where it goes: an event of a socket that is not *)
(* current changes nothing, and each way out of an attempt enters the next *)
(* one once.                                                               *)
LEMMA WedgeStep ==
  ASSUME IInv, [Next]_vars PROVE IdleBeforeStart' /\ NeverWedged'
<1> USE DEF IInv, TypeOK, IdleBeforeStart, NeverWedged
<1>1. ASSUME NEW s \in Sockets, SocketEvent(s) PROVE IdleBeforeStart' /\ NeverWedged'
  <2>1. CASE OpenEvent(s) BY <2>1 DEF OpenEvent
  <2>2. CASE Traffic(s) BY <2>2 DEF Traffic, timers, backoff
  <2>3. CASE CloseEvent(s)
    BY <2>3, Schedules, ConstantsAssumption DEF ConstantsAssumption, CloseEvent, Release, timers, backoff
  <2>4. CASE ErrorEvent(s)
    BY <2>4, Schedules, ConstantsAssumption DEF ConstantsAssumption, ErrorEvent, Release, timers, backoff
  <2>5. QED BY <1>1, <2>1, <2>2, <2>3, <2>4 DEF SocketEvent
<1>2. ASSUME NEW s \in Sockets, Network(s) PROVE IdleBeforeStart' /\ NeverWedged'
  BY <1>2 DEF Network, Stalls, Fails, Vanishes, Closes, Goes, timers, backoff
<1>3. ASSUME NEW s \in Sockets, TokenArrives(s) PROVE IdleBeforeStart' /\ NeverWedged'
  BY <1>3, ConstantsAssumption DEF ConstantsAssumption, TokenArrives, backoff
<1>4. CASE Start BY <1>4 DEF Start, EnterConnect, timers, backoff
<1>5. CASE Stop BY <1>5 DEF Stop
<1>6. CASE TokenFails BY <1>6, Schedules DEF TokenFails, timers
<1>7. CASE ReconnectTimerFires BY <1>7 DEF ReconnectTimerFires, EnterConnect, timers
<1>8. CASE OpenWatchdogFires BY <1>8, Schedules DEF OpenWatchdogFires, backoff
<1>9. CASE KeepAliveTicks BY <1>9, Schedules DEF KeepAliveTicks, backoff
<1>10. CASE UNCHANGED vars BY <1>10 DEF vars, timers, backoff
<1>11. QED
  BY <1>1, <1>2, <1>3, <1>4, <1>5, <1>6, <1>7, <1>8, <1>9, <1>10 DEF Next, Timer
-----------------------------------------------------------------------------
(* The timers keep up with the current socket: a new socket arms the       *)
(* watchdog, 'open' trades it for the keep-alive, and whatever releases a  *)
(* socket leaves no timer of it behind.                                    *)
LEMMA SupervisedStep == ASSUME IInv, [Next]_vars PROVE Supervised'
<1> USE ConstantsAssumption
    DEF ConstantsAssumption, IInv, TypeOK, NeverWedged, IdleBeforeStart, Supervised,
        NoOrphanSocket, Connecting, Open, States
<1>1. ASSUME NEW s \in Sockets, SocketEvent(s) PROVE Supervised'
  <2>1. CASE OpenEvent(s) BY <2>1 DEF OpenEvent
  <2>2. CASE Traffic(s) BY <2>2 DEF Traffic, timers
  <2>3. CASE CloseEvent(s) BY <2>3 DEF CloseEvent, Release, timers
  <2>4. CASE ErrorEvent(s) BY <2>4 DEF ErrorEvent, Release, timers
  <2>5. QED BY <1>1, <2>1, <2>2, <2>3, <2>4 DEF SocketEvent
<1>2. ASSUME NEW s \in Sockets, Network(s) PROVE Supervised'
  BY <1>2 DEF Network, Stalls, Fails, Vanishes, Closes, Goes, timers
<1>3. ASSUME NEW s \in Sockets, TokenArrives(s) PROVE Supervised'
  BY <1>3 DEF TokenArrives, Fresh
<1>4. CASE Start BY <1>4 DEF Start, timers
<1>5. CASE Stop BY <1>5 DEF Stop
<1>6. CASE TokenFails BY <1>6 DEF TokenFails, timers
<1>7. CASE ReconnectTimerFires BY <1>7 DEF ReconnectTimerFires, timers
<1>8. CASE OpenWatchdogFires BY <1>8 DEF OpenWatchdogFires
<1>9. CASE KeepAliveTicks BY <1>9 DEF KeepAliveTicks
<1>10. CASE UNCHANGED vars BY <1>10 DEF vars, timers
<1>11. QED
  BY <1>1, <1>2, <1>3, <1>4, <1>5, <1>6, <1>7, <1>8, <1>9, <1>10 DEF Next, Timer

-----------------------------------------------------------------------------
(* No step leaves an open or opening socket behind: a socket is dropped    *)
(* only when it is closing, and a new one is made only when there is none. *)
LEMMA OrphanStep == ASSUME IInv, [Next]_vars PROVE NoOrphanSocket'
<1> USE ConstantsAssumption
    DEF ConstantsAssumption, IInv, TypeOK, NeverWedged, IdleBeforeStart, Supervised,
        NoOrphanSocket, Connecting, Open, States
<1>1. ASSUME NEW s \in Sockets, SocketEvent(s) PROVE NoOrphanSocket'
  <2>1. CASE OpenEvent(s) BY <2>1 DEF OpenEvent
  <2>2. CASE Traffic(s) BY <2>2 DEF Traffic
  <2>3. CASE CloseEvent(s) BY <2>3 DEF CloseEvent, Release
  <2>4. CASE ErrorEvent(s) BY <2>4 DEF ErrorEvent, Release
  <2>5. QED BY <1>1, <2>1, <2>2, <2>3, <2>4 DEF SocketEvent
<1>2. ASSUME NEW s \in Sockets, Network(s) PROVE NoOrphanSocket'
  BY <1>2 DEF Network, Stalls, Fails, Vanishes, Closes, Goes
<1>3. ASSUME NEW s \in Sockets, TokenArrives(s) PROVE NoOrphanSocket'
  BY <1>3 DEF TokenArrives, Fresh
<1>4. CASE Start BY <1>4 DEF Start
<1>5. CASE Stop BY <1>5 DEF Stop
<1>6. CASE TokenFails BY <1>6 DEF TokenFails
<1>7. CASE ReconnectTimerFires BY <1>7 DEF ReconnectTimerFires
<1>8. CASE OpenWatchdogFires BY <1>8 DEF OpenWatchdogFires, Terminated
<1>9. CASE KeepAliveTicks BY <1>9 DEF KeepAliveTicks, Terminated
<1>10. CASE UNCHANGED vars BY <1>10 DEF vars
<1>11. QED
  BY <1>1, <1>2, <1>3, <1>4, <1>5, <1>6, <1>7, <1>8, <1>9, <1>10 DEF Next, Timer

-----------------------------------------------------------------------------
(* The conjunction is inductive.                                           *)
THEOREM Inductive == Spec => []IInv
<1>1. IInv /\ [Next]_vars => IInv'
  BY TypeStep, WedgeStep, SupervisedStep, OrphanStep DEF IInv
<1>2. QED
  BY InitInv, <1>1, PTL DEF Spec

(* Every field of the connection manager has its type.                     *)
THEOREM TypeCorrect == Spec => []TypeOK
<1>1. IInv => TypeOK BY DEF IInv
<1>2. QED BY Inductive, <1>1, PTL

(* Until stop(), there is always exactly one attempt: a socket, a token    *)
(* being fetched for one, or one scheduled reconnect.                      *)
THEOREM AlwaysOneAttempt == Spec => []NeverWedged
<1>1. IInv => NeverWedged BY DEF IInv
<1>2. QED BY Inductive, <1>1, PTL

(* The current socket always has the timer, or the library event, that     *)
(* will act on it, and no timer acts on another one.                       *)
THEOREM AlwaysSupervised == Spec => []Supervised
<1>1. IInv => Supervised BY DEF IInv
<1>2. QED BY Inductive, <1>1, PTL

(* No socket stays open beside the current one or after stop().            *)
THEOREM NoOrphans == Spec => []NoOrphanSocket
<1>1. IInv => NoOrphanSocket BY DEF IInv
<1>2. QED BY Inductive, <1>1, PTL

-----------------------------------------------------------------------------
(* What the phase says of the fields.                                      *)
PhaseOfFields ==
  /\ ~started => Phase = "new"
  /\ started /\ stopped => Phase = "stopped"
  /\ Running /\ fetching = 1 => Phase = "fetching"
  /\ Running /\ reconnectTimer => Phase = "waiting"
  /\ Running /\ ws # None /\ sock[ws] \in Connecting => Phase = "connecting"
  /\ Running /\ ws # None /\ sock[ws] \in Open => Phase = "up"
  /\ Running /\ ws # None /\ sock[ws] \in {"erroring", "closing"} => Phase = "down"

LEMMA PhasesNow == IInv => PhaseOfFields
  BY DEF IInv, NeverWedged, PhaseOfFields, Phase, Running, HasSocket, Connecting, Open
LEMMA PhasesNext == IInv' => PhaseOfFields'
  BY PhasesNow, PTL

(* A running agent is in one of the phases of an attempt.                  *)
LEMMA RunningPhases ==
  ASSUME IInv, Running
  PROVE  /\ Phase \in {"fetching", "connecting", "up", "down", "waiting"}
         /\ ~reconnectTimer => Phase \in {"fetching", "connecting", "up", "down"}
<1>1. ws # None => sock[ws] \in Connecting \cup Open \cup {"erroring", "closing"}
  BY DEF IInv, Supervised
<1>2. ws # None \/ (fetching = 1 /\ ~reconnectTimer) \/ reconnectTimer
  BY DEF IInv, NeverWedged, Running
<1> QED
  BY <1>1, <1>2, PhasesNow DEF PhaseOfFields

(* An attempt that ends by scheduling the next one doubles the pause.      *)
LEMMA Doubles ==
  ASSUME IInv, IInv', Running, Running', ~reconnectTimer, ScheduleReconnect
  PROVE  Managed!GivesUp
<1>1. reconnectTimer' = TRUE
  BY DEF ScheduleReconnect, Running
<1>2. Phase' = "waiting"
  BY <1>1, PhasesNext DEF PhaseOfFields
<1>3. reconnectDelayMs' = IF 2 * reconnectDelayMs < RECONNECT_MAX_MS
                          THEN 2 * reconnectDelayMs ELSE RECONNECT_MAX_MS
  BY DEF ScheduleReconnect, Running
<1> QED
  BY <1>2, <1>3, RunningPhases DEF Managed!GivesUp, Managed!Goes

Still == Phase' = Phase /\ reconnectDelayMs' = reconnectDelayMs

(* Events that leave the current socket in the same group of states, and   *)
(* all events after stop(), do not concern the attempt.                    *)
LEMMA NotConcerned ==
  ASSUME IInv, UNCHANGED <<started, stopped, fetching, ws, backoff>>,
         ws # None => \/ sock'[ws] = sock[ws]
                      \/ sock[ws] \in Connecting /\ sock'[ws] \in Connecting
                      \/ sock[ws] \in Open /\ sock'[ws] \in Open
  PROVE  Still
<1>1. UNCHANGED <<started, stopped, fetching, ws, reconnectTimer, reconnectDelayMs>>
  BY DEF backoff
<1>2. HasSocket' = HasSocket /\ Running' = Running
  BY <1>1 DEF HasSocket, Running
<1>3. CASE HasSocket /\ sock'[ws] = sock[ws]
  BY <1>1, <1>2, <1>3 DEF Still, Phase
<1>4. CASE HasSocket /\ sock[ws] \in Connecting /\ sock'[ws] \in Connecting
  BY <1>1, <1>2, <1>4 DEF Still, Phase, Connecting, Open, HasSocket, Running
<1>5. CASE HasSocket /\ sock[ws] \in Open /\ sock'[ws] \in Open
  BY <1>1, <1>2, <1>5 DEF Still, Phase, Connecting, Open, HasSocket, Running
<1>6. CASE ~HasSocket
  BY <1>1, <1>2, <1>6 DEF Still, Phase
<1> QED
  BY <1>3, <1>4, <1>5, <1>6 DEF HasSocket

LEMMA AfterStop ==
  ASSUME IInv, IInv', started, stopped, UNCHANGED <<started, stopped, backoff>>
  PROVE  Still
<1>1. Phase = "stopped" /\ Phase' = "stopped"
  BY PhasesNow, PhasesNext DEF PhaseOfFields
<1> QED
  BY <1>1 DEF Still, backoff

(* A socket is current only while the agent runs.                          *)
LEMMA CurrentRuns ==
  IInv => /\ ws # None => Running /\ ~reconnectTimer /\ fetching = 0
          /\ reconnectTimer => Running
          /\ fetching > 0 => started /\ ~reconnectTimer
  BY DEF IInv, TypeOK, NeverWedged, IdleBeforeStart, Running

LEMMA EventsManaged ==
  ASSUME IInv, IInv', NEW s \in Sockets, SocketEvent(s) \/ Network(s)
  PROVE  Managed!Next \/ Still
<1> USE DEF PhaseOfFields
<1>0. sock \in [Sockets -> States] /\ (ws # None => ws \in Sockets)
  BY DEF IInv, TypeOK
<1>1. CASE OpenEvent(s)
  <2>1. s = ws /\ ws # None /\ Running
    BY <1>1, ConstantsAssumption DEF OpenEvent, IInv, NoOrphanSocket, Connecting, TypeOK, NeverWedged, Running
  <2>2. sock[ws] \in Connecting /\ sock'[ws] \in Open /\ UNCHANGED ws /\ Running'
    BY <1>0, <1>1, <2>1 DEF OpenEvent, Connecting, Open, Running
  <2>3. Phase = "connecting" /\ Phase' = "up"
    BY <2>1, <2>2, PhasesNow, PhasesNext
  <2>4. Managed!Opens
    BY <1>1, <2>3 DEF OpenEvent, Managed!Opens, Managed!Goes
  <2> QED
    BY <2>4 DEF Managed!Next
<1>2. CASE Traffic(s)
  BY <1>2, NotConcerned DEF Traffic
<1>3. CASE (CloseEvent(s) \/ ErrorEvent(s)) /\ ws = s
  <2>1. Running /\ ~reconnectTimer /\ UNCHANGED <<started, stopped>> /\ ScheduleReconnect
    BY <1>3, CurrentRuns, ConstantsAssumption DEF CloseEvent, ErrorEvent, Release
  <2>2. Managed!GivesUp
    BY <2>1, Doubles DEF Running
  <2> QED
    BY <2>2 DEF Managed!Next
<1>4. CASE (CloseEvent(s) \/ ErrorEvent(s)) /\ ws # s
  <2>1. UNCHANGED <<started, stopped, fetching, ws, backoff>>
    BY <1>4 DEF CloseEvent, ErrorEvent, Release
  <2>2. ws # None => sock'[ws] = sock[ws]
    BY <1>0, <1>4 DEF CloseEvent, ErrorEvent
  <2> QED
    BY <2>1, <2>2, NotConcerned
<1>5. CASE Stalls(s) \/ Vanishes(s)
  <2>1. UNCHANGED <<started, stopped, fetching, ws, backoff>>
    BY <1>5 DEF Stalls, Vanishes, Goes
  <2>2. ws # None => \/ sock'[ws] = sock[ws]
                     \/ sock[ws] \in Connecting /\ sock'[ws] \in Connecting
                     \/ sock[ws] \in Open /\ sock'[ws] \in Open
    BY <1>0, <1>5 DEF Stalls, Vanishes, Goes, Connecting, Open
  <2> QED
    BY <2>1, <2>2, NotConcerned
<1>6. CASE Fails(s) \/ Closes(s)
  <2>1. /\ UNCHANGED <<started, stopped, fetching, ws, backoff>>
        /\ sock[s] \in Connecting \cup Open /\ sock'[s] \in {"erroring", "closing"}
    BY <1>0, <1>6 DEF Fails, Closes, Goes, Connecting, Open
  <2>2. s = ws /\ ws # None
    BY <2>1, ConstantsAssumption DEF IInv, NoOrphanSocket
  <2>3. Running /\ Running' /\ ws' = ws
    BY <2>1, <2>2, CurrentRuns DEF Running
  <2>4. Phase \in {"connecting", "up"} /\ Phase' = "down"
    BY <2>1, <2>2, <2>3, PhasesNow, PhasesNext
  <2>5. Managed!Breaks
    BY <2>1, <2>4 DEF Managed!Breaks, Managed!Goes, backoff
  <2> QED
    BY <2>5 DEF Managed!Next
<1> QED
  BY <1>1, <1>2, <1>3, <1>4, <1>5, <1>6 DEF SocketEvent, Network

LEMMA TimersManaged ==
  ASSUME IInv, IInv', Timer
  PROVE  Managed!Next \/ Still
<1> USE DEF PhaseOfFields
<1>1. CASE ReconnectTimerFires
  <2>1. Running /\ Running' /\ fetching' = 1 /\ UNCHANGED reconnectDelayMs
    BY <1>1, CurrentRuns DEF ReconnectTimerFires, EnterConnect, Running, IInv, NeverWedged
  <2>2. Phase = "waiting" /\ Phase' = "fetching"
    BY <1>1, <2>1, PhasesNow, PhasesNext DEF ReconnectTimerFires
  <2>3. Managed!Retries
    BY <2>1, <2>2 DEF Managed!Retries, Managed!Goes
  <2> QED
    BY <2>3 DEF Managed!Next
<1>2. CASE OpenWatchdogFires
  <2>1. connectTimer = ws /\ ws # None
    BY <1>2 DEF OpenWatchdogFires, IInv, Supervised
  <2>2. Running /\ ~reconnectTimer /\ UNCHANGED <<started, stopped>> /\ ScheduleReconnect
    BY <1>2, <2>1, CurrentRuns DEF OpenWatchdogFires
  <2>3. Managed!GivesUp
    BY <2>2, Doubles DEF Running
  <2> QED
    BY <2>3 DEF Managed!Next
<1>3. CASE KeepAliveTicks
  <2>1. pingTimer = ws /\ ws # None
    BY <1>3 DEF KeepAliveTicks, IInv, Supervised
  <2>2. CASE isAlive
    BY <1>3, <2>1, <2>2, NotConcerned DEF KeepAliveTicks
  <2>3. CASE ~isAlive
    <3>1. Running /\ ~reconnectTimer /\ UNCHANGED <<started, stopped>> /\ ScheduleReconnect
      BY <1>3, <2>1, <2>3, CurrentRuns DEF KeepAliveTicks
    <3>2. Managed!GivesUp
      BY <3>1, Doubles DEF Running
    <3> QED
      BY <3>2 DEF Managed!Next
  <2> QED
    BY <2>2, <2>3
<1> QED
  BY <1>1, <1>2, <1>3 DEF Timer

LEMMA ManagedStep ==
  ASSUME IInv, IInv', [Next]_vars
  PROVE  Managed!Next \/ Still
<1> USE DEF PhaseOfFields
<1>1. CASE UNCHANGED vars
  BY <1>1, NotConcerned DEF vars
<1>2. CASE Start
  <2>1. Phase = "new" /\ Running' /\ fetching' = 1 /\ UNCHANGED reconnectDelayMs
    BY <1>2, PhasesNow DEF Start, EnterConnect, Running, IInv, IdleBeforeStart, backoff
  <2>2. Phase' = "fetching"
    BY <2>1, PhasesNext
  <2>3. Managed!Begins
    BY <2>1, <2>2 DEF Managed!Begins, Managed!Goes
  <2> QED
    BY <2>3 DEF Managed!Next
<1>3. CASE Stop
  <2>1. Running /\ started' /\ stopped' /\ UNCHANGED reconnectDelayMs
    BY <1>3 DEF Stop, Running
  <2>2. Phase' = "stopped"
    BY <2>1, PhasesNext
  <2>3. Managed!Stops
    BY <2>1, <2>2, RunningPhases DEF Managed!Stops, Managed!Goes
  <2> QED
    BY <2>3 DEF Managed!Next
<1>4. CASE TokenFails
  <2>1. started /\ ~reconnectTimer /\ ScheduleReconnect /\ UNCHANGED <<started, stopped>>
    BY <1>4, CurrentRuns DEF TokenFails
  <2>2. CASE stopped
    BY <2>1, <2>2, AfterStop DEF ScheduleReconnect
  <2>3. CASE ~stopped
    BY <2>1, <2>3, Doubles DEF Running, Managed!Next
  <2> QED
    BY <2>2, <2>3
<1>5. ASSUME NEW s \in Sockets, TokenArrives(s) PROVE Managed!Next \/ Still
  <2>1. started /\ UNCHANGED <<started, stopped, backoff>> /\ fetching = 1
    BY <1>5 DEF TokenArrives, IInv, TypeOK, NeverWedged, IdleBeforeStart
  <2>2. CASE stopped
    BY <2>1, <2>2, AfterStop
  <2>3. CASE ~stopped
    <3>1. ws' = s /\ ws' # None /\ sock'[ws'] \in Connecting /\ Running /\ Running'
      BY <1>5, <2>1, <2>3, ConstantsAssumption DEF TokenArrives, IInv, TypeOK, Connecting, Running
    <3>2. Phase = "fetching" /\ Phase' = "connecting"
      BY <2>1, <3>1, PhasesNow, PhasesNext
    <3>3. Managed!HasToken
      BY <2>1, <3>2 DEF Managed!HasToken, Managed!Goes, backoff
    <3> QED
      BY <3>3 DEF Managed!Next
  <2> QED
    BY <2>2, <2>3
<1> QED
  BY <1>1, <1>2, <1>3, <1>4, <1>5, EventsManaged, TimersManaged DEF Next

(* Whatever the number of sockets, whatever the delays and whatever order  *)
(* events, timers, tokens and stop() come in: one attempt at a time, every *)
(* failure doubles the pause once, up to its bound, and only a connection  *)
(* that opens resets it (lines 145, 177-227, 289-309).                     *)
THEOREM ManagesOneConnection == Spec => ImplementsConnection
<1>1. Init => Managed!Init
  BY DEF Init, Phase, Running, HasSocket, Managed!Init
<1>2. IInv /\ IInv' /\ [Next]_vars => [Managed!Next]_(Managed!cvars)
  BY ManagedStep DEF Still, Managed!cvars
<1> QED
  BY <1>1, <1>2, Inductive, PTL DEF Spec, ImplementsConnection, Managed!Spec
=============================================================================
