------------------------------ MODULE Connection ------------------------------
(***************************************************************************)
(* What the WebSocket client promises whatever its sockets and timers do:  *)
(* one connection at a time, attempts one after the other, and between two *)
(* attempts a pause that doubles up to a bound and is short again only     *)
(* after a connection has opened (fb-server-ws.api.ts:16-32, 301-309).     *)
(***************************************************************************)
EXTENDS Integers

CONSTANTS RECONNECT_BASE_MS, RECONNECT_MAX_MS

VARIABLES
  phase,    \* of the one attempt
  delay     \* of the next pause

cvars == <<phase, delay>>

Init == phase = "new" /\ delay = RECONNECT_BASE_MS

Goes(from, to) == phase \in from /\ phase' = to

Begins == Goes({"new"}, "fetching") /\ UNCHANGED delay
HasToken == Goes({"fetching"}, "connecting") /\ UNCHANGED delay
Opens == Goes({"connecting"}, "up") /\ delay' = RECONNECT_BASE_MS
Breaks == Goes({"connecting", "up"}, "down") /\ UNCHANGED delay

(* Every end of an attempt leads to the next one, after a longer pause.    *)
GivesUp ==
  /\ Goes({"fetching", "connecting", "up", "down"}, "waiting")
  /\ delay' = IF 2 * delay < RECONNECT_MAX_MS THEN 2 * delay ELSE RECONNECT_MAX_MS
Retries == Goes({"waiting"}, "fetching") /\ UNCHANGED delay

Stops ==
  /\ Goes({"fetching", "connecting", "up", "down", "waiting"}, "stopped")
  /\ UNCHANGED delay

Next == Begins \/ HasToken \/ Opens \/ Breaks \/ GivesUp \/ Retries \/ Stops

Spec == Init /\ [][Next]_cvars
=============================================================================
