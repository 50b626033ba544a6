----------------------------- MODULE TokenCache -----------------------------
(***************************************************************************)
(* src/services/fb-server.api.ts: the access token that every request to   *)
(* MAG carries, its cache, and the two ways a bad token leaves the cache:  *)
(* it expires, or a lost WebSocket drops it (fb-server-ws.api.ts:289-310). *)
(* Time is counted in ticks, and a token holds the ticks it has left: the  *)
(* code's exp - Date.now().                                                *)
(***************************************************************************)
EXTENDS Integers

CONSTANTS
  Calls,              \* bound: requests to MAG alive at once, connect() aside
  WsConnect,          \* the caller that is connect(): never two at once
  None,               \* null
  Lives,              \* life of a new token, in ticks
  Skew,               \* ACCESS_TOKEN_EXPIRY_SKEW_MS, in ticks
  MaxRevocations      \* bound: times MAG invalidates what it has issued

MaxLife == CHOOSE n \in Lives : \A m \in Lives : m <= n
NoExp == MaxLife + 1  \* the token has no exp that can be decoded

Callers == Calls \cup {WsConnect}

(* gen: MAG's generation, old: history, was it issued before the last loss *)
(* of the WebSocket.                                                       *)
Token == [gen : 0..MaxRevocations, life : 0..NoExp, old : BOOLEAN]

ASSUME ConstantsAssumption ==
  /\ WsConnect \notin Calls
  /\ Skew \in Nat /\ MaxRevocations \in Nat
  /\ Lives \subseteq Nat /\ \E n \in Lives : \A m \in Lives : m <= n
  /\ \A n \in Lives : n > Skew
  /\ None \notin Token

VARIABLES
  cachedAccessToken,
  call,               \* caller -> its progress, the token it holds, and for
                      \* how many ticks that token has been on its way
  gen                 \* MAG: tokens of an earlier generation are refused

vars == <<cachedAccessToken, call, gen>>

(* off: HTTP mode, never connects; idle: between two calls, or until the   *)
(* reconnect timer; asking, answered: POST /access_token on its way to and *)
(* back from MAG; using: the request itself; open: the socket is open.     *)
Call == [pc : {"off", "idle", "asking", "answered", "using", "open"},
         token : Token \cup {None}, ticks : 0..Skew]
Idle == [pc |-> "idle", token |-> None, ticks |-> 0]

Init ==
  /\ cachedAccessToken = None
  /\ call \in {[[c \in Callers |-> Idle] EXCEPT ![WsConnect].pc = pc] : pc \in {"off", "idle"}}
  /\ gen = 0

-----------------------------------------------------------------------------
(* Definitions named Wrong... are variants of the one below them with a    *)
(* plausible defect: with it, the property named there must fail.          *)

(* Reuses the token for ever: HttpHeals fails.                             *)
WrongReuse == cachedAccessToken # None

(* Forgets the skew: NeverSentExpired fails.                               *)
WrongReusable == cachedAccessToken # None /\ cachedAccessToken.life > 0

Reusable ==
  /\ cachedAccessToken # None
  /\ cachedAccessToken.life > Skew

GetAccessToken(c) ==
  /\ call[c].pc = "idle"
  /\ call' = [call EXCEPT ![c] = IF Reusable
                                 THEN [pc |-> "using", token |-> cachedAccessToken, ticks |-> 0]
                                 ELSE [Idle EXCEPT !.pc = "asking"]]
  /\ UNCHANGED <<cachedAccessToken, gen>>

(* MAG issues a token.                                                     *)
Issue(c) ==
  /\ call[c].pc = "asking"
  /\ \E life \in Lives \cup {NoExp} :
       call' = [call EXCEPT ![c].pc = "answered",
                            ![c].token = [gen |-> gen, life |-> life, old |-> FALSE]]
  /\ UNCHANGED <<cachedAccessToken, gen>>

(* Keeps a token whose exp is unknown, too: TypeOK fails.                  *)
WrongRemember(token) == cachedAccessToken' = token

(* The last response wins, whenever it was issued.  exp is compared with a *)
(* time read before the fetch, so that a token that died on its way may be *)
(* kept: it is not reused.                                                 *)
RememberAccessToken(token) ==
  cachedAccessToken' = IF token.life = NoExp THEN None ELSE token

TokenArrives(c) ==
  /\ call[c].pc = "answered"
  /\ RememberAccessToken(call[c].token)
  /\ call' = [call EXCEPT ![c].pc = "using"]
  /\ UNCHANGED gen

-----------------------------------------------------------------------------
(* How a call ends.  For connect() any other end than an open socket goes  *)
(* through scheduleReconnect(), as does the loss of the socket.            *)

Aged(token) == IF token = None THEN None ELSE [token EXCEPT !.old = TRUE]
CallFails(c) == call' = [call EXCEPT ![c] = Idle]

(* The cached token stays: Reconnects fails.                               *)
WrongScheduleReconnect ==
  /\ call' = [c \in Callers |-> IF c = WsConnect THEN Idle
                                ELSE [call[c] EXCEPT !.token = Aged(@)]]
  /\ cachedAccessToken' = Aged(cachedAccessToken)

ScheduleReconnect ==
  /\ call' = [c \in Callers |-> IF c = WsConnect THEN Idle
                                ELSE [call[c] EXCEPT !.token = Aged(@)]]
  /\ cachedAccessToken' = None

EndsBadly(c) ==
  IF c = WsConnect THEN ScheduleReconnect
  ELSE CallFails(c) /\ UNCHANGED cachedAccessToken

TokenFails(c) ==
  /\ call[c].pc \in {"asking", "answered"}
  /\ EndsBadly(c)
  /\ UNCHANGED gen

Accepted(c) ==
  /\ call[c].pc = "using"
  /\ call[c].token.gen = gen /\ call[c].token.life > 0

RequestServed(c) ==
  /\ Accepted(c)
  /\ call' = [call EXCEPT ![c] = IF c = WsConnect THEN [Idle EXCEPT !.pc = "open"] ELSE Idle]
  /\ UNCHANGED <<cachedAccessToken, gen>>

(* MAG refuses the token, or the request fails for another reason.         *)
RequestFails(c) ==
  /\ call[c].pc = "using"
  /\ EndsBadly(c)
  /\ UNCHANGED gen

ConnectionLost ==
  /\ call[WsConnect].pc = "open"
  /\ ScheduleReconnect
  /\ UNCHANGED gen

-----------------------------------------------------------------------------
(* A device is revoked or paired again: every token issued so far is dead. *)
Revoke ==
  /\ gen < MaxRevocations
  /\ gen' = gen + 1
  /\ UNCHANGED <<cachedAccessToken, call>>

(* A tick passes.  No token is on its way for longer than the skew.        *)
Older(token) ==
  IF token = None \/ token.life \in {0, NoExp} THEN token ELSE [token EXCEPT !.life = @ - 1]
Tick ==
  /\ \A c \in Callers : call[c].token # None => call[c].ticks < Skew
  /\ cachedAccessToken' = Older(cachedAccessToken)
  /\ call' = [c \in Callers |-> IF call[c].token = None THEN call[c]
                                ELSE [call[c] EXCEPT !.token = Older(@), !.ticks = @ + 1]]
  /\ UNCHANGED gen

Next ==
  \/ \E c \in Callers : \/ GetAccessToken(c) \/ Issue(c) \/ TokenArrives(c) \/ TokenFails(c)
                        \/ RequestServed(c) \/ RequestFails(c)
  \/ ConnectionLost \/ Revoke \/ Tick

Spec == Init /\ [][Next]_vars

-----------------------------------------------------------------------------
(* Every variable has its type.                                            *)
TypeOK ==
  /\ cachedAccessToken \in [gen : 0..MaxRevocations, life : 0..MaxLife, old : BOOLEAN] \cup {None}
  /\ call \in [Callers -> Call]
  /\ gen \in 0..MaxRevocations

(* No request reaches MAG with a token that has expired, however long the  *)
(* token was cached and whoever fetched it: what the skew is for (line 86).*)
NeverSentExpired == \A c \in Callers : call[c].pc = "using" => call[c].token.life > 0

(* The agent makes its calls, and MAG's endpoints answer well now and then.*)
Fairness ==
  /\ \A c \in Callers : /\ WF_vars(GetAccessToken(c))
                        /\ SF_vars(Issue(c)) /\ SF_vars(TokenArrives(c))
                        /\ WF_vars(RequestServed(c) \/ RequestFails(c))
  /\ SF_vars(RequestServed(WsConnect))
FairSpec == Spec /\ Fairness

(* The WebSocket opens again after any loss and any revocation without     *)
(* waiting for a token to expire, although responses to older fetches may  *)
(* put a refused token back into the cache after it was dropped            *)
(* (fb-server-ws.api.ts:293-298).                                          *)
Reconnects == call[WsConnect].pc # "off" ~> call[WsConnect].pc = "open"

(* In HTTP mode nothing drops a refused token: the requests heal when it   *)
(* expires, and they do if time passes (line 86).                          *)
HttpHeals == SF_vars(Tick) => []<>(\E c \in Calls : Accepted(c))

(* "Drop the cached token here so the next connect() force-fetches a fresh *)
(* one" (fb-server-ws.api.ts:297): an attempt to reconnect never presents  *)
(* a token issued before the loss.                                         *)
ReconnectsAfresh == call[WsConnect].pc = "using" => ~call[WsConnect].token.old
=============================================================================
