-------------------------- MODULE TokenCacheProofs --------------------------
(***************************************************************************)
(* Proofs about module TokenCache: no request carries an expired token,    *)
(* for every number of callers, every skew and every life of the tokens.   *)
(* A token on its way has left the cache, or MAG, with more than Skew      *)
(* ticks to live, and loses at most one per tick of its way: what it has   *)
(* left and the ticks it has been on its way stay above Skew together.     *)
(***************************************************************************)
EXTENDS TokenCache, TLAPS

OnItsWay(c) == call[c].pc \in {"answered", "using"}

Holds ==
  \A c \in Callers :
    IF OnItsWay(c) THEN call[c].token # None /\ call[c].token.life + call[c].ticks > Skew
    ELSE call[c].token = None

IInv == TypeOK /\ Holds

-----------------------------------------------------------------------------
(* The longest life is one of the lives, and the skew is shorter.          *)
LEMMA LifeBound ==
  /\ MaxLife \in Nat /\ NoExp = MaxLife + 1 /\ Skew \in Nat
  /\ MaxLife > Skew
  /\ \A n \in Lives \cup {NoExp} : n \in 0..NoExp /\ n > Skew
<1>1. MaxLife \in Lives /\ \A n \in Lives : n <= MaxLife
  BY ConstantsAssumption DEF MaxLife, ConstantsAssumption
<1>2. QED
  BY <1>1, ConstantsAssumption DEF NoExp, ConstantsAssumption

LEMMA InitInv == Init => IInv
<1> SUFFICES ASSUME Init PROVE IInv
  OBVIOUS
<1>1. PICK pc \in {"off", "idle"} : call = [[c \in Callers |-> Idle] EXCEPT ![WsConnect].pc = pc]
  BY DEF Init
<1>2. \A c \in Callers : \E q \in {"off", "idle"} : call[c] = [pc |-> q, token |-> None, ticks |-> 0]
  BY <1>1 DEF Idle
<1>3. ASSUME NEW c \in Callers
      PROVE  call[c] \in Call /\ ~OnItsWay(c) /\ call[c].token = None
  <2>1. PICK q \in {"off", "idle"} : call[c] = [pc |-> q, token |-> None, ticks |-> 0]
    BY <1>2
  <2>2. QED
    BY <2>1, LifeBound DEF Call, OnItsWay
<1>4. call \in [Callers -> Call]
  BY <1>1, <1>3
<1>5. TypeOK
  BY <1>4, ConstantsAssumption DEF Init, TypeOK, ConstantsAssumption
<1>6. Holds
  BY <1>3 DEF Holds
<1>7. QED
  BY <1>5, <1>6 DEF IInv

-----------------------------------------------------------------------------
(* What the invariant says of the call record of one caller.               *)
Sound(k) ==
  /\ k \in Call
  /\ IF k.pc \in {"answered", "using"} THEN k.token # None /\ k.token.life + k.ticks > Skew
     ELSE k.token = None

Cacheable == [gen : 0..MaxRevocations, life : 0..MaxLife, old : BOOLEAN] \cup {None}

(* A step keeps the invariant when every call record is sound after it.    *)
LEMMA SoundStep ==
  ASSUME call' \in [Callers -> Call], \A c \in Callers : Sound(call'[c]),
         cachedAccessToken' \in Cacheable, gen' \in 0..MaxRevocations
  PROVE  IInv'
BY DEF IInv, TypeOK, Holds, OnItsWay, Sound, Cacheable

LEMMA SoundBefore ==
  ASSUME IInv
  PROVE  /\ call \in [Callers -> Call] /\ \A c \in Callers : Sound(call[c])
         /\ cachedAccessToken \in Cacheable /\ gen \in 0..MaxRevocations
BY DEF IInv, TypeOK, Holds, OnItsWay, Sound, Cacheable

(* Most steps replace one call record.                                     *)
LEMMA OneCall ==
  ASSUME IInv, NEW c \in Callers, NEW k, Sound(k), call' = [call EXCEPT ![c] = k],
         cachedAccessToken' \in Cacheable, gen' \in 0..MaxRevocations
  PROVE  IInv'
<1>1. call' \in [Callers -> Call] /\ \A d \in Callers : Sound(call'[d])
  BY SoundBefore DEF Sound
<1>2. QED
  BY <1>1, SoundStep

LEMMA IdleSound == Sound(Idle) /\ \A pc \in {"asking", "open"} : Sound([Idle EXCEPT !.pc = pc])
BY LifeBound DEF Sound, Idle, Call

(* What scheduleReconnect does to the tokens keeps them sound.             *)
LEMMA ReconnectStep ==
  ASSUME IInv, ScheduleReconnect, gen' \in 0..MaxRevocations
  PROVE  IInv'
<1>1. ASSUME NEW c \in Callers PROVE Sound([call[c] EXCEPT !.token = Aged(@)])
  <2>1. Sound(call[c])
    BY SoundBefore
  <2>2. CASE call[c].token = None
    BY <2>1, <2>2 DEF Sound, Aged, Call
  <2>3. CASE call[c].token # None
    BY <2>1, <2>3, ConstantsAssumption DEF Sound, Aged, Call, Token, ConstantsAssumption
  <2>4. QED
    BY <2>2, <2>3
<1>2. call' \in [Callers -> Call] /\ \A c \in Callers : Sound(call'[c])
  BY <1>1, IdleSound DEF ScheduleReconnect, Sound
<1>3. QED
  BY <1>2, SoundStep DEF ScheduleReconnect, Cacheable

LEMMA EndStep ==
  ASSUME IInv, NEW c \in Callers, EndsBadly(c), gen' \in 0..MaxRevocations
  PROVE  IInv'
<1>1. CASE c = WsConnect
  BY <1>1, ReconnectStep DEF EndsBadly
<1>2. CASE c # WsConnect
  BY <1>2, OneCall, IdleSound, SoundBefore DEF EndsBadly, CallFails
<1>3. QED
  BY <1>1, <1>2

(* getAccessToken hands out what the cache holds for longer than the skew. *)
LEMMA GetStep ==
  ASSUME IInv, NEW c \in Callers, GetAccessToken(c)
  PROVE  IInv'
<1>1. CASE Reusable
  <2>1. Sound([pc |-> "using", token |-> cachedAccessToken, ticks |-> 0])
    BY <1>1, SoundBefore, LifeBound DEF Sound, Call, Reusable, Cacheable, Token
  <2>2. QED
    BY <1>1, <2>1, OneCall, SoundBefore DEF GetAccessToken
<1>2. CASE ~Reusable
  BY <1>2, OneCall, IdleSound, SoundBefore DEF GetAccessToken
<1>3. QED
  BY <1>1, <1>2

(* A token that MAG issues outlives the skew.                              *)
LEMMA IssueStep ==
  ASSUME IInv, NEW c \in Callers, Issue(c)
  PROVE  IInv'
<1>1. PICK life \in Lives \cup {NoExp} :
        call' = [call EXCEPT ![c] = [call[c] EXCEPT
                   !.pc = "answered", !.token = [gen |-> gen, life |-> life, old |-> FALSE]]]
  <2>1. PICK life \in Lives \cup {NoExp} :
        call' = [call EXCEPT ![c].pc = "answered",
                             ![c].token = [gen |-> gen, life |-> life, old |-> FALSE]]
    BY DEF Issue
  <2>2. QED
    BY <2>1, SoundBefore DEF Call, Sound
<1> DEFINE token == [gen |-> gen, life |-> life, old |-> FALSE]
<1>2. token \in Token /\ token # None /\ token.life > Skew
  <2>1. gen \in 0..MaxRevocations /\ life \in 0..NoExp /\ life > Skew
    BY SoundBefore, LifeBound
  <2>2. token \in Token
    BY <2>1 DEF Token
  <2>3. QED
    BY <2>1, <2>2, ConstantsAssumption DEF ConstantsAssumption
<1>3. Sound([call[c] EXCEPT !.pc = "answered", !.token = token])
  <2> HIDE DEF token
  <2>1. call[c] \in Call /\ call[c].ticks \in 0..Skew
    BY SoundBefore DEF Sound, Call
  <2>2. token.life + call[c].ticks > Skew
    BY <1>2, <2>1, LifeBound DEF Token
  <2>3. [call[c] EXCEPT !.pc = "answered", !.token = token] \in Call
    BY <1>2, <2>1 DEF Call
  <2>4. QED
    BY <1>2, <2>1, <2>2, <2>3 DEF Sound, Call
<1>4. QED
  BY <1>1, <1>3, OneCall, SoundBefore DEF Issue

LEMMA ArriveStep ==
  ASSUME IInv, NEW c \in Callers, TokenArrives(c)
  PROVE  IInv'
<1>1. Sound(call[c]) /\ call[c].pc = "answered"
  BY SoundBefore DEF TokenArrives
<1>2. Sound([call[c] EXCEPT !.pc = "using"])
  BY <1>1 DEF Sound, Call
<1>3. cachedAccessToken' \in Cacheable
  BY <1>1, LifeBound DEF TokenArrives, RememberAccessToken, Cacheable, Sound, Call, Token
<1>4. call' = [call EXCEPT ![c] = [call[c] EXCEPT !.pc = "using"]]
  BY SoundBefore DEF TokenArrives
<1>5. QED
  BY <1>2, <1>3, <1>4, OneCall, SoundBefore DEF TokenArrives

(* A tick takes from the life of a token on its way what it adds to the    *)
(* ticks of its way.                                                       *)
LEMMA TickStep ==
  ASSUME IInv, Tick
  PROVE  IInv'
<1>1. ASSUME NEW token \in Token
      PROVE  /\ Older(token) \in Token /\ Older(token) # None
             /\ Older(token).life >= token.life - 1
  BY <1>1, LifeBound, ConstantsAssumption DEF Older, Token, ConstantsAssumption
<1>2. cachedAccessToken' \in Cacheable
  <2>1. cachedAccessToken' = Older(cachedAccessToken) /\ cachedAccessToken \in Cacheable
    BY SoundBefore DEF Tick
  <2>2. CASE cachedAccessToken = None
    BY <2>1, <2>2 DEF Older, Cacheable
  <2>3. CASE cachedAccessToken # None
    <3>1. cachedAccessToken \in [gen : 0..MaxRevocations, life : 0..MaxLife, old : BOOLEAN]
      BY <2>1, <2>3 DEF Cacheable
    <3>2. QED
      BY <2>1, <3>1, LifeBound DEF Older, Cacheable
  <2>4. QED
    BY <2>2, <2>3
<1>3. ASSUME NEW c \in Callers PROVE Sound(call'[c])
  <2>1. Sound(call[c])
    BY SoundBefore
  <2>2. CASE call[c].token = None
    BY <2>1, <2>2 DEF Tick
  <2>3. CASE call[c].token # None
    <3>1. call[c].ticks < Skew /\ call[c].token \in Token
      BY <2>1, <2>3 DEF Tick, Sound, Call
    <3>2. call'[c] = [call[c] EXCEPT !.token = Older(call[c].token), !.ticks = call[c].ticks + 1]
      BY <2>3 DEF Tick
    <3>3. PICK token : token = Older(call[c].token)
      OBVIOUS
    <3>4. /\ token \in Token /\ token # None
          /\ token.life >= call[c].token.life - 1
      BY <1>1, <3>1, <3>3
    <3>5. call'[c] = [call[c] EXCEPT !.token = token, !.ticks = call[c].ticks + 1]
      BY <3>2, <3>3
    <3>6. call'[c] \in Call
      <4>1. call[c] \in Call /\ call[c].ticks + 1 \in 0..Skew
        BY <2>1, <3>1, LifeBound DEF Sound, Call
      <4>2. [call[c] EXCEPT !.token = token, !.ticks = call[c].ticks + 1] \in Call
        BY <3>4, <4>1 DEF Call
      <4>3. QED
        BY <3>5, <4>2
    <3>7. call[c].pc \in {"answered", "using"} /\ call[c].token.life + call[c].ticks > Skew
      BY <2>1, <2>3 DEF Sound
    <3>8. token.life + (call[c].ticks + 1) > Skew
      BY <2>1, <3>1, <3>4, <3>7, LifeBound DEF Sound, Call, Token
    <3>9. QED
      BY <2>1, <3>4, <3>5, <3>6, <3>7, <3>8 DEF Sound, Call
  <2>4. QED
    BY <2>2, <2>3
<1>4. call' \in [Callers -> Call]
  BY <1>3 DEF Tick, Sound
<1>5. QED
  BY <1>2, <1>3, <1>4, SoundStep, SoundBefore DEF Tick

LEMMA Step == IInv /\ [Next]_vars => IInv'
<1> SUFFICES ASSUME IInv, [Next]_vars PROVE IInv'
  OBVIOUS
<1>1. ASSUME NEW c \in Callers, GetAccessToken(c) PROVE IInv'
  BY <1>1, GetStep
<1>2. ASSUME NEW c \in Callers, Issue(c) PROVE IInv'
  BY <1>2, IssueStep
<1>3. ASSUME NEW c \in Callers, TokenArrives(c) PROVE IInv'
  BY <1>3, ArriveStep
<1>4. ASSUME NEW c \in Callers, TokenFails(c) \/ RequestFails(c) PROVE IInv'
  BY <1>4, EndStep, SoundBefore DEF TokenFails, RequestFails
<1>5. ASSUME NEW c \in Callers, RequestServed(c) PROVE IInv'
  BY <1>5, OneCall, IdleSound, SoundBefore DEF RequestServed
<1>6. CASE ConnectionLost
  BY <1>6, ReconnectStep, SoundBefore DEF ConnectionLost
<1>7. CASE Revoke
  BY <1>7, SoundStep, SoundBefore, ConstantsAssumption DEF Revoke, ConstantsAssumption
<1>8. CASE Tick
  BY <1>8, TickStep
<1>9. CASE UNCHANGED vars
  BY <1>9, SoundStep, SoundBefore DEF vars
<1>10. QED
  BY <1>1, <1>2, <1>3, <1>4, <1>5, <1>6, <1>7, <1>8, <1>9 DEF Next

THEOREM Inductive == Spec => []IInv
<1>1. QED
  BY InitInv, Step, PTL DEF Spec

-----------------------------------------------------------------------------
(* Every variable has its type (TypeOK), for every value of the constants. *)
THEOREM TypeCorrect == Spec => []TypeOK
<1>1. IInv => TypeOK
  BY DEF IInv
<1>2. QED
  BY <1>1, Inductive, PTL

(* No request is sent with an expired token (fb-server.api.ts:86), as long *)
(* as none is on its way for longer than the skew.                         *)
THEOREM SkewIsEnough == Spec => []NeverSentExpired
<1>1. IInv => NeverSentExpired
  BY SoundBefore, LifeBound DEF NeverSentExpired, Sound, Call, Token
<1>2. QED
  BY <1>1, Inductive, PTL

-----------------------------------------------------------------------------
(* How a token from before a loss can reach connect() after it at all (see *)
(* ReconnectsAfresh): no other caller has a token on its way from MAG when *)
(* scheduleReconnect() drops the cached one (fb-server-ws.api.ts:296-298). *)
DropsAlone == ScheduleReconnect => \A c \in Calls : call[c].pc # "answered"

(* Then every token that can still get into the hands of connect() is new. *)
Recent(k) == k.pc = "answered" => k.token.old = FALSE
AllFresh ==
  /\ cachedAccessToken # None => cachedAccessToken.old = FALSE
  /\ \A c \in Callers : Recent(call[c])
  /\ call[WsConnect].pc = "using" => call[WsConnect].token.old = FALSE

LEMMA FreshInit == Init => AllFresh
<1> SUFFICES ASSUME Init PROVE AllFresh
  OBVIOUS
<1>1. \A c \in Callers : call[c].pc \in {"off", "idle"}
  BY DEF Init, Idle
<1>2. QED
  BY <1>1 DEF Init, AllFresh, Recent, Callers

(* A call record that is replaced by a recent one, with a fresh cache.     *)
LEMMA FreshCall ==
  ASSUME IInv, AllFresh, NEW c \in Callers, NEW k, call' = [call EXCEPT ![c] = k], Recent(k),
         c = WsConnect /\ k.pc = "using" => k.token.old = FALSE,
         cachedAccessToken' # None => cachedAccessToken'.old = FALSE
  PROVE  AllFresh'
<1>1. \A d \in Callers : call'[d] = IF d = c THEN k ELSE call[d]
  BY SoundBefore
<1>2. QED
  BY <1>1 DEF AllFresh, Recent, Callers

(* The drop leaves connect() without a token, and nobody else's answer on  *)
(* its way.                                                                *)
LEMMA FreshDrop ==
  ASSUME IInv, AllFresh, ScheduleReconnect, \A c \in Calls : call[c].pc # "answered"
  PROVE  AllFresh'
<1>1. \A c \in Callers : call'[c] = IF c = WsConnect THEN Idle
                                    ELSE [call[c] EXCEPT !.token = Aged(@)]
  BY DEF ScheduleReconnect
<1>0. Idle.pc = "idle" /\ WsConnect \in Callers
  BY DEF Idle, Callers
<1>2. ASSUME NEW c \in Callers PROVE call'[c].pc # "answered"
  <2>1. CASE c = WsConnect
    <3>1. call'[c] = Idle
      BY <1>1, <2>1
    <3>2. QED
      BY <1>0, <3>1
  <2>2. CASE c # WsConnect
    <3>1. call[c] \in Call /\ call[c].pc # "answered"
      BY <2>2, SoundBefore DEF Callers, Sound
    <3>2. QED
      BY <1>1, <2>2, <3>1 DEF Call
  <2>3. QED
    BY <2>1, <2>2
<1>3. call'[WsConnect].pc = "idle"
  <2>1. call'[WsConnect] = Idle
    BY <1>0, <1>1
  <2>2. QED
    BY <1>0, <2>1
<1>4. QED
  BY <1>2, <1>3 DEF AllFresh, Recent, ScheduleReconnect

LEMMA FreshEnd ==
  ASSUME IInv, AllFresh, NEW c \in Callers, EndsBadly(c), DropsAlone
  PROVE  AllFresh'
<1>1. CASE c = WsConnect
  BY <1>1, FreshDrop DEF EndsBadly, DropsAlone
<1>2. CASE c # WsConnect
  <2>1. call' = [call EXCEPT ![c] = Idle] /\ UNCHANGED cachedAccessToken
    BY <1>2 DEF EndsBadly, CallFails
  <2>2. Recent(Idle) /\ Idle.pc # "using"
    BY DEF Recent, Idle
  <2>3. QED
    BY <2>1, <2>2, FreshCall DEF AllFresh
<1>3. QED
  BY <1>1, <1>2

(* A tick leaves the origin of a token alone.                              *)
LEMMA FreshTick ==
  ASSUME IInv, AllFresh, Tick
  PROVE  AllFresh'
<1>1. ASSUME NEW token, token \in Token \/ token \in Cacheable, token # None, token.old = FALSE
      PROVE  Older(token).old = FALSE
  BY <1>1 DEF Older, Token, Cacheable
<1>2. cachedAccessToken' # None => cachedAccessToken'.old = FALSE
  <2>1. CASE cachedAccessToken = None
    BY <2>1 DEF Tick, Older
  <2>2. CASE cachedAccessToken # None
    BY <1>1, <2>2, SoundBefore DEF Tick, AllFresh
  <2>3. QED
    BY <2>1, <2>2
<1>3. ASSUME NEW c \in Callers
      PROVE  /\ call'[c].pc = call[c].pc
             /\ (call[c].token # None /\ call[c].token.old = FALSE => call'[c].token.old = FALSE)
  <2>1. call[c] \in Call /\ call'[c] = IF call[c].token = None THEN call[c]
                   ELSE [call[c] EXCEPT !.token = Older(@), !.ticks = @ + 1]
    BY SoundBefore DEF Tick, Sound
  <2>2. CASE call[c].token = None
    BY <2>1, <2>2
  <2>3. CASE call[c].token # None
    <3>1. call[c].token \in Token
      BY <2>1, <2>3 DEF Call
    <3>2. PICK token : token = Older(call[c].token)
      OBVIOUS
    <3>3. call[c].token.old = FALSE => token.old = FALSE
      BY <1>1, <2>3, <3>1, <3>2
    <3>4. call'[c] = [call[c] EXCEPT !.token = token, !.ticks = @ + 1]
      BY <2>1, <2>3, <3>2
    <3>5. call'[c].pc = call[c].pc /\ call'[c].token = token
      BY <2>1, <3>4 DEF Call
    <3>6. QED
      BY <3>3, <3>5
  <2>4. QED
    BY <2>2, <2>3
<1>4. \A c \in Callers : call[c].pc \in {"answered", "using"} => call[c].token # None
  BY SoundBefore DEF Sound
<1>5. QED
  BY <1>2, <1>3, <1>4 DEF AllFresh, Recent, Callers

LEMMA FreshStep == IInv /\ AllFresh /\ [Next]_vars /\ [DropsAlone]_vars => AllFresh'
<1> SUFFICES ASSUME IInv, AllFresh, [Next]_vars, [DropsAlone]_vars PROVE AllFresh'
  OBVIOUS
<1>1. CASE UNCHANGED vars
  BY <1>1 DEF vars, AllFresh, Recent
<1>2. ASSUME Next, DropsAlone PROVE AllFresh'
  <2>1. ASSUME NEW c \in Callers, GetAccessToken(c) PROVE AllFresh'
    <3> DEFINE k == IF Reusable THEN [pc |-> "using", token |-> cachedAccessToken, ticks |-> 0]
                    ELSE [Idle EXCEPT !.pc = "asking"]
    <3>1. call' = [call EXCEPT ![c] = k] /\ UNCHANGED cachedAccessToken
      BY <2>1 DEF GetAccessToken
    <3>2. Recent(k) /\ (k.pc = "using" => k.token.old = FALSE)
      BY DEF Recent, Idle, Reusable, AllFresh
    <3> HIDE DEF k
    <3>3. QED
      BY <3>1, <3>2, FreshCall DEF AllFresh
  <2>2. ASSUME NEW c \in Callers, Issue(c) PROVE AllFresh'
    <3>1. PICK life \in Lives \cup {NoExp} :
            call' = [call EXCEPT ![c] = [call[c] EXCEPT
                       !.pc = "answered", !.token = [gen |-> gen, life |-> life, old |-> FALSE]]]
      BY <2>2, SoundBefore DEF Issue, Sound, Call
    <3>2. PICK k : k = [call[c] EXCEPT !.pc = "answered",
                                       !.token = [gen |-> gen, life |-> life, old |-> FALSE]]
      OBVIOUS
    <3>3. Recent(k) /\ k.pc # "using" /\ UNCHANGED cachedAccessToken
      BY <2>2, <3>2, SoundBefore DEF Recent, Issue, Sound, Call
    <3>4. QED
      BY <3>1, <3>2, <3>3, FreshCall DEF AllFresh
  <2>3. ASSUME NEW c \in Callers, TokenArrives(c) PROVE AllFresh'
    <3>1. /\ call[c] \in Call /\ call[c].pc = "answered" /\ call[c].token.old = FALSE
          /\ call' = [call EXCEPT ![c] = [call[c] EXCEPT !.pc = "using"]]
      BY <2>3, SoundBefore DEF TokenArrives, AllFresh, Recent, Sound
    <3>2. PICK k : k = [call[c] EXCEPT !.pc = "using"]
      OBVIOUS
    <3>3. Recent(k) /\ k.token.old = FALSE
      BY <3>1, <3>2 DEF Recent, Call
    <3>4. cachedAccessToken' # None => cachedAccessToken'.old = FALSE
      BY <2>3, <3>1 DEF TokenArrives, RememberAccessToken
    <3>5. QED
      BY <3>1, <3>2, <3>3, <3>4, FreshCall
  <2>4. ASSUME NEW c \in Callers, TokenFails(c) \/ RequestFails(c) PROVE AllFresh'
    BY <1>2, <2>4, FreshEnd DEF TokenFails, RequestFails
  <2>5. ASSUME NEW c \in Callers, RequestServed(c) PROVE AllFresh'
    <3>1. PICK k \in {Idle, [Idle EXCEPT !.pc = "open"]} : call' = [call EXCEPT ![c] = k]
      BY <2>5 DEF RequestServed
    <3>2. Recent(k) /\ k.pc # "using"
      BY DEF Recent, Idle
    <3>3. QED
      BY <2>5, <3>1, <3>2, FreshCall DEF RequestServed, AllFresh
  <2>6. CASE ConnectionLost
    BY <1>2, <2>6, FreshDrop DEF ConnectionLost, DropsAlone
  <2>7. CASE Revoke
    BY <2>7 DEF Revoke, AllFresh, Recent
  <2>8. CASE Tick
    BY <2>8, FreshTick
  <2>9. QED
    BY <1>2, <2>1, <2>2, <2>3, <2>4, <2>5, <2>6, <2>7, <2>8 DEF Next
<1>3. QED
  BY <1>1, <1>2

(* What the comment at fb-server-ws.api.ts:297 says holds as long as no    *)
(* other caller's token is on its way when the cache is dropped: an answer *)
(* that arrives after the drop is the only way for an older token back.    *)
THEOREM AfreshUnlessLate == Spec /\ [][DropsAlone]_vars => []ReconnectsAfresh
<1>1. AllFresh => ReconnectsAfresh
  BY DEF AllFresh, ReconnectsAfresh
<1>2. QED
  BY <1>1, Inductive, FreshInit, FreshStep, PTL DEF Spec
=============================================================================
