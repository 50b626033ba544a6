------------------------ MODULE CustomerServerProofs ------------------------
(***************************************************************************)
(* Proofs about module CustomerServer: it is the idempotency boundary that *)
(* README.md:104 asks for, for any number of requests and of calls at      *)
(* once, in any number of processes, any of which may die.                 *)
(* The argument: only the upsert that inserts a request gives it to a call *)
(* to sign, so that one call at most has it, and only while the HSM has    *)
(* not been asked; the call that then asks is the only one to write.       *)
(***************************************************************************)
EXTENDS CustomerServer, TLAPS

Owned(r) ==
  /\ signatures[r] <= 1
  /\ \A h \in Handlers :
       /\ r \in handler[h].toSign => signatures[r] = 0 /\ db[r] = "PENDING_SIGN"
       /\ r \in handler[h].signing => signatures[r] = 1 /\ db[r] = "PENDING_SIGN"
       /\ \A g \in Handlers \ {h} : r \notin handler[h].toSign \cap handler[g].toSign
       /\ \A g \in Handlers \ {h} : r \notin handler[h].signing \cap handler[g].signing
  /\ db[r] = "none" => signatures[r] = 0

IInv == TypeOK /\ \A r \in Requests \ byOperator : Owned(r)

-----------------------------------------------------------------------------
WellTyped(k) == k \in Handler /\ (k.pc = "write" => k.decision \in FinalStatuses)

LEMMA InitInv == Init => IInv
<1> SUFFICES ASSUME Init PROVE IInv
  OBVIOUS
<1>1. Idle \in Handler /\ Idle.pc # "write"
  BY DEF Idle, Call, Handler, Statuses
<1>2. TypeOK
  <2>1. /\ handler \in [Handlers -> Handler]
        /\ \A h \in Handlers : handler[h].pc # "write"
    BY <1>1 DEF Init
  <2>2. db \in [Requests -> Statuses] /\ signatures \in [Requests -> 0..2]
    BY DEF Init, Statuses
  <2>3. QED
    BY <2>1, <2>2 DEF Init, TypeOK
<1>3. ASSUME NEW r \in Requests PROVE Owned(r)
  BY DEF Init, Owned, Idle, Call
<1>4. QED
  BY <1>2, <1>3 DEF IInv

(* Most steps replace the record of one handler.                           *)
LEMMA OneType ==
  ASSUME TypeOK, NEW h \in Handlers, NEW k, WellTyped(k), handler' = [handler EXCEPT ![h] = k],
         UNCHANGED hotMode, db' \in [Requests -> Statuses], signatures' \in [Requests -> 0..2],
         reply'.asked \subseteq Requests,
         leftBehind' \subseteq Requests, byOperator' \subseteq Requests, crashed' \in BOOLEAN
  PROVE  TypeOK'
BY DEF TypeOK, WellTyped

LEMMA Before ==
  ASSUME TypeOK, NEW h \in Handlers
  PROVE  WellTyped(handler[h]) /\ handler[h] \in Handler
BY DEF TypeOK, WellTyped

(* A call that gives up requests, and takes on none, leaves them owned.    *)
LEMMA GivesUp ==
  ASSUME TypeOK, NEW h \in Handlers, NEW k, handler' = [handler EXCEPT ![h] = k],
         NEW r \in Requests, Owned(r), r \in k.toSign => r \in handler[h].toSign,
         r \in k.signing => r \in handler[h].signing,
         UNCHANGED <<db, signatures>>
  PROVE  Owned(r)'
<1>1. \A g \in Handlers : /\ r \in handler'[g].toSign => r \in handler[g].toSign
                          /\ r \in handler'[g].signing => r \in handler[g].signing
  BY DEF TypeOK
<1>2. QED
  BY <1>1 DEF Owned

(* A free handler takes on the requests T of an operator, or none.         *)
LEMMA Serves ==
  ASSUME IInv, NEW h \in Handlers, NEW pc \in {"insert", "find", "status"},
         NEW A \in SUBSET Requests, NEW S \in SUBSET Requests, NEW T \in SUBSET Requests,
         Serve(h, Call(pc, A, S, T)), byOperator' = byOperator \cup T
  PROVE  IInv'
<1> DEFINE k == Call(pc, A, S, T)
<1>1. WellTyped(k) /\ k.toSign = T /\ k.signing = {}
  BY DEF WellTyped, Handler, Statuses, Call
<1>2. /\ handler' = [handler EXCEPT ![h] = k]
      /\ UNCHANGED <<hotMode, db, signatures, reply, leftBehind, crashed>>
  BY DEF Serve
<1> HIDE DEF k
<1>3. TypeOK'
  BY <1>1, <1>2, OneType DEF IInv, TypeOK
<1>4. ASSUME NEW r \in Requests \ byOperator' PROVE Owned(r)'
  <2>1. r \notin T /\ Owned(r)
    BY DEF IInv
  <2>2. QED
    BY <1>1, <1>2, <2>1, GivesUp DEF IInv
<1>5. QED
  BY <1>3, <1>4 DEF IInv

LEMMA ServeStep ==
  ASSUME IInv, NEW h \in Handlers,
         \/ \E S \in (SUBSET Requests) \ {{}} : MessagesToSign(h, S)
         \/ \E S \in SUBSET Requests : MessagesStatus(h, S)
         \/ SignAllPendingMessages(h)
         \/ \E r \in Requests : SignRequest(h, r)
  PROVE  IInv'
<1>1. ASSUME NEW S \in SUBSET Requests, MessagesToSign(h, S) PROVE IInv'
  BY <1>1, Serves DEF MessagesToSign
<1>2. ASSUME NEW S \in SUBSET Requests, MessagesStatus(h, S) PROVE IInv'
  BY <1>2, Serves DEF MessagesStatus
<1>3. ASSUME NEW T \in SUBSET Requests, SignByOperator(h, T) PROVE IInv'
  BY <1>3, Serves DEF SignByOperator
<1>4. CASE SignAllPendingMessages(h)
  BY <1>3, <1>4 DEF SignAllPendingMessages
<1>5. ASSUME NEW r \in Requests, SignRequest(h, r) PROVE IInv'
  BY <1>3, <1>5 DEF SignRequest
<1>6. QED
  BY <1>1, <1>2, <1>4, <1>5

-----------------------------------------------------------------------------
(* The steps of a call.                                                    *)

(* The upsert that inserts r is the one that gives r to its call.          *)
LEMMA InsertStep ==
  ASSUME IInv, NEW h \in Handlers, NEW r \in Requests, InsertMessage(h, r)
  PROVE  IInv'
<1> DEFINE k == [handler[h] EXCEPT !.toInsert = @ \ {r}]
           l == [handler[h] EXCEPT !.toInsert = @ \ {r}, !.toSign = @ \cup {r}]
<1>1. handler[h] \in Handler /\ handler[h].pc = "insert" /\ TypeOK
  BY Before DEF IInv, InsertMessage
<1>2. /\ WellTyped(k) /\ k.toSign = handler[h].toSign /\ k.signing = handler[h].signing
      /\ WellTyped(l) /\ l.toSign = handler[h].toSign \cup {r} /\ l.signing = handler[h].signing
  BY <1>1 DEF WellTyped, Handler
<1>3. CASE db[r] # "none"
  <2>1. handler' = [handler EXCEPT ![h] = k]
    BY <1>1, <1>3 DEF InsertMessage
  <2>2. UNCHANGED <<hotMode, db, signatures, history>>
    BY <1>3 DEF InsertMessage
  <2> HIDE DEF k, l
  <2>3. TypeOK'
    BY <1>1, <1>2, <2>1, <2>2, OneType DEF TypeOK, history
  <2>4. ASSUME NEW s \in Requests \ byOperator' PROVE Owned(s)'
    BY <1>1, <1>2, <2>1, <2>2, GivesUp DEF IInv, history
  <2>5. QED
    BY <2>3, <2>4 DEF IInv
<1>4. CASE db[r] = "none"
  <2>1. handler' = [handler EXCEPT ![h] = l] /\ db' = [db EXCEPT ![r] = "PENDING_SIGN"]
    BY <1>1, <1>4 DEF InsertMessage
  <2>2. UNCHANGED <<hotMode, signatures, history>>
    BY <1>4 DEF InsertMessage
  <2> HIDE DEF k, l
  <2>3. db' \in [Requests -> Statuses]
    BY <1>1, <2>1 DEF TypeOK, Statuses
  <2>4. TypeOK'
    BY <1>1, <1>2, <2>1, <2>2, <2>3, OneType DEF TypeOK, history
  <2>5. ASSUME NEW s \in Requests \ byOperator' PROVE Owned(s)'
    <3>1. Owned(s)
      BY <2>2, <2>5 DEF IInv, history
    <3>2. \A g \in Handlers :
            /\ s \in handler'[g].toSign => s \in handler[g].toSign \/ (g = h /\ s = r)
            /\ s \in handler'[g].signing => s \in handler[g].signing
      BY <1>1, <1>2, <2>1 DEF TypeOK
    <3>3. CASE s = r
      <4>1. signatures[r] = 0 /\ \A g \in Handlers : r \notin handler[g].toSign /\ r \notin handler[g].signing
        BY <1>4, <3>1, <3>3 DEF Owned
      <4>2. db'[r] = "PENDING_SIGN" /\ signatures'[r] = 0
        BY <1>1, <2>1, <2>2, <4>1 DEF TypeOK
      <4>3. QED
        BY <3>2, <3>3, <4>1, <4>2 DEF Owned
    <3>4. CASE s # r
      <4>1. db'[s] = db[s] /\ signatures'[s] = signatures[s]
        BY <1>1, <2>1, <2>2, <3>4 DEF TypeOK
      <4>2. QED
        BY <3>1, <3>2, <3>4, <4>1 DEF Owned
    <3>5. QED
      BY <3>3, <3>4
  <2>6. QED
    BY <2>4, <2>5 DEF IInv
<1>5. QED
  BY <1>3, <1>4

(* Steps that leave the database and the HSM alone, and take on no request. *)
LEMMA Quiet ==
  ASSUME IInv, NEW h \in Handlers, NEW k, WellTyped(k), handler' = [handler EXCEPT ![h] = k],
         k.toSign \subseteq handler[h].toSign, k.signing \subseteq handler[h].signing,
         UNCHANGED <<hotMode, db, signatures, byOperator, crashed>>,
         leftBehind' \subseteq Requests, reply'.asked \subseteq Requests
  PROVE  IInv'
<1>1. TypeOK'
  BY OneType DEF IInv, TypeOK
<1>2. ASSUME NEW r \in Requests \ byOperator' PROVE Owned(r)'
  BY GivesUp DEF IInv
<1>3. QED
  BY <1>1, <1>2 DEF IInv

LEMMA InsertedStep == ASSUME IInv, NEW h \in Handlers, Inserted(h) PROVE IInv'
<1> DEFINE k == [handler[h] EXCEPT !.pc = IF hotMode THEN "find" ELSE "status"]
<1>1. handler[h] \in Handler /\ handler' = [handler EXCEPT ![h] = k]
  BY Before DEF IInv, Inserted
<1>2. WellTyped(k) /\ k.toSign = handler[h].toSign /\ k.signing = handler[h].signing
  BY <1>1 DEF WellTyped, Handler
<1> HIDE DEF k
<1>3. QED
  BY <1>1, <1>2, Quiet DEF IInv, TypeOK, Inserted, history

LEMMA GetMessagesStep == ASSUME IInv, NEW h \in Handlers, GetMessages(h) PROVE IInv'
<1> DEFINE k == [handler[h] EXCEPT !.pc = "sign", !.toSign = {r \in @ : db[r] # "none"}]
<1>1. handler[h] \in Handler /\ handler' = [handler EXCEPT ![h] = k]
  BY Before DEF IInv, GetMessages
<1>2. WellTyped(k) /\ k.toSign \subseteq handler[h].toSign /\ k.signing = handler[h].signing
  BY <1>1 DEF WellTyped, Handler
<1> HIDE DEF k
<1>3. QED
  BY <1>1, <1>2, Quiet DEF IInv, TypeOK, GetMessages, history

LEMMA UnsupportedStep ==
  ASSUME IInv, NEW h \in Handlers, NEW r \in Requests, UnsupportedAlgorithm(h, r) PROVE IInv'
<1> DEFINE k == [handler[h] EXCEPT !.pc = "status", !.toSign = {}]
<1>1. handler[h] \in Handler /\ handler' = [handler EXCEPT ![h] = k]
  BY Before DEF IInv, UnsupportedAlgorithm
<1>2. WellTyped(k) /\ k.toSign = {} /\ k.signing = handler[h].signing
  BY <1>1 DEF WellTyped, Handler
<1>3. handler[h].toSign \subseteq Requests
  BY <1>1 DEF Handler
<1> HIDE DEF k
<1>4. QED
  BY <1>1, <1>2, <1>3, Quiet DEF IInv, TypeOK, UnsupportedAlgorithm

LEMMA AllSignedStep == ASSUME IInv, NEW h \in Handlers, AllSigned(h) PROVE IInv'
<1> DEFINE k == [handler[h] EXCEPT !.pc = "status"]
<1>1. handler[h] \in Handler /\ handler' = [handler EXCEPT ![h] = k]
  BY Before DEF IInv, AllSigned
<1>2. WellTyped(k) /\ k.toSign = handler[h].toSign /\ k.signing = handler[h].signing
  BY <1>1 DEF WellTyped, Handler
<1> HIDE DEF k
<1>3. QED
  BY <1>1, <1>2, Quiet DEF IInv, TypeOK, AllSigned, history

LEMMA RespondStep == ASSUME IInv, NEW h \in Handlers, Respond(h) PROVE IInv'
<1>1. WellTyped(Idle) /\ Idle.toSign = {} /\ Idle.signing = {}
  BY DEF WellTyped, Idle, Call, Handler, Statuses
<1>2. reply'.asked = handler[h].asked /\ handler[h].asked \subseteq Requests
  BY Before DEF Respond, Answers, IInv, Handler
<1>3. QED
  BY <1>1, <1>2, Quiet DEF IInv, TypeOK, Respond, Answers

(* The HSM is asked by the only call that has r, and for the first time.   *)
LEMMA SignStep ==
  ASSUME IInv, NEW h \in Handlers, NEW r \in Requests, Sign(h, r) PROVE IInv'
<1>1. PICK d \in FinalStatuses : Signing(h, r, d)
  BY DEF Sign
<1> DEFINE k == [handler[h] EXCEPT !.pc = "write", !.toSign = @ \ {r},
                                   !.signing = {r}, !.decision = d]
<1>2. handler[h] \in Handler /\ r \in handler[h].toSign /\ TypeOK
  BY Before DEF IInv, Sign
<1>3. /\ handler' = [handler EXCEPT ![h] = k]
      /\ UNCHANGED <<hotMode, db, reply, leftBehind, byOperator, crashed>>
      /\ signatures' = [signatures EXCEPT ![r] = IF @ = 2 THEN 2 ELSE @ + 1]
  BY <1>1 DEF Signing, history
<1>4. WellTyped(k) /\ k.toSign = handler[h].toSign \ {r} /\ k.signing = {r}
  BY <1>2 DEF WellTyped, Handler, Statuses
<1> HIDE DEF k
<1>5. TypeOK'
  <2>1. signatures' \in [Requests -> 0..2]
    BY <1>2, <1>3 DEF TypeOK
  <2>2. QED
    BY <1>2, <1>3, <1>4, <2>1, OneType DEF TypeOK
<1>6. ASSUME NEW s \in Requests \ byOperator' PROVE Owned(s)'
  <2>1. Owned(s)
    BY <1>3, <1>6 DEF IInv
  <2>2. \A g \in Handlers : handler'[g] = IF g = h THEN k ELSE handler[g]
    BY <1>2, <1>3 DEF TypeOK
  <2>3. CASE s = r
    <3>1. /\ signatures[r] = 0 /\ db[r] = "PENDING_SIGN"
          /\ \A g \in Handlers : r \notin handler[g].signing
          /\ \A g \in Handlers \ {h} : r \notin handler[g].toSign
      BY <1>2, <2>1, <2>3 DEF Owned
    <3>2. signatures'[r] = 1 /\ db'[r] = "PENDING_SIGN"
      BY <1>2, <1>3, <3>1 DEF TypeOK
    <3>3. \A g \in Handlers : /\ r \notin handler'[g].toSign
                              /\ r \in handler'[g].signing => g = h
      BY <1>4, <2>2, <3>1
    <3>4. QED
      BY <2>3, <3>2, <3>3 DEF Owned
  <2>4. CASE s # r
    <3>1. signatures'[s] = signatures[s] /\ db'[s] = db[s]
      BY <1>2, <1>3, <2>4 DEF TypeOK
    <3>2. \A g \in Handlers : /\ s \in handler'[g].toSign => s \in handler[g].toSign
                              /\ s \in handler'[g].signing => s \in handler[g].signing
      BY <1>4, <2>2, <2>4
    <3>3. QED
      BY <2>1, <3>1, <3>2 DEF Owned
  <2>5. QED
    BY <2>3, <2>4
<1>7. QED
  BY <1>5, <1>6 DEF IInv

(* Whoever writes a status has asked the HSM, so nobody else will.         *)
LEMMA UpdateStep ==
  ASSUME IInv, NEW h \in Handlers, UpdateMessageStatus(h) PROVE IInv'
<1> DEFINE k == [handler[h] EXCEPT !.pc = "sign", !.signing = {}, !.decision = "none"]
<1>1. /\ handler[h] \in Handler /\ TypeOK
      /\ handler[h].decision \in FinalStatuses
  BY Before DEF IInv, TypeOK, UpdateMessageStatus
<1>2. /\ handler' = [handler EXCEPT ![h] = k]
      /\ UNCHANGED <<hotMode, signatures, reply, leftBehind, byOperator, crashed>>
      /\ db' = [r \in Requests |-> IF r \in handler[h].signing THEN handler[h].decision ELSE db[r]]
  BY DEF UpdateMessageStatus, history
<1>3. WellTyped(k) /\ k.toSign = handler[h].toSign /\ k.signing = {}
  BY <1>1 DEF WellTyped, Handler, Statuses
<1> HIDE DEF k
<1>4. TypeOK'
  <2>1. db' \in [Requests -> Statuses]
    BY <1>1, <1>2 DEF TypeOK, Statuses
  <2>2. QED
    BY <1>1, <1>2, <1>3, <2>1, OneType DEF TypeOK
<1>5. ASSUME NEW s \in Requests \ byOperator' PROVE Owned(s)'
  <2>1. Owned(s)
    BY <1>2, <1>5 DEF IInv
  <2>2. \A g \in Handlers : handler'[g] = IF g = h THEN k ELSE handler[g]
    BY <1>1, <1>2 DEF TypeOK
  <2>3. CASE s \in handler[h].signing
    <3>1. /\ signatures[s] = 1 /\ db'[s] \in FinalStatuses
          /\ \A g \in Handlers : s \notin handler[g].toSign
          /\ \A g \in Handlers \ {h} : s \notin handler[g].signing
      BY <1>1, <1>2, <2>1, <2>3 DEF Owned
    <3>2. \A g \in Handlers : s \notin handler'[g].toSign /\ s \notin handler'[g].signing
      BY <1>3, <2>2, <3>1
    <3>3. signatures'[s] = 1 /\ db'[s] # "none"
      BY <1>2, <3>1 DEF FinalStatuses
    <3>4. QED
      BY <3>2, <3>3 DEF Owned
  <2>4. CASE s \notin handler[h].signing
    <3>1. signatures'[s] = signatures[s] /\ db'[s] = db[s]
      BY <1>2, <2>4
    <3>2. \A g \in Handlers : /\ s \in handler'[g].toSign => s \in handler[g].toSign
                              /\ s \in handler'[g].signing => s \in handler[g].signing
      BY <1>3, <2>2
    <3>3. QED
      BY <2>1, <3>1, <3>2 DEF Owned
  <2>5. QED
    BY <2>3, <2>4
<1>6. QED
  BY <1>4, <1>5 DEF IInv

LEMMA CrashStep == ASSUME IInv, NEW S \in SUBSET Handlers, Crash(S) PROVE IInv'
<1>1. Idle \in Handler /\ Idle.pc # "write" /\ Idle.toSign = {} /\ Idle.signing = {}
  BY DEF Idle, Call, Handler, Statuses
<1>2. \A g \in Handlers : handler'[g] = Idle \/ handler'[g] = handler[g]
  BY DEF Crash
<1>3. TypeOK'
  <2>1. handler' \in [Handlers -> Handler]
    BY <1>1 DEF Crash, IInv, TypeOK
  <2>2. \A g \in Handlers : handler'[g].pc = "write" => handler'[g].decision \in FinalStatuses
    BY <1>1, <1>2 DEF IInv, TypeOK
  <2>3. QED
    BY <2>1, <2>2 DEF IInv, TypeOK, Crash
<1>4. ASSUME NEW s \in Requests \ byOperator' PROVE Owned(s)'
  <2>1. Owned(s)
    BY <1>4 DEF IInv, Crash
  <2>2. \A g \in Handlers : /\ s \in handler'[g].toSign => s \in handler[g].toSign
                            /\ s \in handler'[g].signing => s \in handler[g].signing
    BY <1>1, <1>2
  <2>3. QED
    BY <2>1, <2>2 DEF Owned, Crash
<1>5. QED
  BY <1>3, <1>4 DEF IInv

LEMMA Step == IInv /\ [Next]_vars => IInv'
<1> SUFFICES ASSUME IInv, [Next]_vars PROVE IInv'
  OBVIOUS
<1>1. CASE UNCHANGED vars
  BY <1>1 DEF vars, history, IInv, TypeOK, Owned
<1>2. CASE Next
  <2>1. ASSUME NEW h \in Handlers, NEW r \in Requests,
               InsertMessage(h, r) \/ Sign(h, r) \/ UnsupportedAlgorithm(h, r) PROVE IInv'
    BY <2>1, InsertStep, SignStep, UnsupportedStep
  <2>2. ASSUME NEW h \in Handlers, Works(h) PROVE IInv'
    BY <2>1, <2>2, InsertedStep, GetMessagesStep, UpdateStep, AllSignedStep, RespondStep DEF Works
  <2>3. ASSUME NEW S \in SUBSET Handlers, Crash(S) PROVE IInv'
    BY <2>3, CrashStep
  <2>4. QED
    BY <1>2, <2>2, <2>3, ServeStep DEF Next
<1>3. QED
  BY <1>1, <1>2

-----------------------------------------------------------------------------
THEOREM Inductive == Spec => []IInv
BY InitInv, Step, PTL DEF Spec

(* Every variable has its type, and what is written is a final status.     *)
THEOREM TypeCorrect == Spec => []TypeOK
<1>1. IInv => TypeOK
  BY DEF IInv
<1>2. QED
  BY <1>1, Inductive, PTL

(* The HSM is asked once for a request, whatever calls overlap and die.    *)
THEOREM Idempotent == Spec => []SignedOnce
<1>1. IInv => SignedOnce
  BY DEF IInv, SignedOnce, Owned
<1>2. QED
  BY <1>1, Inductive, PTL


-----------------------------------------------------------------------------
(* Each step of a call in the form "handler h becomes k": what the parts   *)
(* below need to know of k.                                                *)
LEMMA ServedCall ==
  ASSUME NEW h \in Handlers, NEW pc, NEW A, NEW S, NEW T, TypeOK, Serve(h, Call(pc, A, S, T))
  PROVE  \E k : /\ handler' = [handler EXCEPT ![h] = k]
                /\ k.pc = pc /\ k.asked = A /\ k.toInsert = S /\ k.toSign = T /\ k.signing = {}
                /\ handler[h].pc = "idle"
                /\ UNCHANGED <<hotMode, db, reply, leftBehind, crashed>>
<1> WITNESS Call(pc, A, S, T)
<1> QED
  BY DEF Serve, Call

LEMMA InsertedCall ==
  ASSUME NEW h \in Handlers, NEW r \in Requests, TypeOK, InsertMessage(h, r)
  PROVE  \E k : /\ handler' = [handler EXCEPT ![h] = k]
                /\ k.pc = "insert" /\ k.asked = handler[h].asked
                /\ k.toInsert = handler[h].toInsert \ {r} /\ k.signing = handler[h].signing
                /\ k.toSign = IF db[r] = "none" THEN handler[h].toSign \cup {r} ELSE handler[h].toSign
                /\ db' = IF db[r] = "none" THEN [db EXCEPT ![r] = "PENDING_SIGN"] ELSE db
                /\ UNCHANGED <<hotMode, reply, byOperator, leftBehind, crashed>>
<1>1. handler[h] \in Handler /\ handler[h].pc = "insert"
  BY Before DEF InsertMessage
<1> DEFINE T == IF db[r] = "none" THEN handler[h].toSign \cup {r} ELSE handler[h].toSign
<1>2. \E k : handler' = [handler EXCEPT ![h] = k] /\ k.pc = "insert" /\ k.asked = handler[h].asked
             /\ k.toInsert = handler[h].toInsert \ {r} /\ k.signing = handler[h].signing /\ k.toSign = T
  <2>1. CASE db[r] = "none"
    <3> DEFINE l == [handler[h] EXCEPT !.toInsert = @ \ {r}, !.toSign = @ \cup {r}]
    <3>1. handler' = [handler EXCEPT ![h] = l]
      BY <1>1, <2>1 DEF InsertMessage
    <3>2. /\ l.pc = "insert" /\ l.asked = handler[h].asked /\ l.signing = handler[h].signing
          /\ l.toInsert = handler[h].toInsert \ {r} /\ l.toSign = T
      BY <1>1, <2>1 DEF Handler
    <3> QED
      BY <3>1, <3>2
  <2>2. CASE db[r] # "none"
    <3> DEFINE l == [handler[h] EXCEPT !.toInsert = @ \ {r}]
    <3>1. handler' = [handler EXCEPT ![h] = l]
      BY <1>1, <2>2 DEF InsertMessage
    <3>2. /\ l.pc = "insert" /\ l.asked = handler[h].asked /\ l.signing = handler[h].signing
          /\ l.toInsert = handler[h].toInsert \ {r} /\ l.toSign = T
      BY <1>1, <2>2 DEF Handler
    <3> QED
      BY <3>1, <3>2
  <2> QED
    BY <2>1, <2>2
<1>3. /\ db' = IF db[r] = "none" THEN [db EXCEPT ![r] = "PENDING_SIGN"] ELSE db
      /\ UNCHANGED <<hotMode, reply, byOperator, leftBehind, crashed>>
  BY DEF InsertMessage, history
<1> QED
  BY <1>2, <1>3

LEMMA InsertedAll ==
  ASSUME NEW h \in Handlers, TypeOK, Inserted(h)
  PROVE  \E k : /\ handler' = [handler EXCEPT ![h] = k]
                /\ k.pc = (IF hotMode THEN "find" ELSE "status")
                /\ k.asked = handler[h].asked /\ k.toInsert = handler[h].toInsert
                /\ k.toSign = handler[h].toSign /\ k.signing = handler[h].signing
                /\ handler[h].pc = "insert" /\ handler[h].toInsert = {}
                /\ UNCHANGED <<hotMode, db, reply, byOperator, leftBehind, crashed>>
<1> DEFINE l == [handler[h] EXCEPT !.pc = IF hotMode THEN "find" ELSE "status"]
<1>1. handler[h] \in Handler /\ handler' = [handler EXCEPT ![h] = l]
  BY Before DEF Inserted
<1>2. /\ l.pc = (IF hotMode THEN "find" ELSE "status") /\ l.asked = handler[h].asked
      /\ l.toInsert = handler[h].toInsert /\ l.toSign = handler[h].toSign
      /\ l.signing = handler[h].signing
  BY <1>1 DEF Handler
<1> QED
  BY <1>1, <1>2 DEF Inserted, history

LEMMA FoundCall ==
  ASSUME NEW h \in Handlers, TypeOK, GetMessages(h)
  PROVE  \E k : /\ handler' = [handler EXCEPT ![h] = k]
                /\ k.pc = "sign" /\ k.asked = handler[h].asked /\ k.toInsert = handler[h].toInsert
                /\ k.toSign = {r \in handler[h].toSign : db[r] # "none"}
                /\ k.signing = handler[h].signing
                /\ handler[h].pc = "find"
                /\ UNCHANGED <<hotMode, db, reply, byOperator, leftBehind, crashed>>
<1> DEFINE l == [handler[h] EXCEPT !.pc = "sign", !.toSign = {r \in @ : db[r] # "none"}]
<1>1. handler[h] \in Handler /\ handler' = [handler EXCEPT ![h] = l]
  BY Before DEF GetMessages
<1>2. /\ l.pc = "sign" /\ l.asked = handler[h].asked /\ l.toInsert = handler[h].toInsert
      /\ l.toSign = {r \in handler[h].toSign : db[r] # "none"} /\ l.signing = handler[h].signing
  BY <1>1 DEF Handler
<1> QED
  BY <1>1, <1>2 DEF GetMessages, history

LEMMA SigningCall ==
  ASSUME NEW h \in Handlers, NEW r \in Requests, TypeOK, Sign(h, r)
  PROVE  \E k : /\ handler' = [handler EXCEPT ![h] = k]
                /\ k.pc = "write" /\ k.asked = handler[h].asked /\ k.toInsert = handler[h].toInsert
                /\ k.toSign = handler[h].toSign \ {r} /\ k.signing = {r}
                /\ handler[h].pc = "sign"
                /\ UNCHANGED <<hotMode, db, reply, byOperator, leftBehind, crashed>>
<1>1. PICK d \in FinalStatuses : Signing(h, r, d)
  BY DEF Sign
<1> DEFINE l == [handler[h] EXCEPT !.pc = "write", !.toSign = @ \ {r},
                                   !.signing = {r}, !.decision = d]
<1>2. handler[h] \in Handler /\ handler' = [handler EXCEPT ![h] = l]
  BY <1>1, Before DEF Signing
<1>3. /\ l.pc = "write" /\ l.asked = handler[h].asked /\ l.toInsert = handler[h].toInsert
      /\ l.toSign = handler[h].toSign \ {r} /\ l.signing = {r}
  BY <1>2 DEF Handler
<1> QED
  BY <1>1, <1>2, <1>3 DEF Sign, Signing, history

LEMMA LeftCall ==
  ASSUME NEW h \in Handlers, NEW r \in Requests, TypeOK, UnsupportedAlgorithm(h, r)
  PROVE  \E k : /\ handler' = [handler EXCEPT ![h] = k]
                /\ k.pc = "status" /\ k.asked = handler[h].asked /\ k.toInsert = handler[h].toInsert
                /\ k.toSign = {} /\ k.signing = handler[h].signing
                /\ handler[h].pc = "sign"
                /\ leftBehind' = leftBehind \cup handler[h].toSign
                /\ UNCHANGED <<hotMode, db, reply, byOperator, crashed>>
<1> DEFINE l == [handler[h] EXCEPT !.pc = "status", !.toSign = {}]
<1>1. handler[h] \in Handler /\ handler' = [handler EXCEPT ![h] = l]
  BY Before DEF UnsupportedAlgorithm
<1>2. /\ l.pc = "status" /\ l.asked = handler[h].asked /\ l.toInsert = handler[h].toInsert
      /\ l.toSign = {} /\ l.signing = handler[h].signing
  BY <1>1 DEF Handler
<1> QED
  BY <1>1, <1>2 DEF UnsupportedAlgorithm

LEMMA WrittenCall ==
  ASSUME NEW h \in Handlers, TypeOK, UpdateMessageStatus(h)
  PROVE  \E k : /\ handler' = [handler EXCEPT ![h] = k]
                /\ k.pc = "sign" /\ k.asked = handler[h].asked /\ k.toInsert = handler[h].toInsert
                /\ k.toSign = handler[h].toSign /\ k.signing = {}
                /\ handler[h].pc = "write" /\ handler[h].decision \in FinalStatuses
                /\ db' = [r \in Requests |->
                            IF r \in handler[h].signing THEN handler[h].decision ELSE db[r]]
                /\ UNCHANGED <<hotMode, reply, byOperator, leftBehind, crashed>>
<1> DEFINE l == [handler[h] EXCEPT !.pc = "sign", !.signing = {}, !.decision = "none"]
<1>1. handler[h] \in Handler /\ handler' = [handler EXCEPT ![h] = l]
  BY Before DEF UpdateMessageStatus
<1>2. /\ l.pc = "sign" /\ l.asked = handler[h].asked /\ l.toInsert = handler[h].toInsert
      /\ l.toSign = handler[h].toSign /\ l.signing = {}
  BY <1>1 DEF Handler
<1>3. handler[h].pc = "write" /\ handler[h].decision \in FinalStatuses
  BY DEF UpdateMessageStatus, TypeOK
<1> HIDE DEF l
<1> QED
  BY <1>1, <1>2, <1>3 DEF UpdateMessageStatus, history

LEMMA SignedCall ==
  ASSUME NEW h \in Handlers, TypeOK, AllSigned(h)
  PROVE  \E k : /\ handler' = [handler EXCEPT ![h] = k]
                /\ k.pc = "status" /\ k.asked = handler[h].asked /\ k.toInsert = handler[h].toInsert
                /\ k.toSign = {} /\ k.signing = handler[h].signing
                /\ handler[h].pc = "sign" /\ handler[h].toSign = {}
                /\ UNCHANGED <<hotMode, db, reply, byOperator, leftBehind, crashed>>
<1> DEFINE l == [handler[h] EXCEPT !.pc = "status"]
<1>1. handler[h] \in Handler /\ handler' = [handler EXCEPT ![h] = l]
  BY Before DEF AllSigned
<1>2. /\ l.pc = "status" /\ l.asked = handler[h].asked /\ l.toInsert = handler[h].toInsert
      /\ l.toSign = handler[h].toSign /\ l.signing = handler[h].signing
  BY <1>1 DEF Handler
<1> QED
  BY <1>1, <1>2 DEF AllSigned, history

LEMMA IdleFields == /\ Idle.pc = "idle" /\ Idle.asked = {} /\ Idle.toInsert = {}
                    /\ Idle.toSign = {} /\ Idle.signing = {}
  BY DEF Idle, Call

-----------------------------------------------------------------------------
(* A pending request of HOT mode is never out of sight, unless its process *)
(* died or it was dropped by the return at line 54 of hsm-sign-service.ts: *)
(* some call has it still to sign, or has asked the HSM and will write.    *)
Pursuer(r) == \E h \in Handlers : r \in handler[h].toSign \cup handler[h].signing
NeverForgotten ==
  \A r \in Requests : hotMode /\ db[r] = "PENDING_SIGN" => crashed \/ r \in leftBehind \/ Pursuer(r)

(* What a call holds to sign it holds where it signs; what it still has to *)
(* insert, where it inserts; and all else it is asked about is known.      *)
InPlace(k) ==
  /\ hotMode /\ k.toSign # {} => k.pc \in {"insert", "find", "sign", "write"}
  /\ k.signing # {} => k.pc = "write"
  /\ k.toInsert # {} => k.pc = "insert"
  /\ \A r \in k.asked : r \in k.toInsert \/ db[r] # "none"
Pursued == NeverForgotten /\ \A h \in Handlers : InPlace(handler[h])

(* What is to be shown of a step that makes handler h a k.                 *)
LEMMA Passes ==
  ASSUME TypeOK, Pursued, NEW h \in Handlers, NEW k, handler' = [handler EXCEPT ![h] = k],
         UNCHANGED <<hotMode, crashed>>, leftBehind \subseteq leftBehind',
         \A r \in Requests : db[r] # "none" => db'[r] # "none",
         InPlace(k)', k.asked \subseteq Requests,
         \A r \in Requests : hotMode /\ db'[r] = "PENDING_SIGN" =>
            \/ r \in k.toSign \cup k.signing \cup leftBehind'
            \/ db[r] = "PENDING_SIGN" /\ r \notin handler[h].toSign \cup handler[h].signing
  PROVE  Pursued'
<1>1. \A g \in Handlers : handler'[g] = IF g = h THEN k ELSE handler[g]
  BY DEF TypeOK
<1>2. \A g \in Handlers : InPlace(handler[g])' 
  <2> TAKE g \in Handlers
  <2>1. CASE g = h
    BY <1>1, <2>1 DEF InPlace
  <2>2. CASE g # h
    <3>1. handler'[g] = handler[g] /\ handler[g].asked \subseteq Requests /\ InPlace(handler[g])
      BY <1>1, <2>2, Before DEF Pursued, Handler
    <3> QED
      BY <3>1 DEF InPlace
  <2> QED
    BY <2>1, <2>2
<1>3. ASSUME NEW r \in Requests, hotMode', db'[r] = "PENDING_SIGN"
      PROVE  crashed' \/ r \in leftBehind' \/ Pursuer(r)'
  <2>1. CASE r \in k.toSign \cup k.signing
    BY <1>1, <2>1 DEF Pursuer
  <2>2. CASE db[r] = "PENDING_SIGN" /\ r \notin handler[h].toSign \cup handler[h].signing
    <3>1. crashed \/ r \in leftBehind \/ Pursuer(r)
      BY <1>3, <2>2 DEF Pursued, NeverForgotten
    <3>2. ASSUME Pursuer(r) PROVE Pursuer(r)'
      BY <1>1, <2>2, <3>2 DEF Pursuer
    <3> QED
      BY <3>1, <3>2
  <2> QED
    BY <1>3, <2>1, <2>2
<1> QED
  BY <1>2, <1>3 DEF Pursued, NeverForgotten

LEMMA PursuedServe ==
  ASSUME TypeOK, Pursued, NEW h \in Handlers, NEW pc \in {"insert", "find", "status"},
         NEW A \in SUBSET Requests, NEW S, NEW T, Serve(h, Call(pc, A, S, T)),
         S # {} => pc = "insert", T # {} => pc = "find",
         \A r \in A : r \in S \/ db[r] # "none"
  PROVE  Pursued'
<1>1. PICK k : /\ handler' = [handler EXCEPT ![h] = k]
               /\ k.pc = pc /\ k.asked = A /\ k.toInsert = S /\ k.toSign = T /\ k.signing = {}
               /\ handler[h].pc = "idle"
               /\ UNCHANGED <<hotMode, db, reply, leftBehind, crashed>>
  BY ServedCall
<1>2. InPlace(k)'
  BY <1>1 DEF InPlace
<1>3. hotMode => handler[h].toSign \cup handler[h].signing = {}
  BY <1>1 DEF Pursued, InPlace
<1> QED
  BY <1>1, <1>2, <1>3, Passes

LEMMA PursuedWorks ==
  ASSUME TypeOK, Pursued, NEW h \in Handlers, Works(h)
  PROVE  Pursued'
<1>0. InPlace(handler[h]) /\ handler[h].asked \subseteq Requests
  BY Before DEF Pursued, Handler
<1>1. ASSUME NEW r \in Requests, InsertMessage(h, r) PROVE Pursued'
  <2>1. PICK k : /\ handler' = [handler EXCEPT ![h] = k]
                 /\ k.pc = "insert" /\ k.asked = handler[h].asked
                 /\ k.toInsert = handler[h].toInsert \ {r} /\ k.signing = handler[h].signing
                 /\ k.toSign = IF db[r] = "none" THEN handler[h].toSign \cup {r} ELSE handler[h].toSign
                 /\ db' = IF db[r] = "none" THEN [db EXCEPT ![r] = "PENDING_SIGN"] ELSE db
                 /\ UNCHANGED <<hotMode, reply, byOperator, leftBehind, crashed>>
    BY <1>1, InsertedCall
  <2>2. /\ db'[r] # "none" /\ \A s \in Requests : db[s] # "none" => db'[s] # "none"
        /\ \A s \in Requests : s # r => db'[s] = db[s]
        /\ db[r] # "none" => db'[r] = db[r]
    BY <2>1 DEF TypeOK
  <2>3. handler[h].pc = "insert"
    BY <1>1 DEF InsertMessage
  <2>4. InPlace(k)'
    BY <1>0, <2>1, <2>2, <2>3 DEF InPlace
  <2> QED
    BY <1>0, <2>1, <2>2, <2>4, Passes
<1>2. CASE Inserted(h)
  <2>1. PICK k : /\ handler' = [handler EXCEPT ![h] = k]
                 /\ k.pc = (IF hotMode THEN "find" ELSE "status")
                 /\ k.asked = handler[h].asked /\ k.toInsert = handler[h].toInsert
                 /\ k.toSign = handler[h].toSign /\ k.signing = handler[h].signing
                 /\ handler[h].pc = "insert" /\ handler[h].toInsert = {}
                 /\ UNCHANGED <<hotMode, db, reply, byOperator, leftBehind, crashed>>
    BY <1>2, InsertedAll
  <2>2. InPlace(k)'
    BY <1>0, <2>1 DEF InPlace
  <2> QED
    BY <1>0, <2>1, <2>2, Passes
<1>3. CASE GetMessages(h)
  <2>1. PICK k : /\ handler' = [handler EXCEPT ![h] = k]
                 /\ k.pc = "sign" /\ k.asked = handler[h].asked /\ k.toInsert = handler[h].toInsert
                 /\ k.toSign = {r \in handler[h].toSign : db[r] # "none"}
                 /\ k.signing = handler[h].signing
                 /\ handler[h].pc = "find"
                 /\ UNCHANGED <<hotMode, db, reply, byOperator, leftBehind, crashed>>
    BY <1>3, FoundCall
  <2>2. InPlace(k)'
    BY <1>0, <2>1 DEF InPlace
  <2> QED
    BY <1>0, <2>1, <2>2, Passes
<1>4. ASSUME NEW r \in Requests, Sign(h, r) PROVE Pursued'
  <2>1. PICK k : /\ handler' = [handler EXCEPT ![h] = k]
                 /\ k.pc = "write" /\ k.asked = handler[h].asked /\ k.toInsert = handler[h].toInsert
                 /\ k.toSign = handler[h].toSign \ {r} /\ k.signing = {r}
                 /\ handler[h].pc = "sign"
                 /\ UNCHANGED <<hotMode, db, reply, byOperator, leftBehind, crashed>>
    BY <1>4, SigningCall
  <2>2. InPlace(k)' /\ handler[h].signing = {}
    BY <1>0, <2>1 DEF InPlace
  <2> QED
    BY <1>0, <2>1, <2>2, Passes
<1>5. ASSUME NEW r \in Requests, UnsupportedAlgorithm(h, r) PROVE Pursued'
  <2>1. PICK k : /\ handler' = [handler EXCEPT ![h] = k]
                 /\ k.pc = "status" /\ k.asked = handler[h].asked /\ k.toInsert = handler[h].toInsert
                 /\ k.toSign = {} /\ k.signing = handler[h].signing
                 /\ handler[h].pc = "sign"
                 /\ leftBehind' = leftBehind \cup handler[h].toSign
                 /\ UNCHANGED <<hotMode, db, reply, byOperator, crashed>>
    BY <1>5, LeftCall
  <2>2. InPlace(k)' /\ handler[h].signing = {}
    BY <1>0, <2>1 DEF InPlace
  <2> QED
    BY <1>0, <2>1, <2>2, Passes
<1>6. CASE UpdateMessageStatus(h)
  <2>1. PICK k : /\ handler' = [handler EXCEPT ![h] = k]
                 /\ k.pc = "sign" /\ k.asked = handler[h].asked /\ k.toInsert = handler[h].toInsert
                 /\ k.toSign = handler[h].toSign /\ k.signing = {}
                 /\ handler[h].pc = "write" /\ handler[h].decision \in FinalStatuses
                 /\ db' = [r \in Requests |->
                             IF r \in handler[h].signing THEN handler[h].decision ELSE db[r]]
                 /\ UNCHANGED <<hotMode, reply, byOperator, leftBehind, crashed>>
    BY <1>6, WrittenCall
  <2>2. \A s \in Requests :
          /\ s \notin handler[h].signing => db'[s] = db[s]
          /\ s \in handler[h].signing => db'[s] \in FinalStatuses
    BY <2>1
  <2>3. \A s \in Requests : /\ db[s] # "none" => db'[s] # "none"
                            /\ db'[s] = "PENDING_SIGN" => db[s] = "PENDING_SIGN" /\ s \notin handler[h].signing
    BY <2>2 DEF FinalStatuses
  <2>4. InPlace(k)'
    BY <1>0, <2>1, <2>3 DEF InPlace
  <2> QED
    BY <1>0, <2>1, <2>3, <2>4, Passes
<1>7. CASE AllSigned(h)
  <2>1. PICK k : /\ handler' = [handler EXCEPT ![h] = k]
                 /\ k.pc = "status" /\ k.asked = handler[h].asked /\ k.toInsert = handler[h].toInsert
                 /\ k.toSign = {} /\ k.signing = handler[h].signing
                 /\ handler[h].pc = "sign" /\ handler[h].toSign = {}
                 /\ UNCHANGED <<hotMode, db, reply, byOperator, leftBehind, crashed>>
    BY <1>7, SignedCall
  <2>2. InPlace(k)'
    BY <1>0, <2>1 DEF InPlace
  <2> QED
    BY <1>0, <2>1, <2>2, Passes
<1>8. CASE Respond(h)
  <2>1. /\ handler[h].pc = "status" /\ handler' = [handler EXCEPT ![h] = Idle]
        /\ UNCHANGED <<hotMode, db, leftBehind, crashed>>
    BY <1>8 DEF Respond, Answers
  <2>2. InPlace(Idle)'
    BY IdleFields DEF InPlace
  <2>3. hotMode => handler[h].toSign \cup handler[h].signing = {}
    BY <1>0, <2>1 DEF InPlace
  <2> QED
    BY <2>1, <2>2, <2>3, IdleFields, Passes
<1> QED
  BY <1>1, <1>2, <1>3, <1>4, <1>5, <1>6, <1>7, <1>8 DEF Works

LEMMA PursuedStep == IInv /\ Pursued /\ [Next]_vars => Pursued'
<1> SUFFICES ASSUME TypeOK, Pursued, [Next]_vars PROVE Pursued'
  BY DEF IInv
<1>1. CASE UNCHANGED vars
  BY <1>1 DEF vars, history, Pursued, NeverForgotten, Pursuer, InPlace
<1>2. ASSUME NEW h \in Handlers, NEW S \in SUBSET Requests, MessagesToSign(h, S) PROVE Pursued'
  BY <1>2, PursuedServe DEF MessagesToSign
<1>3. ASSUME NEW h \in Handlers, NEW S \in SUBSET Requests, MessagesStatus(h, S) PROVE Pursued'
  BY <1>3, PursuedServe DEF MessagesStatus
<1>4. ASSUME NEW h \in Handlers, NEW S, SignByOperator(h, S) PROVE Pursued'
  BY <1>4, PursuedServe DEF SignByOperator
<1>5. ASSUME NEW S \in SUBSET Handlers, Crash(S) PROVE Pursued'
  <2>1. \A g \in Handlers : handler'[g] = Idle \/ handler'[g] = handler[g]
    BY <1>5 DEF Crash
  <2>2. \A g \in Handlers : InPlace(handler[g])'
    BY <1>5, <2>1, IdleFields DEF Crash, Pursued, InPlace
  <2> QED
    BY <1>5, <2>2 DEF Crash, Pursued, NeverForgotten
<1> QED
  BY <1>1, <1>2, <1>3, <1>4, <1>5, PursuedWorks DEF Next, SignAllPendingMessages, SignRequest

LEMMA PursuedAlways == Spec => []Pursued
<1>1. Init => Pursued
  BY IdleFields DEF Init, Pursued, NeverForgotten, InPlace
<1> QED
  BY <1>1, Inductive, PursuedStep, PTL DEF Spec

(* In HOT mode a request is signed by the call that inserts it (lines      *)
(* 28-30 of messages.router.ts): whatever calls overlap, a request that is *)
(* pending has a call at work on it, or is one of the two kinds that only  *)
(* an operator's call decides.                                             *)
THEOREM NothingForgotten == Spec => []NeverForgotten
<1>1. Pursued => NeverForgotten
  BY DEF Pursued
<1> QED
  BY <1>1, PursuedAlways, PTL

-----------------------------------------------------------------------------
(* The refinement: an upsert that inserts and a write of a decision are    *)
(* progress, an operator's call takes requests over, the response is the   *)
(* reply, and every other step leaves the customer as it is.               *)
Alike == UNCHANGED <<db, byOperator, reply>>

LEMMA ContractInit == Init => Contract!Init
  BY DEF Init, Contract!Init

LEMMA Progresses ==
  ASSUME TypeOK, TypeOK', UNCHANGED <<byOperator, reply>>,
         \A r \in Requests : \/ db'[r] = db[r]
                             \/ db[r] = "none" /\ db'[r] = "PENDING_SIGN"
                             \/ db'[r] \in FinalStatuses /\ (db[r] \notin FinalStatuses \/ r \in byOperator)
  PROVE  Contract!Next
<1>1. Contract!Progress
  BY DEF TypeOK, Statuses, FinalStatuses, Contract!Progress, Contract!MayBecome, Contract!Known,
         Contract!Decisions
<1> QED
  BY <1>1 DEF Contract!Next

LEMMA WorksLikeContract ==
  ASSUME IInv, TypeOK', Pursued, NEW h \in Handlers, Works(h)
  PROVE  Contract!Next \/ Alike
<1> USE DEF IInv
<1>1. ASSUME NEW r \in Requests, InsertMessage(h, r) PROVE Contract!Next \/ Alike
  <2>1. PICK k : /\ handler' = [handler EXCEPT ![h] = k]
                 /\ k.pc = "insert" /\ k.asked = handler[h].asked
                 /\ k.toInsert = handler[h].toInsert \ {r} /\ k.signing = handler[h].signing
                 /\ k.toSign = IF db[r] = "none" THEN handler[h].toSign \cup {r} ELSE handler[h].toSign
                 /\ db' = IF db[r] = "none" THEN [db EXCEPT ![r] = "PENDING_SIGN"] ELSE db
                 /\ UNCHANGED <<hotMode, reply, byOperator, leftBehind, crashed>>
    BY <1>1, InsertedCall
  <2>2. \A s \in Requests : db'[s] = db[s] \/ (db[s] = "none" /\ db'[s] = "PENDING_SIGN")
    BY <2>1 DEF TypeOK
  <2> QED
    BY <2>1, <2>2, Progresses
<1>2. CASE UpdateMessageStatus(h)
  <2>1. PICK k : /\ handler' = [handler EXCEPT ![h] = k]
                 /\ k.pc = "sign" /\ k.asked = handler[h].asked /\ k.toInsert = handler[h].toInsert
                 /\ k.toSign = handler[h].toSign /\ k.signing = {}
                 /\ handler[h].pc = "write" /\ handler[h].decision \in FinalStatuses
                 /\ db' = [r \in Requests |->
                             IF r \in handler[h].signing THEN handler[h].decision ELSE db[r]]
                 /\ UNCHANGED <<hotMode, reply, byOperator, leftBehind, crashed>>
    BY <1>2, WrittenCall
  <2>2. ASSUME NEW s \in Requests
        PROVE  \/ db'[s] = db[s]
               \/ db'[s] \in FinalStatuses /\ (db[s] \notin FinalStatuses \/ s \in byOperator)
    <3>1. s \in handler[h].signing => db[s] = "PENDING_SIGN" \/ s \in byOperator
      BY DEF Owned
    <3>2. db'[s] = IF s \in handler[h].signing THEN handler[h].decision ELSE db[s]
      BY <2>1
    <3>3. handler[h].decision \in FinalStatuses /\ "PENDING_SIGN" \notin FinalStatuses
      BY <2>1 DEF FinalStatuses
    <3> HIDE DEF IInv
    <3> QED
      BY <3>1, <3>2, <3>3
  <2> QED
    BY <2>1, <2>2, Progresses
<1>3. CASE Respond(h)
  <2> DEFINE S == handler[h].asked
  <2>1. S \subseteq Requests /\ handler[h].pc = "status"
    BY <1>3, Before DEF Handler, Respond, Answers
  <2>2. InPlace(handler[h])
    BY DEF Pursued
  <2>3. \A r \in S : db[r] # "none"
    BY <2>1, <2>2 DEF InPlace
  <2>4. {r \in S : db[r] # "none"} = S
    BY <2>3
  <2>5. \A r \in S : db[r] \in Contract!Known
    BY <2>1, <2>3 DEF TypeOK, Statuses, FinalStatuses, Contract!Known, Contract!Decisions
  <2>6. reply' = [asked |-> S, told |-> [r \in S |-> db[r]]] /\ UNCHANGED <<db, byOperator>>
    BY <1>3, <2>4 DEF Respond, Answers
  <2>7. Contract!Reply(S)
    BY <2>5, <2>6 DEF Contract!Reply
  <2> QED
    BY <2>1, <2>7 DEF Contract!Next
<1>4. CASE Inserted(h) \/ GetMessages(h) \/ AllSigned(h)
  BY <1>4 DEF Inserted, GetMessages, AllSigned, history, Alike
<1>5. ASSUME NEW r \in Requests, Sign(h, r) \/ UnsupportedAlgorithm(h, r) PROVE Alike
  BY <1>5 DEF Sign, Signing, UnsupportedAlgorithm, history, Alike
<1> QED
  BY <1>1, <1>2, <1>3, <1>4, <1>5 DEF Works

LEMMA ContractStep ==
  ASSUME IInv, IInv', Pursued, [Next]_vars
  PROVE  Contract!Next \/ Alike
<1>1. CASE UNCHANGED vars
  BY <1>1 DEF vars, history, Alike
<1>2. ASSUME NEW h \in Handlers, NEW S, MessagesToSign(h, S) \/ MessagesStatus(h, S) PROVE Alike
  BY <1>2 DEF MessagesToSign, MessagesStatus, Serve, Alike
<1>3. ASSUME NEW h \in Handlers, NEW S \in SUBSET Requests, SignByOperator(h, S) PROVE Contract!Next
  <2>1. Contract!Overrule
    BY <1>3 DEF SignByOperator, Serve, IInv, TypeOK, Contract!Overrule
  <2> QED
    BY <2>1 DEF Contract!Next
<1>4. ASSUME NEW S, Crash(S) PROVE Alike
  BY <1>4 DEF Crash, Alike
<1>5. ASSUME NEW h \in Handlers, Works(h) PROVE Contract!Next \/ Alike
  BY <1>5, WorksLikeContract DEF IInv
<1>6. ASSUME NEW h \in Handlers, NEW r \in Requests, SignRequest(h, r) PROVE Contract!Next
  BY <1>3, <1>6 DEF SignRequest
<1>7. ASSUME NEW h \in Handlers, SignAllPendingMessages(h) PROVE Contract!Next
  BY <1>3, <1>7 DEF SignAllPendingMessages
<1> QED
  BY <1>1, <1>2, <1>4, <1>5, <1>6, <1>7 DEF Next

(* The example server is the customer the agent counts on (README.md:104): *)
(* whatever calls overlap and whichever processes die, it decides each     *)
(* request once, operators' calls aside, and answers each call for all the *)
(* requests it was about.                                                  *)
THEOREM IsTheCustomer == Spec => ImplementsCustomer
<1>1. IInv /\ IInv' /\ Pursued /\ [Next]_vars => [Contract!Next]_(Contract!cvars)
  BY ContractStep DEF Alike, Contract!cvars
<1> QED
  BY <1>1, ContractInit, Inductive, PursuedAlways, PTL DEF Spec, ImplementsCustomer, Contract!Spec

(* Of the contract alone: an answer that is read late, or after another    *)
(* one, is not false.  It calls pending what has been decided since, or    *)
(* tells the decision that still stands.  This is what module Delivery     *)
(* assumes of a customer's reports.                                        *)
RepliesStand == Contract!StillTrue
ContractInv ==
  /\ reply.asked \subseteq Requests
  /\ \A r \in reply.asked : reply.told[r] \in Contract!Known
  /\ RepliesStand

LEMMA ContractKeeps == ContractInv /\ [Contract!Next]_(Contract!cvars) => ContractInv'
<1> SUFFICES ASSUME ContractInv, [Contract!Next]_(Contract!cvars) PROVE ContractInv'
  OBVIOUS
<1> USE DEF ContractInv, RepliesStand, Contract!StillTrue, Contract!Known, Contract!Decisions
<1>1. CASE UNCHANGED Contract!cvars
  BY <1>1 DEF Contract!cvars
<1>2. CASE Contract!Progress
  BY <1>2 DEF Contract!Progress, Contract!MayBecome
<1>3. CASE Contract!Overrule
  BY <1>3 DEF Contract!Overrule
<1>4. ASSUME NEW S \in SUBSET Requests, Contract!Reply(S) PROVE ContractInv'
  <2>1. reply'.asked = S /\ (\A r \in S : reply'.told[r] = db[r]) /\ UNCHANGED <<db, byOperator>>
    BY <1>4 DEF Contract!Reply
  <2> QED
    BY <1>4, <2>1 DEF Contract!Reply
<1> QED
  BY <1>1, <1>2, <1>3, <1>4 DEF Contract!Next

THEOREM RepliesNeverFalse == Spec => []RepliesStand
<1>1. Contract!Init => ContractInv
  BY DEF Contract!Init, ContractInv, RepliesStand, Contract!StillTrue
<1>2. ContractInv => RepliesStand
  BY DEF ContractInv
<1> QED
  BY <1>1, <1>2, ContractKeeps, IsTheCustomer, PTL DEF ImplementsCustomer, Contract!Spec
=============================================================================
