--------------------------- MODULE HsmFacadeProofs ---------------------------
(***************************************************************************)
(* One lost session is repaired by the sign call that meets it, for any    *)
(* keys and any bound on the attempts: proofs about module HsmFacade.      *)
(***************************************************************************)
EXTENDS HsmFacade, TLAPS

(* Without a session there is no login and no operation.                   *)
NothingWithoutSession == ~session => ~loggedIn /\ active = "none"

(* How much of the key pair is stored at each step of generateKeyPair.     *)
StoredSoFar ==
  /\ pc = "generate" => stored[call.key] = "none"
  /\ pc \in {"point", "setPublic"} => stored[call.key] = "pair"
  /\ pc = "setPrivate" => stored[call.key] = "public"
  /\ pc = "readBack" => stored[call.key] = "both"

(* What holds at each step of a sign call that has met at most one loss:   *)
(* the first attempt runs on a session in order or ends in a reopening,    *)
(* and every later one runs on the session that was reopened.              *)
FairWeather ==
  /\ call.op = "sign" /\ call.wellFormed /\ stored[call.key] = "both"
  /\ ~call.outage /\ ~call.faulty /\ call.losses <= 1
  /\ call.login /\ call.free
InOrder ==
  /\ link
  /\ attempt # 1 => call.losses = 1
  /\ pc \in Finding \cup Using => session \/ (call.losses = 1 /\ attempt = 1)
  /\ pc \in Finding \cup Using /\ session => loggedIn
  /\ pc \in {"findInit", "init"} => active = "none"
  /\ pc = "findFinal" /\ session => found
  /\ pc \in Reopening => call.losses = 1 /\ attempt = 1
  /\ pc = "login" => session
  /\ pc \in {"open", "login"} => active = "none"
SignInOrder == InCall /\ FairWeather => InOrder

(* Only sign reopens, and only with an attempt left, only generateKeyPair  *)
(* generates, and a call that is being served has no result yet.           *)
Serves ==
  /\ InCall => call.result = "none"
  /\ pc \in Reopening => call.op = "sign" /\ attempt < MAX_SIGN_ATTEMPTS
  /\ pc \in Generating => call.op = "generate"
  /\ pc \in Finding \cup Using => call.op \in {"sign", "verify"}

IInv ==
  /\ TypeOK /\ NothingWithoutSession /\ StoredSoFar /\ ReturnedKeysStored
  /\ Serves /\ SignInOrder /\ OneLossRecovered

-----------------------------------------------------------------------------
LEMMA FirstAttempt == 1 \in 1..MAX_SIGN_ATTEMPTS
  BY ConstantsAssumption

LEMMA NoCallType == NoCall \in Call
  BY ConstantsAssumption DEF NoCall, NewCall, Call

LEMMA NewCallType ==
  ASSUME NEW op \in {"sign", "verify", "generate"}, NEW k \in Keys, NEW w \in BOOLEAN,
         NEW a \in BOOLEAN, NEW b \in BOOLEAN, NEW n \in 0..2, NEW c \in BOOLEAN
  PROVE  NewCall(op, k, w, a, b, n, c) \in Call
  BY DEF NewCall, Call

LEMMA ServeType ==
  ASSUME NEW op \in {"sign", "verify", "generate"}, NEW k \in Keys, NEW w \in BOOLEAN, NEW first,
         Serve(op, k, w, first)
  PROVE  call' \in Call
<1>1. PICK a \in BOOLEAN : a = (session => loggedIn)
  OBVIOUS
<1>2. PICK b \in BOOLEAN : b = (active = "none")
  OBVIOUS
<1>3. PICK c \in BOOLEAN : c = (~link)
  OBVIOUS
<1>4. PICK n \in 0..2 : n = (IF session THEN 0 ELSE 1)
  OBVIOUS
<1>5. call' = NewCall(op, k, w, a, b, n, c)
  BY <1>1, <1>2, <1>3, <1>4, Zenon DEF Serve
<1> QED
  BY <1>5, NewCallType

LEMMA LossType ==
  ASSUME NEW c \in Call, NEW up \in BOOLEAN
  PROVE  [c EXCEPT !.losses = IF @ = 2 THEN 2 ELSE @ + 1, !.outage = @ \/ ~up] \in Call
<1>1. PICK o \in BOOLEAN : o = (c.outage \/ ~up)
  OBVIOUS
<1>2. PICK n \in 0..2 : n = (IF c.losses = 2 THEN 2 ELSE c.losses + 1)
  BY DEF Call
<1>3. [c EXCEPT !.losses = n, !.outage = o] \in Call
  BY DEF Call
<1> QED
  BY <1>1, <1>2, <1>3, Zenon

LEMMA InitInvariant == Init => IInv
<1> SUFFICES ASSUME Init PROVE IInv
  OBVIOUS
<1>1. TypeOK
  BY FirstAttempt, NoCallType DEF Init, TypeOK, Pcs
<1>2. call.op = "none" /\ pc = "down" /\ ~session /\ ~loggedIn /\ active = "none" /\ returned = {}
  BY DEF Init, NoCall, NewCall
<1> QED
  BY <1>1, <1>2
  DEF IInv, NothingWithoutSession, StoredSoFar, ReturnedKeysStored, Serves, SignInOrder, InCall,
      OneLossRecovered, FailsInFairWeather, Finding, Using, Generating, Reopening

-----------------------------------------------------------------------------
(* Every step keeps each part of the invariant.                            *)
LEMMA TypeStep == TypeOK /\ Serves /\ [Next]_vars => TypeOK'
<1> SUFFICES ASSUME TypeOK, Serves, [Next]_vars PROVE TypeOK'
  OBVIOUS
<1>22. ASSUME NEW k \in Keys, NEW w \in BOOLEAN, Sign(k, w) \/ Verify(k, w) \/ GenerateKeyPair(k)
      PROVE  TypeOK'
  <2>1. PICK op \in {"sign", "verify", "generate"}, wf \in BOOLEAN,
             first \in {"findInit", "generate"} : Serve(op, k, wf, first)
    BY <1>22 DEF Sign, Verify, GenerateKeyPair
  <2>2. call' \in Call
    BY <2>1, ServeType
  <2>3. /\ pc' = first /\ attempt' = 1 /\ found' = FALSE
        /\ UNCHANGED <<link, session, loggedIn, active, stored, returned>>
    BY <2>1 DEF Serve, token
  <2>4. first \in Pcs
    BY <2>1 DEF Pcs, OnSession, Finding, Generating
  <2> QED
    BY <2>2, <2>3, <2>4, FirstAttempt DEF TypeOK
<1>23. ASSUME NEW up \in BOOLEAN, LinkLost(up)
      PROVE  TypeOK'
  <2>1. call' \in Call
    BY <1>23, LossType DEF LinkLost, TypeOK
  <2>2. /\ link' = up /\ session' = FALSE /\ loggedIn' = FALSE /\ active' = "none"
        /\ UNCHANGED <<pc, attempt, found, stored, returned>>
    BY <1>23 DEF LinkLost
  <2> QED
    BY <2>1, <2>2 DEF TypeOK
<1>1. CASE Start
  <2>1. call' \in Call
    BY <1>1, NoCallType DEF Start
  <2> QED
    BY <1>1, <2>1 DEF Start, TypeOK, Pcs
<1>21. CASE Exit
  <2>1. call' \in Call
    BY <1>21, NoCallType DEF Exit
  <2> QED
    BY <1>21, <2>1, FirstAttempt DEF Exit, TypeOK, Pcs
<1> USE ConstantsAssumption DEF TypeOK, Call, Pcs, OnSession, Finding, Using, Generating,
    Reopening, token
<1>2. CASE SessionBroken
  BY <1>2, NoCallType DEF SessionBroken, Catch, Ends, Succeeds, Stores, Calls, InCall
<1>3. CASE OtherError
  BY <1>3, NoCallType DEF OtherError, Catch, Ends, Succeeds, Stores, Calls, InCall
<1>4. CASE OperationActive
  BY <1>4, NoCallType DEF OperationActive, Catch, Ends, Succeeds, Stores, Calls, InCall
<1>5. CASE FindObjectsInit
  BY <1>5, NoCallType DEF FindObjectsInit, Catch, Ends, Succeeds, Stores, Calls, InCall
<1>6. CASE FindObjects
  BY <1>6, NoCallType DEF FindObjects, Catch, Ends, Succeeds, Stores, Calls, InCall
<1>7. CASE FindObjectsFinal
  BY <1>7, NoCallType DEF FindObjectsFinal, Catch, Ends, Succeeds, Stores, Calls, InCall
<1>8. CASE OperationInit
  BY <1>8 DEF Serves, OperationInit, Catch, Ends, Succeeds, Stores, Calls, InCall
<1>9. CASE Operation
  BY <1>9, NoCallType DEF Operation, Catch, Ends, Succeeds, Stores, Calls, InCall
<1>10. CASE MalformedArgument
  BY <1>10, NoCallType DEF MalformedArgument, Catch, Ends, Succeeds, Stores, Calls, InCall
<1>11. CASE CloseSession
  BY <1>11, NoCallType DEF CloseSession, Catch, Ends, Succeeds, Stores, Calls, InCall
<1>12. CASE OpenSession
  BY <1>12, NoCallType DEF OpenSession, Catch, Ends, Succeeds, Stores, Calls, InCall
<1>13. CASE Login
  BY <1>13 DEF Serves, Login, Catch, Ends, Succeeds, Stores, Calls, InCall
<1>14. CASE ReopenFails
  BY <1>14, NoCallType DEF ReopenFails, Catch, Ends, Succeeds, Stores, Calls, InCall
<1>15. CASE GenerateKeys
  BY <1>15, NoCallType DEF GenerateKeys, Catch, Ends, Succeeds, Stores, Calls, InCall
<1>16. CASE ReadPoint
  BY <1>16, NoCallType DEF ReadPoint, Catch, Ends, Succeeds, Stores, Calls, InCall
<1>17. CASE SetPublicId
  BY <1>17, NoCallType DEF SetPublicId, Catch, Ends, Succeeds, Stores, Calls, InCall
<1>18. CASE SetPrivateId
  BY <1>18, NoCallType DEF SetPrivateId, Catch, Ends, Succeeds, Stores, Calls, InCall
<1>19. CASE KeyPairReturned
  BY <1>19, NoCallType DEF KeyPairReturned, Catch, Ends, Succeeds, Stores, Calls, InCall
<1>20. CASE LinkBack
  BY <1>20, NoCallType DEF LinkBack, Catch, Ends, Succeeds, Stores, Calls, InCall
<1>24. CASE UNCHANGED vars
  BY <1>24 DEF vars
<1> QED
  BY <1>1, <1>2, <1>3, <1>4, <1>5, <1>6, <1>7, <1>8, <1>9, <1>10, <1>11, <1>12, <1>13, <1>14,
      <1>15, <1>16, <1>17, <1>18, <1>19, <1>20, <1>21, <1>22, <1>23, <1>24 DEF Next, Works
LEMMA SessionStep ==
  ASSUME TypeOK, NothingWithoutSession, [Next]_vars
  PROVE  NothingWithoutSession'
<1> USE DEF NothingWithoutSession, token
<1>1. CASE Start
  BY <1>1 DEF Start
<1>2. CASE SessionBroken
  BY <1>2 DEF SessionBroken, Catch, Ends, Calls, Reachable
<1>3. CASE OtherError
  BY <1>3 DEF OtherError, Calls, Reachable
<1>4. CASE OperationActive
  BY <1>4 DEF OperationActive, Ends, Reachable
<1>5. CASE FindObjectsInit
  BY <1>5 DEF FindObjectsInit, Succeeds, Reachable
<1>6. CASE FindObjects
  BY <1>6 DEF FindObjects, Succeeds, Reachable
<1>7. CASE FindObjectsFinal
  BY <1>7 DEF FindObjectsFinal, Ends, Reachable
<1>8. CASE OperationInit
  BY <1>8 DEF OperationInit, Succeeds, Reachable
<1>9. CASE Operation
  BY <1>9 DEF Operation, Ends, Reachable
<1>10. CASE MalformedArgument
  BY <1>10 DEF MalformedArgument, Ends
<1>11. CASE CloseSession
  BY <1>11 DEF CloseSession
<1>12. CASE OpenSession
  BY <1>12 DEF OpenSession
<1>13. CASE Login
  BY <1>13 DEF Login, Reachable
<1>14. CASE ReopenFails
  BY <1>14 DEF ReopenFails, Ends, Reachable
<1>15. CASE GenerateKeys
  BY <1>15 DEF GenerateKeys, Succeeds, Stores, Reachable
<1>16. CASE ReadPoint
  BY <1>16 DEF ReadPoint, Succeeds, Reachable
<1>17. CASE SetPublicId
  BY <1>17 DEF SetPublicId, Succeeds, Stores, Reachable
<1>18. CASE SetPrivateId
  BY <1>18 DEF SetPrivateId, Succeeds, Stores, Reachable
<1>19. CASE KeyPairReturned
  BY <1>19 DEF KeyPairReturned, Ends, Reachable
<1>20. CASE LinkBack
  BY <1>20 DEF LinkBack
<1>21. CASE Exit
  BY <1>21 DEF Exit
<1>22. ASSUME NEW k \in Keys, NEW w \in BOOLEAN, Sign(k, w) \/ Verify(k, w) \/ GenerateKeyPair(k)
      PROVE  NothingWithoutSession'
  BY <1>22 DEF Sign, Verify, GenerateKeyPair, Serve, NewCall
<1>23. ASSUME NEW up \in BOOLEAN, LinkLost(up)
      PROVE  NothingWithoutSession'
  BY <1>23 DEF LinkLost
<1>24. CASE UNCHANGED vars
  BY <1>24 DEF vars
<1> QED
  BY <1>1, <1>2, <1>3, <1>4, <1>5, <1>6, <1>7, <1>8, <1>9, <1>10, <1>11, <1>12, <1>13, <1>14,
      <1>15, <1>16, <1>17, <1>18, <1>19, <1>20, <1>21, <1>22, <1>23, <1>24 DEF Next, Works

LEMMA ServesStep ==
  ASSUME TypeOK, Serves, [Next]_vars
  PROVE  Serves'
<1> USE DEF Serves, token, TypeOK, Call, Pcs, OnSession, Finding, Using, Generating, Reopening,
    InCall, NoCall, NewCall
<1>1. CASE Start
  BY <1>1 DEF Start
<1>2. CASE SessionBroken
  BY <1>2 DEF SessionBroken, Catch, Ends, Calls, Reachable
<1>3. CASE OtherError
  BY <1>3 DEF OtherError, Calls, Reachable
<1>4. CASE OperationActive
  BY <1>4 DEF OperationActive, Ends, Reachable
<1>5. CASE FindObjectsInit
  BY <1>5 DEF FindObjectsInit, Succeeds, Reachable
<1>6. CASE FindObjects
  BY <1>6 DEF FindObjects, Succeeds, Reachable
<1>7. CASE FindObjectsFinal
  BY <1>7 DEF FindObjectsFinal, Ends, Reachable
<1>8. CASE OperationInit
  BY <1>8 DEF OperationInit, Succeeds, Reachable
<1>9. CASE Operation
  BY <1>9 DEF Operation, Ends, Reachable
<1>10. CASE MalformedArgument
  BY <1>10 DEF MalformedArgument, Ends
<1>11. CASE CloseSession
  BY <1>11 DEF CloseSession
<1>12. CASE OpenSession
  BY <1>12 DEF OpenSession
<1>13. CASE Login
  BY <1>13 DEF Login, Reachable
<1>14. CASE ReopenFails
  BY <1>14 DEF ReopenFails, Ends, Reachable
<1>15. CASE GenerateKeys
  BY <1>15 DEF GenerateKeys, Succeeds, Stores, Reachable
<1>16. CASE ReadPoint
  BY <1>16 DEF ReadPoint, Succeeds, Reachable
<1>17. CASE SetPublicId
  BY <1>17 DEF SetPublicId, Succeeds, Stores, Reachable
<1>18. CASE SetPrivateId
  BY <1>18 DEF SetPrivateId, Succeeds, Stores, Reachable
<1>19. CASE KeyPairReturned
  BY <1>19 DEF KeyPairReturned, Ends, Reachable
<1>20. CASE LinkBack
  BY <1>20 DEF LinkBack
<1>21. CASE Exit
  BY <1>21 DEF Exit
<1>22. ASSUME NEW k \in Keys, NEW w \in BOOLEAN, Sign(k, w) \/ Verify(k, w) \/ GenerateKeyPair(k)
      PROVE  Serves'
  BY <1>22 DEF Sign, Verify, GenerateKeyPair, Serve, NewCall
<1>23. ASSUME NEW up \in BOOLEAN, LinkLost(up)
      PROVE  Serves'
  BY <1>23 DEF LinkLost
<1>24. CASE UNCHANGED vars
  BY <1>24 DEF vars
<1> QED
  BY <1>1, <1>2, <1>3, <1>4, <1>5, <1>6, <1>7, <1>8, <1>9, <1>10, <1>11, <1>12, <1>13, <1>14,
      <1>15, <1>16, <1>17, <1>18, <1>19, <1>20, <1>21, <1>22, <1>23, <1>24 DEF Next, Works

LEMMA StoredStep ==
  ASSUME TypeOK, Serves, StoredSoFar, [Next]_vars
  PROVE  StoredSoFar'
<1> USE DEF Serves, StoredSoFar, token, TypeOK, Call, Pcs, OnSession, Finding, Using,
    Generating, Reopening, NoCall, NewCall
<1>1. CASE Start
  BY <1>1 DEF Start
<1>2. CASE SessionBroken
  BY <1>2 DEF SessionBroken, Catch, Ends, Calls, Reachable
<1>3. CASE OtherError
  BY <1>3 DEF OtherError, Calls, Reachable
<1>4. CASE OperationActive
  BY <1>4 DEF OperationActive, Ends, Reachable
<1>5. CASE FindObjectsInit
  BY <1>5 DEF FindObjectsInit, Succeeds, Reachable
<1>6. CASE FindObjects
  BY <1>6 DEF FindObjects, Succeeds, Reachable
<1>7. CASE FindObjectsFinal
  BY <1>7 DEF FindObjectsFinal, Ends, Reachable
<1>8. CASE OperationInit
  BY <1>8 DEF OperationInit, Succeeds, Reachable
<1>9. CASE Operation
  BY <1>9 DEF Operation, Ends, Reachable
<1>10. CASE MalformedArgument
  BY <1>10 DEF MalformedArgument, Ends
<1>11. CASE CloseSession
  BY <1>11 DEF CloseSession
<1>12. CASE OpenSession
  BY <1>12 DEF OpenSession
<1>13. CASE Login
  BY <1>13 DEF Login, Reachable
<1>14. CASE ReopenFails
  BY <1>14 DEF ReopenFails, Ends, Reachable
<1>15. CASE GenerateKeys
  BY <1>15 DEF GenerateKeys, Succeeds, Stores, Reachable
<1>16. CASE ReadPoint
  BY <1>16 DEF ReadPoint, Succeeds, Reachable
<1>17. CASE SetPublicId
  BY <1>17 DEF SetPublicId, Succeeds, Stores, Reachable
<1>18. CASE SetPrivateId
  BY <1>18 DEF SetPrivateId, Succeeds, Stores, Reachable
<1>19. CASE KeyPairReturned
  BY <1>19 DEF KeyPairReturned, Ends, Reachable
<1>20. CASE LinkBack
  BY <1>20 DEF LinkBack
<1>21. CASE Exit
  BY <1>21 DEF Exit
<1>22. ASSUME NEW k \in Keys, NEW w \in BOOLEAN, Sign(k, w) \/ Verify(k, w) \/ GenerateKeyPair(k)
      PROVE  StoredSoFar'
  BY <1>22 DEF Sign, Verify, GenerateKeyPair, Serve, NewCall
<1>23. ASSUME NEW up \in BOOLEAN, LinkLost(up)
      PROVE  StoredSoFar'
  BY <1>23 DEF LinkLost
<1>24. CASE UNCHANGED vars
  BY <1>24 DEF vars
<1> QED
  BY <1>1, <1>2, <1>3, <1>4, <1>5, <1>6, <1>7, <1>8, <1>9, <1>10, <1>11, <1>12, <1>13, <1>14,
      <1>15, <1>16, <1>17, <1>18, <1>19, <1>20, <1>21, <1>22, <1>23, <1>24 DEF Next, Works

LEMMA ReturnedStep ==
  ASSUME TypeOK, Serves, StoredSoFar, ReturnedKeysStored, [Next]_vars
  PROVE  ReturnedKeysStored'
<1> USE DEF Serves, StoredSoFar, ReturnedKeysStored, token, TypeOK, Call
<1>1. CASE Start
  BY <1>1 DEF Start
<1>2. CASE SessionBroken
  BY <1>2 DEF SessionBroken, Catch, Ends, Calls, Reachable
<1>3. CASE OtherError
  BY <1>3 DEF OtherError, Calls, Reachable
<1>4. CASE OperationActive
  BY <1>4 DEF OperationActive, Ends, Reachable
<1>5. CASE FindObjectsInit
  BY <1>5 DEF FindObjectsInit, Succeeds, Reachable
<1>6. CASE FindObjects
  BY <1>6 DEF FindObjects, Succeeds, Reachable
<1>7. CASE FindObjectsFinal
  BY <1>7 DEF FindObjectsFinal, Ends, Reachable
<1>8. CASE OperationInit
  BY <1>8 DEF OperationInit, Succeeds, Reachable
<1>9. CASE Operation
  BY <1>9 DEF Operation, Ends, Reachable
<1>10. CASE MalformedArgument
  BY <1>10 DEF MalformedArgument, Ends
<1>11. CASE CloseSession
  BY <1>11 DEF CloseSession
<1>12. CASE OpenSession
  BY <1>12 DEF OpenSession
<1>13. CASE Login
  BY <1>13 DEF Login, Reachable
<1>14. CASE ReopenFails
  BY <1>14 DEF ReopenFails, Ends, Reachable
<1>15. CASE GenerateKeys
  BY <1>15 DEF GenerateKeys, Succeeds, Stores, Reachable
<1>16. CASE ReadPoint
  BY <1>16 DEF ReadPoint, Succeeds, Reachable
<1>17. CASE SetPublicId
  BY <1>17 DEF SetPublicId, Succeeds, Stores, Reachable
<1>18. CASE SetPrivateId
  BY <1>18 DEF SetPrivateId, Succeeds, Stores, Reachable
<1>19. CASE KeyPairReturned
  BY <1>19 DEF KeyPairReturned, Ends, Reachable
<1>20. CASE LinkBack
  BY <1>20 DEF LinkBack
<1>21. CASE Exit
  BY <1>21 DEF Exit
<1>22. ASSUME NEW k \in Keys, NEW w \in BOOLEAN, Sign(k, w) \/ Verify(k, w) \/ GenerateKeyPair(k)
      PROVE  ReturnedKeysStored'
  BY <1>22 DEF Sign, Verify, GenerateKeyPair, Serve, NewCall
<1>23. ASSUME NEW up \in BOOLEAN, LinkLost(up)
      PROVE  ReturnedKeysStored'
  BY <1>23 DEF LinkLost
<1>24. CASE UNCHANGED vars
  BY <1>24 DEF vars
<1> QED
  BY <1>1, <1>2, <1>3, <1>4, <1>5, <1>6, <1>7, <1>8, <1>9, <1>10, <1>11, <1>12, <1>13, <1>14,
      <1>15, <1>16, <1>17, <1>18, <1>19, <1>20, <1>21, <1>22, <1>23, <1>24 DEF Next, Works

LEMMA OrderStep ==
  ASSUME TypeOK, NothingWithoutSession, Serves, SignInOrder, [Next]_vars
  PROVE  SignInOrder'
<1> USE DEF NothingWithoutSession, Serves, SignInOrder, FairWeather, InOrder, token, TypeOK,
    Call, Pcs, OnSession, Finding, Using, Generating, Reopening, InCall, NoCall, NewCall
<1>1. CASE Start
  BY <1>1 DEF Start
<1>2. CASE SessionBroken
  BY <1>2 DEF SessionBroken, Catch, Ends, Calls, Reachable
<1>3. CASE OtherError
  BY <1>3 DEF OtherError, Calls, Reachable
<1>4. CASE OperationActive
  BY <1>4 DEF OperationActive, Ends, Reachable
<1>5. CASE FindObjectsInit
  BY <1>5 DEF FindObjectsInit, Succeeds, Reachable
<1>6. CASE FindObjects
  BY <1>6 DEF FindObjects, Succeeds, Reachable
<1>7. CASE FindObjectsFinal
  BY <1>7 DEF FindObjectsFinal, Ends, Reachable
<1>8. CASE OperationInit
  BY <1>8 DEF OperationInit, Succeeds, Reachable
<1>9. CASE Operation
  BY <1>9 DEF Operation, Ends, Reachable
<1>10. CASE MalformedArgument
  BY <1>10 DEF MalformedArgument, Ends
<1>11. CASE CloseSession
  BY <1>11 DEF CloseSession
<1>12. CASE OpenSession
  BY <1>12 DEF OpenSession
<1>13. CASE Login
  BY <1>13 DEF Login, Reachable
<1>14. CASE ReopenFails
  BY <1>14 DEF ReopenFails, Ends, Reachable
<1>15. CASE GenerateKeys
  BY <1>15 DEF GenerateKeys, Succeeds, Stores, Reachable
<1>16. CASE ReadPoint
  BY <1>16 DEF ReadPoint, Succeeds, Reachable
<1>17. CASE SetPublicId
  BY <1>17 DEF SetPublicId, Succeeds, Stores, Reachable
<1>18. CASE SetPrivateId
  BY <1>18 DEF SetPrivateId, Succeeds, Stores, Reachable
<1>19. CASE KeyPairReturned
  BY <1>19 DEF KeyPairReturned, Ends, Reachable
<1>20. CASE LinkBack
  BY <1>20 DEF LinkBack
<1>21. CASE Exit
  BY <1>21 DEF Exit
<1>22. ASSUME NEW k \in Keys, NEW w \in BOOLEAN, Sign(k, w) \/ Verify(k, w) \/ GenerateKeyPair(k)
      PROVE  SignInOrder'
  BY <1>22 DEF Sign, Verify, GenerateKeyPair, Serve, NewCall
<1>23. ASSUME NEW up \in BOOLEAN, LinkLost(up)
      PROVE  SignInOrder'
  BY <1>23 DEF LinkLost
<1>24. CASE UNCHANGED vars
  BY <1>24 DEF vars
<1> QED
  BY <1>1, <1>2, <1>3, <1>4, <1>5, <1>6, <1>7, <1>8, <1>9, <1>10, <1>11, <1>12, <1>13, <1>14,
      <1>15, <1>16, <1>17, <1>18, <1>19, <1>20, <1>21, <1>22, <1>23, <1>24 DEF Next, Works

LEMMA RecoveryStep ==
  ASSUME TypeOK, NothingWithoutSession, Serves, SignInOrder, OneLossRecovered,
         [Next]_vars
  PROVE  OneLossRecovered'
<1> USE DEF NothingWithoutSession, Serves, SignInOrder, FairWeather, InOrder, OneLossRecovered,
    FailsInFairWeather, token, TypeOK, Call, Pcs, OnSession, Finding, Using, Generating, Reopening,
    InCall, NoCall, NewCall
<1>1. CASE Start
  BY <1>1 DEF Start
<1>2. CASE SessionBroken
  BY <1>2, ConstantsAssumption DEF SessionBroken, Catch, Ends, Calls, Reachable
<1>3. CASE OtherError
  BY <1>3 DEF OtherError, Calls, Reachable
<1>4. CASE OperationActive
  BY <1>4 DEF OperationActive, Ends, Reachable
<1>5. CASE FindObjectsInit
  BY <1>5 DEF FindObjectsInit, Succeeds, Reachable
<1>6. CASE FindObjects
  BY <1>6 DEF FindObjects, Succeeds, Reachable
<1>7. CASE FindObjectsFinal
  BY <1>7 DEF FindObjectsFinal, Ends, Reachable
<1>8. CASE OperationInit
  BY <1>8 DEF OperationInit, Succeeds, Reachable
<1>9. CASE Operation
  BY <1>9 DEF Operation, Ends, Reachable
<1>10. CASE MalformedArgument
  BY <1>10 DEF MalformedArgument, Ends
<1>11. CASE CloseSession
  BY <1>11 DEF CloseSession
<1>12. CASE OpenSession
  BY <1>12 DEF OpenSession
<1>13. CASE Login
  BY <1>13 DEF Login, Reachable
<1>14. CASE ReopenFails
  BY <1>14 DEF ReopenFails, Ends, Reachable
<1>15. CASE GenerateKeys
  BY <1>15 DEF GenerateKeys, Succeeds, Stores, Reachable
<1>16. CASE ReadPoint
  BY <1>16 DEF ReadPoint, Succeeds, Reachable
<1>17. CASE SetPublicId
  BY <1>17 DEF SetPublicId, Succeeds, Stores, Reachable
<1>18. CASE SetPrivateId
  BY <1>18 DEF SetPrivateId, Succeeds, Stores, Reachable
<1>19. CASE KeyPairReturned
  BY <1>19 DEF KeyPairReturned, Ends, Reachable
<1>20. CASE LinkBack
  BY <1>20 DEF LinkBack
<1>21. CASE Exit
  BY <1>21 DEF Exit
<1>22. ASSUME NEW k \in Keys, NEW w \in BOOLEAN, Sign(k, w) \/ Verify(k, w) \/ GenerateKeyPair(k)
      PROVE  OneLossRecovered'
  BY <1>22 DEF Sign, Verify, GenerateKeyPair, Serve, NewCall
<1>23. ASSUME NEW up \in BOOLEAN, LinkLost(up)
      PROVE  OneLossRecovered'
  BY <1>23 DEF LinkLost
<1>24. CASE UNCHANGED vars
  BY <1>24 DEF vars
<1> QED
  BY <1>1, <1>2, <1>3, <1>4, <1>5, <1>6, <1>7, <1>8, <1>9, <1>10, <1>11, <1>12, <1>13, <1>14,
      <1>15, <1>16, <1>17, <1>18, <1>19, <1>20, <1>21, <1>22, <1>23, <1>24 DEF Next, Works

LEMMA InvariantHolds == Spec => []IInv
<1>1. IInv /\ [Next]_vars => IInv'
  BY TypeStep, SessionStep, ServesStep, StoredStep, ReturnedStep, OrderStep, RecoveryStep DEF IInv
<1> QED
  BY <1>1, InitInvariant, PTL DEF Spec

(* Every variable has its type; above all, the attempts of a sign call are *)
(* bounded (lines 117-119, 359).                                           *)
THEOREM TypeCorrect == Spec => []TypeOK
  BY InvariantHolds, PTL DEF IInv

(* Whatever the keys and whatever the bound on the attempts, as long as it *)
(* is at least 2: one lost session is repaired by the sign call that meets *)
(* it (lines 353-393).                                                     *)
THEOREM SurvivesOneLoss == Spec => []OneLossRecovered
  BY InvariantHolds, PTL DEF IInv

(* The id of a key pair is returned only when both halves carry it (lines  *)
(* 252-298).                                                               *)
THEOREM KeysComplete == Spec => []ReturnedKeysStored
  BY InvariantHolds, PTL DEF IInv

-----------------------------------------------------------------------------
(* How many PKCS#11 calls a call being served can still make: those of the *)
(* attempt, and eight for every attempt that is left (find, find, find,    *)
(* init, use; close, open, login).                                         *)
Rank(p) ==
  CASE p = "findInit" -> 8
    [] p = "find" -> 7
    [] p = "findFinal" -> 6
    [] p \in {"init", "generate"} -> 5
    [] p \in {"use", "point"} -> 4
    [] p \in {"close", "setPublic"} -> 3
    [] p \in {"open", "setPrivate"} -> 2
    [] p \in {"login", "readBack"} -> 1
    [] OTHER -> 0
StepsLeft == 8 * (MAX_SIGN_ATTEMPTS - attempt) + Rank(pc)

Countdown == InCall => StepsLeft \in 1..(8 * MAX_SIGN_ATTEMPTS)
GetsOn ==
  /\ Works => ~InCall' \/ StepsLeft' < StepsLeft
  /\ InCall /\ InCall' => StepsLeft' <= StepsLeft

LEMMA InCallWorks == TypeOK /\ Works => InCall
  BY DEF TypeOK, Works, InCall, SessionBroken, OtherError, OperationActive, FindObjectsInit,
         FindObjects, FindObjectsFinal, OperationInit, Operation, MalformedArgument, CloseSession,
         OpenSession, Login, ReopenFails, GenerateKeys, ReadPoint, SetPublicId, SetPrivateId,
         KeyPairReturned, Calls, Succeeds, OnSession, Finding, Using, Generating

LEMMA EachStepShortens ==
  ASSUME TypeOK, Serves, Works
  PROVE  ~InCall' \/ StepsLeft' < StepsLeft
<1> USE ConstantsAssumption
    DEF TypeOK, Serves, InCall, StepsLeft, Rank, Catch, Ends, Calls, Succeeds, Pcs, OnSession,
        Finding, Using, Generating, Reopening
<1>1. CASE SessionBroken
  BY <1>1 DEF SessionBroken
<1>2. CASE OtherError \/ OperationActive \/ MalformedArgument \/ Operation \/ ReopenFails
  BY <1>2 DEF OtherError, OperationActive, MalformedArgument, Operation, ReopenFails
<1>3. CASE FindObjectsInit \/ FindObjects \/ FindObjectsFinal \/ OperationInit
  BY <1>3 DEF FindObjectsInit, FindObjects, FindObjectsFinal, OperationInit
<1>4. CASE CloseSession \/ OpenSession
  BY <1>4 DEF CloseSession, OpenSession
<1>5. CASE Login
  BY <1>5 DEF Login
<1>6. CASE GenerateKeys \/ ReadPoint \/ SetPublicId \/ SetPrivateId \/ KeyPairReturned
  BY <1>6 DEF GenerateKeys, ReadPoint, SetPublicId, SetPrivateId, KeyPairReturned
<1> QED
  BY <1>1, <1>2, <1>3, <1>4, <1>5, <1>6 DEF Works

LEMMA CountdownHolds == TypeOK => Countdown
  BY ConstantsAssumption
  DEF TypeOK, Countdown, StepsLeft, Rank, InCall, Pcs, OnSession, Finding, Using, Generating,
      Reopening

LEMMA GetsOnStep ==
  ASSUME TypeOK, TypeOK', Serves, [Next]_vars
  PROVE  GetsOn
<1>1. CASE Works
  <2>1. ~InCall' \/ StepsLeft' < StepsLeft
    BY <1>1, EachStepShortens
  <2>2. ASSUME StepsLeft' < StepsLeft PROVE StepsLeft' <= StepsLeft
    BY <2>2, ConstantsAssumption DEF TypeOK, StepsLeft, Rank, Pcs, OnSession, Finding, Using, Generating, Reopening
  <2> QED
    BY <2>1, <2>2 DEF GetsOn
<1>2. CASE ~Works /\ (InCall /\ InCall' => UNCHANGED <<pc, attempt>>)
  BY <1>2, ConstantsAssumption DEF GetsOn, StepsLeft, Rank, TypeOK, Pcs, OnSession, Finding,
     Using, Generating, Reopening
<1>3. ASSUME ~Works PROVE InCall /\ InCall' => UNCHANGED <<pc, attempt>>
  BY <1>3 DEF Next, Start, GenerateKeyPair, Sign, Verify, Serve, LinkLost, LinkBack, Exit, InCall, vars
<1> QED
  BY <1>1, <1>2, <1>3

(* The loop of sign is bounded (lines 117-119, 359), and so is every call: *)
(* each PKCS#11 call brings its end nearer, whatever fails and however     *)
(* often the link is lost, and nothing that happens to the token puts it   *)
(* off.                                                                    *)
THEOREM CallsGetOn == Spec => []Countdown /\ [][GetsOn]_vars
<1>1. TypeOK /\ TypeOK' /\ Serves /\ [Next]_vars => [GetsOn]_vars
  BY GetsOnStep
<1>2. IInv => TypeOK /\ Serves /\ Countdown
  BY CountdownHolds DEF IInv
<1> QED
  BY <1>1, <1>2, InvariantHolds, PTL DEF Spec

-----------------------------------------------------------------------------
(* From the search on, the key of a call is stored on both halves, and so  *)
(* it is once the call is answered.                                        *)
KeyAtHand ==
  /\ pc = "findFinal" /\ found => stored[call.key] = "both"
  /\ pc \in Using => stored[call.key] = "both"
AnsweredFromStored == call.result = "done" => stored[call.key] = "both"

LEMMA KeyAtHandStep ==
  ASSUME IInv, KeyAtHand, AnsweredFromStored, [Next]_vars
  PROVE  KeyAtHand' /\ AnsweredFromStored'
<1> USE DEF IInv, TypeOK, Serves, StoredSoFar, KeyAtHand, AnsweredFromStored, InCall, Call, Catch,
    Ends, Calls, Succeeds, Stores, token, Pcs, OnSession, Finding, Using, Generating, Reopening
<1>1. CASE SessionBroken \/ OtherError \/ OperationActive \/ MalformedArgument \/ ReopenFails
  <2>1. CASE SessionBroken
    BY <1>1, <2>1 DEF SessionBroken
  <2>2. CASE ReopenFails
    BY <1>1, <2>2 DEF ReopenFails
  <2>3. CASE OtherError
    BY <1>1, <2>3 DEF OtherError
  <2>4. CASE OperationActive \/ MalformedArgument
    BY <1>1, <2>4 DEF OperationActive, MalformedArgument
  <2> QED
    BY <1>1, <2>1, <2>2, <2>3, <2>4
<1>2. CASE FindObjectsInit \/ FindObjects \/ FindObjectsFinal \/ OperationInit \/ Operation
  BY <1>2 DEF FindObjectsInit, FindObjects, FindObjectsFinal, OperationInit, Operation
<1>3. CASE CloseSession \/ OpenSession \/ Login
  BY <1>3 DEF CloseSession, OpenSession, Login
<1>4. CASE GenerateKeys \/ ReadPoint \/ SetPublicId \/ SetPrivateId \/ KeyPairReturned
  BY <1>4 DEF GenerateKeys, ReadPoint, SetPublicId, SetPrivateId, KeyPairReturned
<1>5. CASE Start \/ Exit
  BY <1>5 DEF Start, Exit, NoCall, NewCall
<1>6. ASSUME NEW k \in Keys, NEW w \in BOOLEAN, Sign(k, w) \/ Verify(k, w) \/ GenerateKeyPair(k)
      PROVE  KeyAtHand' /\ AnsweredFromStored'
  BY <1>6 DEF Sign, Verify, GenerateKeyPair, Serve, NewCall
<1>7. ASSUME NEW up \in BOOLEAN, LinkLost(up)
      PROVE  KeyAtHand' /\ AnsweredFromStored'
  <2>1. call'.key = call.key /\ call'.result = call.result
    BY <1>7 DEF LinkLost
  <2> QED
    BY <1>7, <2>1 DEF LinkLost
<1>9. CASE LinkBack
  BY <1>9 DEF LinkBack
<1>8. CASE UNCHANGED vars
  BY <1>8 DEF vars
<1> QED
  BY <1>1, <1>2, <1>3, <1>4, <1>5, <1>6, <1>7, <1>8, <1>9 DEF Next, Works

(* The converse of the recovery: a call that is answered with success has  *)
(* used a key whose id is on both halves of its pair, also when the search *)
(* that found it ran in an earlier attempt or on another session (lines    *)
(* 312-345, 353-410).                                                      *)
THEOREM AnswersFromStored == Spec => []AnsweredFromStored
<1>1. Init => KeyAtHand /\ AnsweredFromStored
  BY DEF Init, NoCall, NewCall, KeyAtHand, AnsweredFromStored, Using
<1>2. IInv /\ KeyAtHand /\ AnsweredFromStored /\ [Next]_vars => KeyAtHand' /\ AnsweredFromStored'
  BY KeyAtHandStep
<1> QED
  BY <1>1, <1>2, InvariantHolds, PTL DEF Spec
=============================================================================
