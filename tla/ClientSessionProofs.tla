------------------------ MODULE ClientSessionProofs ------------------------
(***************************************************************************)
(* For any applications, session ids and limits, whatever fails and however *)
(* often the server dies: recorded session ids differ although the counter *)
(* wraps, a session with a client id is connected under it until its own   *)
(* ClientDestroy, and after the last session nothing of the connection is  *)
(* left.                                                                   *)
(***************************************************************************)
EXTENDS ClientSession, FiniteSetTheorems, WellFoundedInduction, TLAPS


----------------------------------------------------------------------------
(* The next session id *)

\* The counter starts again at 0 when it passes MaxInt.
LEMMA Wraps ==
    ASSUME TypeOK, NEW k \in 1 .. MaxInt + 1
    PROVE  Candidate(k) = IF sessionId + k <= MaxInt THEN sessionId + k ELSE sessionId + k - (MaxInt + 1)
<1>1. sessionId \in -1 .. MaxInt /\ MaxInt \in Nat
  BY SessionAssumption DEF TypeOK, Sessions, INVALID
<1>2. \A n \in 0 .. MaxInt : n % (MaxInt + 1) = n
  BY <1>1
<1>3. \A n \in 0 .. MaxInt : (n + (MaxInt + 1)) % (MaxInt + 1) = n
  BY <1>1
<1>4. CASE sessionId + k <= MaxInt
  <2>1. sessionId + k \in 0 .. MaxInt
    BY <1>1, <1>4
  <2> QED
    BY <1>2, <1>4, <2>1 DEF Candidate
<1>5. CASE ~(sessionId + k <= MaxInt)
  <2>1. sessionId + k - (MaxInt + 1) \in 0 .. MaxInt
    BY <1>1, <1>5
  <2>2. (sessionId + k - (MaxInt + 1)) + (MaxInt + 1) = sessionId + k
    BY <1>1
  <2> QED
    BY <1>3, <1>5, <2>1, <2>2 DEF Candidate
<1> QED
  BY <1>4, <1>5

\* Below the limit there is a first id that no session has.
LEMMA NextIsFree ==
    ASSUME TypeOK, Cardinality(sessions) <= MaxSessions
    PROVE  NextSessionId \in 0 .. MaxInt /\ NextSessionId \notin sessions
<1> DEFINE free == {k \in 1 .. MaxInt + 1 : Candidate(k) \notin sessions}
<1>1. sessionId \in -1 .. MaxInt /\ MaxInt \in Nat /\ MaxSessions \in Nat /\ MaxSessions < MaxInt
  BY SessionAssumption DEF TypeOK, Sessions, INVALID
<1>2. \A k \in 1 .. MaxInt + 1 : Candidate(k) \in 0 .. MaxInt
  BY <1>1, Wraps
<1>3. \A j, k \in 1 .. MaxInt + 1 : Candidate(j) = Candidate(k) => j = k
  BY <1>1, Wraps
<1>4. IsFiniteSet(sessions) /\ Cardinality(sessions) \in Nat
  <2>1. IsFiniteSet(-1 .. MaxInt) /\ sessions \in SUBSET (-1 .. MaxInt)
    BY <1>1, FS_Interval DEF TypeOK, Sessions, INVALID
  <2> QED
    BY <2>1, FS_Subset, FS_CardinalityType
<1>5. IsFiniteSet(1 .. MaxInt + 1) /\ Cardinality(1 .. MaxInt + 1) = MaxInt + 1
  BY <1>1, FS_Interval
<1>6. free # {}
  <2>1. SUFFICES ASSUME \A k \in 1 .. MaxInt + 1 : Candidate(k) \in sessions PROVE FALSE
    OBVIOUS
  <2>2. PICK f \in [1 .. MaxInt + 1 -> sessions] : \A k \in 1 .. MaxInt + 1 : f[k] = Candidate(k)
    <3> DEFINE g == [k \in 1 .. MaxInt + 1 |-> Candidate(k)]
    <3>1. g \in [1 .. MaxInt + 1 -> sessions] /\ \A k \in 1 .. MaxInt + 1 : g[k] = Candidate(k)
      BY <2>1
    <3> HIDE DEF g
    <3> QED
      BY <3>1
  <2>3. Cardinality(sessions) < Cardinality(1 .. MaxInt + 1) /\ f \in [1 .. MaxInt + 1 -> sessions]
    BY <1>1, <1>4, <1>5
  <2>4. \E j, k \in 1 .. MaxInt + 1 : j # k /\ f[j] = f[k]
    BY <1>4, <1>5, <2>3, FS_PigeonHole, Zenon
  <2> QED
    BY <1>3, <2>2, <2>4
<1>7. PICK k \in free : \A j \in free : ~(<<j, k>> \in OpToRel(<, Nat))
  <2>1. free \subseteq Nat
    OBVIOUS
  <2> HIDE DEF free
  <2> QED
    BY <1>6, <2>1, NatLessThanWellFounded, WFMin
<1>8. \A j \in free : ~(j < k)
  <2>1. \A i, j \in Nat : i < j => <<i, j>> \in OpToRel(<, Nat)
    BY Zenon DEF OpToRel
  <2>2. free \subseteq Nat
    OBVIOUS
  <2> HIDE DEF free
  <2> QED
    BY <1>7, <2>1, <2>2, Zenon
<1>9. k \in 1 .. MaxInt + 1 /\ Candidate(k) \notin sessions /\ \A j \in 1 .. k - 1 : Candidate(j) \in sessions
  BY <1>1, <1>8
<1>10. PICK n \in 1 .. MaxInt + 1 : NextSessionId = Candidate(n) /\ Candidate(n) \notin sessions
  BY <1>9 DEF NextSessionId
<1> QED
  BY <1>2, <1>10

----------------------------------------------------------------------------
(* Types *)

\* A call goes from one step to the next.
LEMMA GotoTyped ==
    ASSUME TypeOK, NEW a \in Apps, NEW from, Goto(a, from, "idle") \/ Goto(a, from, "record")
              \/ Goto(a, from, "wait") \/ Goto(a, from, "copy") \/ Goto(a, from, "erased")
              \/ Goto(a, from, "join") \/ Goto(a, from, "forget")
    PROVE  /\ broken' \in BOOLEAN
           /\ pc' \in [Apps -> {"idle", "record", "start", "wait", "copy", "erased", "close", "join", "forget"}]
BY DEF Goto, TypeOK

LEMMA DeadTyped ==
    ASSUME TypeOK, Dead
    PROVE  clientId' \in Ids /\ sessionId' \in Sessions /\ owed' \subseteq Sessions /\ notice' \in BOOLEAN
<1>1. INVALID \in Sessions /\ INVALID_UID \in Ids
  BY SessionAssumption DEF Sessions, Ids, INVALID
<1> QED
  BY <1>1 DEF Dead, SaDeathCallback, ResetClient, OnDead, TypeOK

\* The application's steps keep the types,
LEMMA AppTyped ==
    ASSUME TypeOK, NEW a \in Apps, ClientInit(a) \/ ClientDestroy(a)
    PROVE  TypeOK'
<1> USE DEF countVars, workerVars, deathVars, serverVars
<1>1. /\ INVALID \in Sessions /\ INVALID \in Ids /\ 0 .. MaxInt \subseteq Sessions
      /\ NoInfo \in [session : Sessions, client : Ids]
  BY SessionAssumption DEF Sessions, Ids, INVALID, NoInfo
<1>2. info[a].session \in Sessions /\ info[a].client \in Ids
  BY DEF TypeOK
<1>3. CASE InitGenerate(a)
  <2>1. sessionId' \in Sessions /\ info' \in [Apps -> [session : Sessions, client : Ids]]
    <3>1. CASE Cardinality(sessions) > MaxSessions
      BY <1>3, <3>1 DEF InitGenerate, TypeOK
    <3>2. CASE ~(Cardinality(sessions) > MaxSessions)
      <4>1. Cardinality(sessions) \in Nat /\ MaxSessions \in Nat
        <5>1. IsFiniteSet(Sessions) /\ sessions \in SUBSET Sessions
          BY SessionAssumption, FS_Interval DEF TypeOK, Sessions, INVALID
        <5> QED
          BY <5>1, SessionAssumption, FS_Subset, FS_CardinalityType
      <4>2. Cardinality(sessions) <= MaxSessions
        BY <3>2, <4>1
      <4>3. sessionId' \in Sessions
        BY <1>1, <1>3, <3>2, <4>2, NextIsFree DEF InitGenerate
      <4>4. info' = [info EXCEPT ![a].session = sessionId']
        BY <1>3, <3>2 DEF InitGenerate
      <4> QED
        BY <4>3, <4>4 DEF TypeOK
    <3> QED
      BY <3>1, <3>2
  <2> QED
    BY <1>3, <2>1, GotoTyped DEF InitGenerate, TypeOK
<1>4. CASE InitGenerateReset(a)
  BY <1>4, GotoTyped, DeadTyped DEF InitGenerateReset, TypeOK
<1>5. CASE InitRecord(a)
  <2>1. broken' \in BOOLEAN
    BY <1>5, Zenon DEF InitRecord
  <2>2. pc' \in [Apps -> {"idle", "record", "start", "wait", "copy", "erased", "close", "join", "forget"}]
    BY <1>5 DEF InitRecord, TypeOK
  <2> QED
    BY <1>2, <1>5, <2>1, <2>2 DEF InitRecord, TypeOK
<1>6. CASE InitStart(a)
  BY <1>2, <1>6, GotoTyped DEF InitStart, TypeOK
<1>7. CASE InitStartFails(a) \/ InitConnected(a) \/ InitTimeout(a)
  BY <1>7, GotoTyped DEF InitStartFails, InitConnected, InitTimeout, TypeOK
<1>8. CASE InitCopy(a)
  <2>1. info' \in [Apps -> [session : Sessions, client : Ids]]
    BY <1>8 DEF InitCopy, TypeOK
  <2> QED
    BY <1>2, <1>8, <2>1, GotoTyped DEF InitCopy, TypeOK, RegisterDeadCb, RegisterServiceDeathCb
<1>9. CASE DestroyErase(a)
  BY <1>9, GotoTyped DEF DestroyErase, TypeOK
<1>10. CASE DestroyLast(a)
  <2>1. broken' \in BOOLEAN
    BY <1>10, Zenon DEF DestroyLast
  <2>2. pc' \in [Apps -> {"idle", "record", "start", "wait", "copy", "erased", "close", "join", "forget"}]
    BY <1>10 DEF DestroyLast, TypeOK
  <2> QED
    BY <1>10, <2>1, <2>2 DEF DestroyLast, TypeOK
<1>11. CASE DestroyClose(a)
  BY <1>11, GotoTyped DEF DestroyClose, TypeOK
<1>12. CASE DestroyJoin(a)
  BY <1>1, <1>12, GotoTyped DEF DestroyJoin, TypeOK
<1>13. CASE DestroyForget(a)
  <2>1. info' \in [Apps -> [session : Sessions, client : Ids]]
    BY <1>1, <1>13 DEF DestroyForget, TypeOK
  <2> QED
    BY <1>13, <2>1, GotoTyped DEF DestroyForget, TypeOK, UnRegisterServiceDeathCb, UnRegisterDeadCb
<1> QED
  BY <1>3, <1>4, <1>5, <1>6, <1>7, <1>8, <1>9, <1>10, <1>11, <1>12, <1>13
  DEF ClientInit, InitGoesOn, ClientDestroy, DestroyGoesOn

\* and so do those of the worker and the server.
LEMMA OtherTyped ==
    ASSUME TypeOK, ConnectMgrWorker \/ ServerStarts \/ ServerDies \/ OnAiDead
    PROVE  TypeOK'
<1> USE DEF appVars, countVars, workerVars, deathVars, serverVars
<1>1. INVALID \in Ids /\ ServerIds \subseteq Ids
  BY DEF Ids
<1>2. CASE WorkerLoop \/ WorkerRest \/ WorkerWatch \/ WorkerWatchFails \/ WorkerSet
  BY <1>2 DEF WorkerLoop, WorkerRest, WorkerWatch, WorkerWatchFails, WorkerSet, TypeOK
<1>3. CASE WorkerConnect
  BY <1>1, <1>3 DEF WorkerConnect, InitSaEngine, Forgets, TypeOK
<1>4. CASE WorkerRefused
  BY <1>1, <1>4 DEF WorkerRefused, ReleaseIUnknown, Forgets, TypeOK
<1>5. CASE WorkerUninitialize
  BY <1>1, <1>5 DEF WorkerUninitialize, Destroy, DestroyEngineProxy, ReleaseIUnknown, TypeOK
<1>6. CASE ServerStarts
  BY <1>6 DEF ServerStarts, TypeOK
<1>7. CASE ServerDies
  <2>1. notice' \in BOOLEAN
    BY <1>7, Zenon DEF ServerDies
  <2>2. owed' \subseteq Sessions /\ deaths' \in Nat
    BY <1>7 DEF ServerDies, TypeOK
  <2> QED
    BY <1>7, <2>1, <2>2 DEF ServerDies, TypeOK
<1>8. CASE OnAiDead
  BY <1>8, DeadTyped DEF OnAiDead, TypeOK
<1> QED
  BY <1>2, <1>3, <1>4, <1>5, <1>6, <1>7, <1>8 DEF ConnectMgrWorker

LEMMA TypesKept == TypeOK /\ [Next]_vars => TypeOK'
<1>1. TypeOK /\ UNCHANGED vars => TypeOK'
  BY DEF TypeOK, vars
<1> QED
  BY <1>1, AppTyped, OtherTyped DEF Next

----------------------------------------------------------------------------
(* The calls of the applications *)

\* Who is at which step: the call of one application moves on.
LEMMA Moves ==
    ASSUME TypeOK, NEW a \in Apps, NEW x, pc' = [pc EXCEPT ![a] = x]
    PROVE  pc'[a] = x /\ \A b \in Apps \ {a} : pc'[b] = pc[b]
BY DEF TypeOK

\* The ids that the applications hold.
LEMMA SharingFrame ==
    ASSUME Sharing, sessions' \subseteq sessions,
           \A a \in Apps : info'[a].session = info[a].session,
           \A a \in Apps : pc[a] = "record" => pc'[a] = "record"
    PROVE  Sharing'
BY DEF Sharing

\* An id is chosen that is not recorded, and recorded only if nobody else holds it.
LEMMA SharingKept ==
    ASSUME TypeOK, Sharing, ~broken, ~broken', NEW a \in Apps, ClientInit(a) \/ ClientDestroy(a)
    PROVE  Sharing'
<1> USE DEF countVars, Goto
<1>1. info \in [Apps -> [session : Sessions, client : Ids]]
  BY DEF TypeOK
<1>2. CASE InitGenerate(a)
  <2>1. pc'[a] = "record" /\ (\A b \in Apps \ {a} : pc'[b] = pc[b]) /\ sessions' = sessions
    BY <1>2, Moves DEF InitGenerate
  <2>2. CASE info' = info
    BY <1>2, <2>1, <2>2, SharingFrame
  <2>3. CASE Cardinality(sessions) <= MaxSessions /\ sessionId' = NextSessionId
               /\ info' = [info EXCEPT ![a].session = sessionId']
    <3>1. info'[a].session \notin sessions
      BY <1>1, <2>3, NextIsFree
    <3>2. \A b \in Apps \ {a} : info'[b] = info[b]
      BY <1>1, <2>3
    <3> QED
      BY <2>1, <3>1, <3>2 DEF Sharing
  <2>4. Cardinality(sessions) \in Nat /\ MaxSessions \in Nat
    <3>1. IsFiniteSet(Sessions) /\ sessions \in SUBSET Sessions
      BY SessionAssumption, FS_Interval DEF TypeOK, Sessions, INVALID
    <3> QED
      BY <3>1, SessionAssumption, FS_Subset, FS_CardinalityType
  <2> QED
    BY <1>2, <2>2, <2>3, <2>4 DEF InitGenerate
<1>3. CASE InitRecord(a)
  <2>1. /\ sessions' = sessions \cup {info[a].session} /\ info' = info /\ ~Stale(a)
        /\ pc[a] = "record" /\ \A b \in Apps \ {a} : pc'[b] = pc[b]
    BY <1>3, Moves DEF InitRecord
  <2>2. \A b \in Apps \ {a} : info[b].session = info[a].session => info[a].session = INVALID
    <3>1. SUFFICES ASSUME NEW b \in Apps \ {a}, info[b].session = info[a].session,
                          info[a].session # INVALID
                   PROVE  FALSE
      OBVIOUS
    <3>2. info[a].session \notin sessions
      BY <3>1 DEF Sharing
    <3> QED
      BY <2>1, <3>1, <3>2 DEF Stale
  <2>3. \A b \in Apps : pc[b] = "record" => pc'[b] = "record" \/ b = a
    BY <2>1
  <2> QED
    BY <2>1, <2>2, <2>3 DEF Sharing
<1>4. CASE DestroyForget(a)
  <2>1. info'[a].session = INVALID /\ (\A b \in Apps \ {a} : info'[b] = info[b]) /\ sessions' = sessions
    BY <1>1, <1>4 DEF DestroyForget, NoInfo
  <2>2. \A b \in Apps \ {a} : pc'[b] = pc[b]
    BY <1>4, Moves DEF DestroyForget
  <2> QED
    BY <2>1, <2>2 DEF Sharing
<1>5. CASE InitCopy(a)
  <2>1. \A b \in Apps : info'[b].session = info[b].session
    BY <1>1, <1>5 DEF InitCopy
  <2>2. pc[a] = "copy" /\ sessions' = sessions /\ \A b \in Apps \ {a} : pc'[b] = pc[b]
    BY <1>5, Moves DEF InitCopy
  <2> QED
    BY <2>1, <2>2, SharingFrame
<1>6. CASE \/ InitGenerateReset(a) \/ InitStart(a) \/ InitStartFails(a) \/ InitConnected(a) \/ InitTimeout(a)
           \/ DestroyErase(a) \/ DestroyLast(a) \/ DestroyClose(a) \/ DestroyJoin(a)
  <2>1. info' = info /\ sessions' \subseteq sessions
    BY <1>6 DEF InitGenerateReset, InitStart, InitStartFails, InitConnected, InitTimeout,
       DestroyErase, DestroyLast, DestroyClose, DestroyJoin
  <2>2. pc[a] # "record" /\ \A b \in Apps \ {a} : pc'[b] = pc[b]
    BY <1>6, Moves DEF InitGenerateReset, InitStart, InitStartFails, InitConnected, InitTimeout,
       DestroyErase, DestroyLast, DestroyClose, DestroyJoin
  <2> QED
    BY <2>1, <2>2, SharingFrame
<1> QED
  BY <1>2, <1>3, <1>4, <1>5, <1>6 DEF ClientInit, InitGoesOn, ClientDestroy, DestroyGoesOn

\* A session stays recorded: another's ClientDestroy erases another id.
LEMMA RecordedKept ==
    ASSUME TypeOK, Sharing, Recorded, NEW a \in Apps, ClientInit(a) \/ ClientDestroy(a)
    PROVE  Recorded'
<1> USE DEF countVars, Goto
<1>1. info \in [Apps -> [session : Sessions, client : Ids]]
  BY DEF TypeOK
<1>2. \A b \in Apps \ {a} : info'[b] = info[b] /\ pc'[b] = pc[b]
  BY <1>1, Moves DEF ClientInit, ClientDestroy, InitGoesOn, DestroyGoesOn, InitGenerate, InitGenerateReset, InitRecord,
     InitStart, InitStartFails, InitConnected, InitTimeout, InitCopy, DestroyErase, DestroyLast, DestroyClose,
     DestroyJoin, DestroyForget
<1>3. CASE DestroyErase(a)
  <2>1. /\ sessions' = sessions \ {info[a].session} /\ info[a].session # INVALID
        /\ info[a].session \in sessions /\ pc'[a] = "erased"
    BY <1>3, Moves DEF DestroyErase
  <2>2. \A b \in Apps \ {a} : info[b].session # info[a].session
    BY <2>1 DEF Sharing
  <2> QED
    BY <1>2, <2>1, <2>2 DEF Recorded
<1>4. CASE InitRecord(a)
  <2>1. sessions' = sessions \cup {info[a].session} /\ info' = info
    BY <1>4 DEF InitRecord
  <2> QED
    BY <1>2, <2>1 DEF Recorded
<1>5. CASE \/ InitStart(a) \/ InitConnected(a)
  <2>1. sessions' = sessions /\ info' = info /\ pc[a] \in {"start", "wait"}
    BY <1>5 DEF InitStart, InitConnected
  <2> QED
    BY <1>2, <2>1 DEF Recorded
<1>6. CASE \/ InitGenerate(a) \/ InitGenerateReset(a) \/ InitStartFails(a) \/ InitTimeout(a) \/ InitCopy(a)
           \/ DestroyLast(a) \/ DestroyClose(a) \/ DestroyJoin(a) \/ DestroyForget(a)
  <2>1. sessions' = sessions /\ pc'[a] \notin {"start", "wait", "copy"}
    BY <1>6, Moves DEF InitGenerate, InitGenerateReset, InitStartFails, InitTimeout, InitCopy,
       DestroyLast, DestroyClose, DestroyJoin, DestroyForget
  <2> QED
    BY <1>2, <2>1 DEF Recorded
<1> QED
  BY <1>3, <1>4, <1>5, <1>6 DEF ClientInit, InitGoesOn, ClientDestroy, DestroyGoesOn

\* Who starts or closes the connection does so alone, and while the worker is
\* there somebody has a session or is closing it.
LEMMA AloneKept ==
    ASSUME TypeOK, CallsInv, ~broken, ~broken', NEW a \in Apps, ClientInit(a) \/ ClientDestroy(a)
    PROVE  CloseAlone' /\ StartAlone' /\ WorkerWanted'
<1> USE DEF countVars, workerVars, Goto
<1>1. CloseAlone /\ StartAlone /\ WorkerWanted /\ Recorded
  BY DEF CallsInv
<1>2. CASE \/ InitGenerate(a) \/ InitGenerateReset(a) \/ InitStartFails(a) \/ InitConnected(a)
           \/ InitTimeout(a) \/ InitCopy(a) \/ DestroyForget(a)
  <2>1. UNCHANGED <<sessions, worker, stop>>
    BY <1>2 DEF InitGenerate, InitGenerateReset, InitStartFails, InitConnected, InitTimeout, InitCopy,
       DestroyForget
  <2>2. /\ pc[a] \notin {"erased", "close", "join"} /\ pc'[a] \notin {"start", "erased", "close", "join"}
        /\ \A b \in Apps \ {a} : pc'[b] = pc[b]
    BY <1>2, Moves DEF InitGenerate, InitGenerateReset, InitStartFails, InitConnected, InitTimeout, InitCopy,
       DestroyForget
  <2>3. CloseAlone' /\ StartAlone'
    BY <1>1, <2>1, <2>2 DEF CloseAlone, StartAlone
  <2>4. WorkerWanted'
    BY <1>1, <2>1, <2>2 DEF WorkerWanted
  <2> QED
    BY <2>3, <2>4
<1>3. CASE InitRecord(a)
  <2>1. /\ sessions' = sessions \cup {info[a].session} /\ UNCHANGED <<worker, stop>>
        /\ ~(sessions = {} /\ Closing(a)) /\ pc[a] = "record"
        /\ pc'[a] = IF sessions = {} THEN "start" ELSE "wait"
        /\ \A b \in Apps \ {a} : pc'[b] = pc[b]
    BY <1>3, Moves DEF InitRecord
  <2>2. \A b \in Apps : pc[b] \notin {"close", "join"}
    <3>1. ASSUME NEW b \in Apps, pc[b] \in {"close", "join"} PROVE FALSE
      <4>1. sessions = {} /\ b # a
        BY <1>1, <2>1, <3>1 DEF CloseAlone
      <4> QED
        BY <2>1, <3>1, <4>1 DEF Closing
    <3> QED
      BY <3>1
  <2>3. \A b \in Apps : pc'[b] \notin {"close", "join"}
    BY <2>1, <2>2
  <2>4. sessions = {} => worker = "none" /\ \A b \in Apps : pc[b] # "start"
    <3>1. sessions = {} => worker = "none"
      BY <1>1, <2>1 DEF WorkerWanted, Closing
    <3> QED
      BY <1>1, <3>1 DEF Recorded
  <2>5. CloseAlone' /\ StartAlone'
    BY <1>1, <2>1, <2>3, <2>4 DEF CloseAlone, StartAlone
  <2>6. WorkerWanted'
    BY <1>1, <2>1, <2>2, <2>3 DEF WorkerWanted
  <2> QED
    BY <2>5, <2>6
<1>4. CASE InitStart(a)
  <2>1. /\ pc[a] = "start" /\ pc'[a] = "wait" /\ (\A b \in Apps \ {a} : pc'[b] = pc[b])
        /\ sessions' = sessions /\ worker' = "loop" /\ stop' = FALSE
    BY <1>4, Moves DEF InitStart
  <2>2. sessions # {} /\ \A b \in Apps : pc[b] \notin {"close", "join"}
    BY <1>1, <2>1 DEF Recorded, CloseAlone
  <2>3. \A b \in Apps : pc'[b] \notin {"start", "close", "join"}
    BY <1>1, <2>1, <2>2 DEF StartAlone
  <2> QED
    BY <2>1, <2>2, <2>3 DEF CloseAlone, StartAlone, WorkerWanted
<1>5. CASE DestroyErase(a)
  <2>1. /\ pc[a] = "idle" /\ pc'[a] = "erased" /\ (\A b \in Apps \ {a} : pc'[b] = pc[b])
        /\ sessions # {} /\ UNCHANGED <<worker, stop>>
    BY <1>5, Moves DEF DestroyErase
  <2>2. \A b \in Apps : pc'[b] \notin {"close", "join"}
    BY <1>1, <2>1 DEF CloseAlone
  <2>3. CloseAlone' /\ StartAlone'
    BY <1>1, <2>1, <2>2 DEF CloseAlone, StartAlone
  <2>4. WorkerWanted'
    BY <1>1, <2>1, <2>2 DEF WorkerWanted
  <2> QED
    BY <2>3, <2>4
<1>6. CASE DestroyLast(a)
  <2>1. /\ pc[a] = "erased" /\ pc'[a] = (IF sessions = {} THEN "close" ELSE "forget")
        /\ (\A b \in Apps \ {a} : pc'[b] = pc[b])
        /\ UNCHANGED <<sessions, worker, stop>>
        /\ sessions = {} => \A b \in Apps \ {a} : pc[b] \notin {"close", "join"}
    BY <1>6, Moves DEF DestroyLast
  <2>2. CloseAlone' /\ StartAlone'
    BY <1>1, <2>1 DEF CloseAlone, StartAlone
  <2>3. worker # "none" => sessions' # {} \/ \E b \in Apps : pc'[b] \in {"erased", "close", "join"}
    BY <2>1
  <2>4. WorkerWanted'
    BY <1>1, <2>1, <2>3 DEF WorkerWanted
  <2> QED
    BY <2>2, <2>4
<1>7. CASE DestroyClose(a)
  <2>1. /\ pc[a] = "close" /\ (\A b \in Apps \ {a} : pc'[b] = pc[b]) /\ UNCHANGED <<sessions, worker>>
        /\ IF worker = "none" THEN pc'[a] = "idle" /\ stop' = stop ELSE pc'[a] = "join" /\ stop' = TRUE
    BY <1>7, Moves DEF DestroyClose
  <2>2. CloseAlone' /\ StartAlone'
    BY <1>1, <2>1 DEF CloseAlone, StartAlone
  <2>3. stop' => \E b \in Apps : pc'[b] = "join"
    <3>1. CASE worker = "none"
      BY <1>1, <2>1, <3>1 DEF WorkerWanted
    <3>2. CASE worker # "none"
      BY <2>1, <3>2
    <3> QED
      BY <3>1, <3>2
  <2>4. \A b \in Apps : pc'[b] = "join" => worker' # "none" /\ stop'
    BY <1>1, <2>1 DEF WorkerWanted
  <2>5. /\ worker' # "none" => \E b \in Apps : pc'[b] \in {"erased", "close", "join"}
        /\ worker' \in {"uninit", "ended"} => stop'
    BY <1>1, <2>1 DEF WorkerWanted
  <2>6. WorkerWanted'
    BY <2>3, <2>4, <2>5 DEF WorkerWanted
  <2> QED
    BY <2>2, <2>6
<1>8. CASE DestroyJoin(a)
  <2>1. /\ pc[a] = "join" /\ pc'[a] \in {"idle", "forget"} /\ (\A b \in Apps \ {a} : pc'[b] = pc[b])
        /\ sessions' = sessions /\ worker' = "none" /\ stop' = FALSE
    BY <1>8, Moves DEF DestroyJoin
  <2>2. \A b \in Apps : pc'[b] \notin {"close", "join"}
    BY <1>1, <2>1 DEF CloseAlone
  <2> QED
    BY <1>1, <2>1, <2>2 DEF CloseAlone, StartAlone, WorkerWanted
<1> QED
  BY <1>2, <1>3, <1>4, <1>5, <1>6, <1>7, <1>8 DEF ClientInit, InitGoesOn, ClientDestroy, DestroyGoesOn

\* The worker ends only when it is told to.
LEMMA CallsKept ==
    ASSUME TypeOK, CallsInv, [Next]_vars, ~broken, ~broken'
    PROVE  CallsInv'
<1>1. Sharing /\ Recorded /\ CloseAlone /\ StartAlone /\ WorkerWanted
  BY DEF CallsInv
<1>2. ASSUME NEW a \in Apps, ClientInit(a) \/ ClientDestroy(a) PROVE CallsInv'
  BY <1>1, <1>2, SharingKept, RecordedKept, AloneKept DEF CallsInv
<1>3. CASE ConnectMgrWorker \/ ServerStarts \/ ServerDies \/ OnAiDead \/ UNCHANGED vars
  <2>1. UNCHANGED <<sessions, info, pc, stop>>
    BY <1>3 DEF ConnectMgrWorker, WorkerLoop, WorkerRest, WorkerConnect, WorkerRefused, WorkerWatch,
       WorkerWatchFails, WorkerSet, WorkerUninitialize, ServerStarts, ServerDies, OnAiDead,
       appVars, countVars, workerVars, vars
  <2>2. /\ worker = "none" => worker' = "none"
        /\ worker # "none" => worker' # "none"
        /\ worker' \in {"uninit", "ended"} => worker \in {"uninit", "ended"} \/ stop
    BY <1>3 DEF ConnectMgrWorker, WorkerLoop, WorkerRest, WorkerConnect, WorkerRefused, WorkerWatch,
       WorkerWatchFails, WorkerSet, WorkerUninitialize, ServerStarts, ServerDies, OnAiDead, workerVars, vars
  <2>3. Sharing' /\ Recorded'
    BY <1>1, <2>1 DEF Sharing, Recorded
  <2>4. CloseAlone' /\ StartAlone'
    BY <1>1, <2>1, <2>2 DEF CloseAlone, StartAlone
  <2>5. WorkerWanted'
    BY <1>1, <2>1, <2>2 DEF WorkerWanted
  <2> QED
    BY <2>3, <2>4, <2>5 DEF CallsInv
<1> QED
  BY <1>2, <1>3 DEF Next

----------------------------------------------------------------------------
(* The connection *)

\* The worker, the proxy and the server agree on what is left of a connection.
LEMMA ConnectionKept ==
    ASSUME TypeOK, CallsInv, Connection, [Next]_vars
    PROVE  Connection'
<1> USE DEF appVars, countVars, workerVars, deathVars, serverVars, Goto
<1>1. /\ INVALID \notin ServerIds /\ INVALID_UID # INVALID
      /\ clients \subseteq ServerIds /\ watch \in BOOLEAN
  BY SessionAssumption DEF INVALID, INVALID_UID, TypeOK
<1>2. /\ watch => proxy = "live" /\ (worker = "set" \/ clientId # INVALID)
      /\ worker \in {"none", "ended"} => proxy = "none"
      /\ worker \in {"watch", "set"} => workerId \in ServerIds
      /\ clients \subseteq lost \cup (IF proxy = "live" THEN {workerId} ELSE {})
      /\ ~up => clients = {}
  BY DEF Connection
<1>3. ASSUME Dead PROVE clientId' = clientId \/ clientId' # INVALID
  BY <1>1, <1>3 DEF Dead, SaDeathCallback, ResetClient
<1>4. ASSUME NEW a \in Apps, ClientInit(a) \/ ClientDestroy(a) PROVE Connection'
  <2>1. CASE InitStart(a)
    <3>1. worker = "none" /\ worker' = "loop" /\ UNCHANGED <<proxy, watch, clientId, clients, lost, up>>
      BY <2>1 DEF InitStart, CallsInv, StartAlone
    <3>2. proxy = "none" /\ ~watch
      BY <1>2, <3>1
    <3> QED
      BY <1>2, <3>1, <3>2 DEF Connection
  <2>2. CASE DestroyJoin(a)
    <3>1. worker = "ended" /\ worker' = "none" /\ UNCHANGED <<proxy, watch, clientId, clients, lost, up>>
      BY <2>2 DEF DestroyJoin
    <3>2. proxy = "none" /\ ~watch
      BY <1>2, <3>1
    <3> QED
      BY <1>2, <3>1, <3>2 DEF Connection
  <2>3. CASE ~InitStart(a) /\ ~DestroyJoin(a)
    <3>1. /\ UNCHANGED <<worker, workerId, proxy, watch, clients, lost, up>>
          /\ clientId' = clientId \/ clientId' # INVALID
      BY <1>3, <1>4, <2>3 DEF ClientInit, ClientDestroy, InitGoesOn, DestroyGoesOn, InitGenerate,
         InitGenerateReset, InitRecord, InitStartFails, InitConnected, InitTimeout, InitCopy,
         DestroyErase, DestroyLast, DestroyClose, DestroyForget
    <3> QED
      BY <1>2, <3>1 DEF Connection
  <2> QED
    BY <2>1, <2>2, <2>3
<1>5. CASE WorkerLoop \/ WorkerRest \/ WorkerWatch \/ WorkerWatchFails \/ WorkerSet
  <2>1. UNCHANGED <<workerId, proxy, clients, lost, up>> /\ worker' \notin {"none", "ended", "watch"}
    BY <1>5 DEF WorkerLoop, WorkerRest, WorkerWatch, WorkerWatchFails, WorkerSet
  <2>2. CASE WorkerWatch
    BY <1>2, <2>1, <2>2 DEF WorkerWatch, Connection
  <2>3. CASE WorkerSet
    <3>1. worker = "set" /\ clientId' = workerId /\ watch' = watch /\ worker' = "loop"
      BY <2>3 DEF WorkerSet
    <3> QED
      BY <1>1, <1>2, <2>1, <3>1 DEF Connection
  <2>4. CASE WorkerLoop \/ WorkerRest \/ WorkerWatchFails
    <3>1. worker # "set" /\ worker' # "set" /\ UNCHANGED <<clientId, watch>>
      BY <2>4 DEF WorkerLoop, WorkerRest, WorkerWatchFails
    <3> QED
      BY <1>2, <2>1, <3>1 DEF Connection
  <2> QED
    BY <1>5, <2>2, <2>3, <2>4
<1>6. CASE WorkerConnect
  <2>1. /\ worker = "act" /\ clientId = INVALID /\ up /\ up' = up /\ watch' = watch
        /\ proxy' = "live" /\ worker' = "watch" /\ Forgets
    BY <1>6 DEF WorkerConnect, GetRemoteIUnknown, InitSaEngine
  <2>2. PICK id \in ServerIds : clients' = clients \cup {id} /\ workerId' = id
    BY <1>6 DEF WorkerConnect, InitSaEngine
  <2>3. ~watch
    BY <1>2, <2>1
  <2>4. clients \subseteq lost'
    BY <1>2, <2>1 DEF Forgets
  <2> QED
    BY <2>1, <2>2, <2>3, <2>4 DEF Connection
<1>7. CASE WorkerRefused
  <2>1. /\ worker = "act" /\ clientId = INVALID /\ UNCHANGED <<clients, up, watch>>
        /\ proxy' = "none" /\ worker' = "loop"
    BY <1>7 DEF WorkerRefused, ReleaseIUnknown
  <2>2. ~watch
    BY <1>2, <2>1
  <2>3. clients \subseteq lost'
    BY <1>2, <1>7 DEF WorkerRefused, GetRemoteIUnknown, Forgets
  <2> QED
    BY <1>2, <2>1, <2>2, <2>3 DEF Connection
<1>8. CASE WorkerUninitialize
  <2>1. proxy' = "none" /\ worker' = "ended" /\ UNCHANGED <<lost, up>>
    BY <1>8 DEF WorkerUninitialize, Destroy, ReleaseIUnknown
  <2>2. ~watch' /\ clients' \subseteq lost /\ (clients = {} => clients' = {})
    <3>1. CASE proxy = "none"
      BY <1>2, <1>8, <3>1 DEF WorkerUninitialize, Destroy
    <3>2. CASE proxy # "none"
      BY <1>2, <1>8, <3>2 DEF WorkerUninitialize, Destroy, DestroyEngineProxy
    <3> QED
      BY <3>1, <3>2
  <2> QED
    BY <1>2, <2>1, <2>2 DEF Connection
<1>9. CASE ServerStarts
  <2>1. UNCHANGED <<worker, workerId, proxy, watch, clients, lost, clientId>> /\ up' = TRUE
    BY <1>9 DEF ServerStarts
  <2> QED
    BY <1>2, <2>1 DEF Connection
<1>10. CASE ServerDies
  <2>1. /\ UNCHANGED <<worker, workerId, clientId>> /\ clients' = {} /\ watch' = FALSE
        /\ proxy = "none" => proxy' = "none"
    BY <1>10 DEF ServerDies
  <2> QED
    BY <1>2, <2>1 DEF Connection
<1>11. CASE OnAiDead
  <2>1. UNCHANGED <<worker, workerId, proxy, watch, clients, lost, up>>
    BY <1>11 DEF OnAiDead
  <2>2. clientId' = clientId \/ clientId' # INVALID
    BY <1>3, <1>11 DEF OnAiDead
  <2> QED
    BY <1>2, <2>1, <2>2 DEF Connection
<1>12. CASE UNCHANGED vars
  BY <1>2, <1>12 DEF Connection, vars
<1> QED
  BY <1>4, <1>5, <1>6, <1>7, <1>8, <1>9, <1>10, <1>11, <1>12 DEF Next, ConnectMgrWorker

\* The client id of the process stays while somebody has it.
LEMMA ServedApp ==
    ASSUME TypeOK, CallsInv, Connection, Served, ~broken, ~broken', NEW a \in Apps,
           ClientInit(a) \/ ClientDestroy(a)
    PROVE  Served'
<1> USE DEF countVars, workerVars, deathVars, serverVars, Goto
<1>1. info \in [Apps -> [session : Sessions, client : Ids]]
  BY DEF TypeOK
<1>2. ~notice /\ ~Dead /\ ~InitGenerateReset(a)
  BY DEF Served, Dead, InitGenerateReset
<1>3. /\ clientId' = clientId /\ UNCHANGED <<notice, clients, proxy, watch>>
      /\ \A b \in Apps \ {a} : info'[b] = info[b] /\ pc'[b] = pc[b]
  BY <1>1, <1>2, Moves DEF ClientInit, ClientDestroy, InitGoesOn, DestroyGoesOn, InitGenerate,
     InitRecord, InitStart, InitStartFails, InitConnected, InitTimeout, InitCopy, DestroyErase, DestroyLast,
     DestroyClose, DestroyJoin, DestroyForget
<1>4. /\ worker' \in {"none", "ended", "watch", "set"} => clientId' = INVALID
      /\ worker' \in {"watch", "set"} => workerId' \in clients' /\ proxy' = "live"
      /\ worker' = "set" => watch'
      /\ clientId' # INVALID => clientId' = workerId' /\ clientId' \in clients' /\ proxy' = "live" /\ watch'
  <2>1. CASE InitStart(a)
    <3>1. worker = "none" /\ worker' = "loop"
      BY <2>1 DEF InitStart, CallsInv, StartAlone
    <3> QED
      BY <1>3, <3>1 DEF Served
  <2>2. CASE DestroyJoin(a)
    <3>1. worker = "ended" /\ worker' = "none"
      BY <2>2 DEF DestroyJoin
    <3> QED
      BY <1>3, <3>1 DEF Served
  <2>3. CASE ~InitStart(a) /\ ~DestroyJoin(a)
    <3>1. UNCHANGED <<worker, workerId>>
      BY <1>2, <2>3 DEF ClientInit, ClientDestroy, InitGoesOn, DestroyGoesOn, InitGenerate,
         InitRecord, InitStartFails, InitConnected, InitTimeout, InitCopy, DestroyErase, DestroyLast,
         DestroyClose, DestroyForget
    <3> QED
      BY <1>3, <3>1 DEF Served
  <2> QED
    BY <2>1, <2>2, <2>3
<1>5. pc'[a] = "copy" => clientId' # INVALID
  BY <1>2, <1>3, Moves DEF ClientInit, ClientDestroy, InitGoesOn, DestroyGoesOn, InitGenerate,
     InitRecord, InitStart, InitStartFails, InitConnected, InitTimeout, InitCopy, DestroyErase, DestroyLast,
     DestroyClose, DestroyJoin, DestroyForget
<1>6. \A b \in Apps : pc'[b] = "copy" => clientId' # INVALID
  BY <1>3, <1>5 DEF Served
<1>7. INVALID \in sessions => INVALID \in sessions'
  BY <1>2 DEF ClientInit, ClientDestroy, InitGoesOn, DestroyGoesOn, InitGenerate,
     InitRecord, InitStart, InitStartFails, InitConnected, InitTimeout, InitCopy, DestroyErase, DestroyLast,
     DestroyClose, DestroyJoin, DestroyForget
<1>8. ASSUME NEW b \in Apps \ {a} PROVE OwnId(b)'
  <2>1. OwnId(b) /\ info'[b] = info[b] /\ pc'[b] = pc[b]
    BY <1>3 DEF Served
  <2>2. CASE ~InitRecord(a)
    <3>1. sessions' \subseteq sessions
      BY <1>2, <2>2 DEF ClientInit, ClientDestroy, InitGoesOn, DestroyGoesOn, InitGenerate,
         InitStart, InitStartFails, InitConnected, InitTimeout, InitCopy, DestroyErase, DestroyLast,
         DestroyClose, DestroyJoin, DestroyForget
    <3> QED
      BY <1>3, <1>7, <2>1, <3>1 DEF OwnId
  <2>3. CASE InitRecord(a)
    <3>1. sessions' = sessions \cup {info[a].session} /\ ~Stale(a)
      BY <2>3 DEF InitRecord
    <3>2. info[b].session = info[a].session /\ info[b].session \notin sessions => info[b].session = INVALID
      BY <3>1 DEF Stale
    <3> QED
      BY <1>3, <1>7, <2>1, <3>1, <3>2 DEF OwnId
  <2> QED
    BY <2>2, <2>3
<1>9. OwnId(a)'
  <2>1. OwnId(a)
    BY DEF Served
  <2>2. CASE InitGenerate(a)
    <3>1. /\ info[a].session = INVALID /\ sessions' = sessions /\ info'[a].client = info[a].client
      BY <1>1, <2>2 DEF InitGenerate
    <3> QED
      BY <1>3, <2>1, <3>1 DEF OwnId
  <2>3. CASE InitRecord(a)
    <3>1. pc[a] = "record" /\ sessions' = sessions \cup {info[a].session} /\ info' = info
      BY <2>3 DEF InitRecord
    <3> QED
      BY <1>3, <2>1, <3>1 DEF OwnId
  <2>4. CASE InitCopy(a)
    <3>1. /\ pc[a] = "copy" /\ pc'[a] = "idle" /\ sessions' = sessions
          /\ info'[a].client = clientId /\ info'[a].session = info[a].session
      <4>1. pc[a] = "copy" /\ pc'[a] = "idle" /\ sessions' = sessions
        BY <2>4, Moves DEF InitCopy
      <4>2. info'[a].client = clientId /\ info'[a].session = info[a].session
        BY <1>1, <2>4 DEF InitCopy
      <4> QED
        BY <4>1, <4>2
    <3>2. info[a].session \in sessions
      BY <3>1 DEF CallsInv, Recorded
    <3> QED
      BY <1>3, <3>1, <3>2 DEF OwnId
  <2>5. CASE DestroyForget(a)
    <3>1. info'[a].client = INVALID
      BY <1>1, <2>5 DEF DestroyForget, NoInfo
    <3> QED
      BY <3>1 DEF OwnId
  <2>6. CASE \/ InitStart(a) \/ InitStartFails(a) \/ InitConnected(a) \/ InitTimeout(a)
             \/ DestroyErase(a) \/ DestroyLast(a) \/ DestroyClose(a) \/ DestroyJoin(a)
    <3>1. info' = info /\ sessions' \subseteq sessions
      BY <2>6 DEF InitStart, InitStartFails, InitConnected, InitTimeout,
         DestroyErase, DestroyLast, DestroyClose, DestroyJoin
    <3>2. pc'[a] # "record"
      BY <2>6, Moves DEF InitStart, InitStartFails, InitConnected, InitTimeout,
         DestroyErase, DestroyLast, DestroyClose, DestroyJoin
    <3> QED
      BY <1>3, <1>7, <2>1, <3>1, <3>2 DEF OwnId
  <2> QED
    BY <1>2, <2>2, <2>3, <2>4, <2>5, <2>6 DEF ClientInit, ClientDestroy, InitGoesOn, DestroyGoesOn
<1> QED
  BY <1>2, <1>3, <1>4, <1>6, <1>8, <1>9 DEF Served

\* The worker gives the process a client id when it has none, and takes it away
\* only when no session is left.
LEMMA ServedOther ==
    ASSUME TypeOK, CallsInv, Connection, Served, ~broken, deaths' = 0,
           ConnectMgrWorker \/ ServerStarts \/ ServerDies \/ OnAiDead \/ UNCHANGED vars
    PROVE  Served'
<1> USE DEF appVars, countVars, workerVars, deathVars, serverVars
<1>1. INVALID \notin ServerIds
  BY SessionAssumption DEF INVALID
<1>2. /\ ~notice
      /\ worker \in {"none", "ended", "watch", "set"} => clientId = INVALID
      /\ worker \in {"watch", "set"} => workerId \in clients /\ proxy = "live"
      /\ worker = "set" => watch
      /\ clientId # INVALID => clientId = workerId /\ clientId \in clients /\ proxy = "live" /\ watch
  BY DEF Served
<1>3. ~OnAiDead /\ ~ServerDies
  <2>1. ~OnAiDead
    BY <1>2 DEF OnAiDead, Dead
  <2>2. ~ServerDies
    BY DEF ServerDies, TypeOK
  <2> QED
    BY <2>1, <2>2
<1>4. UNCHANGED <<sessions, info, pc, notice>>
  BY <1>3 DEF ConnectMgrWorker, WorkerLoop, WorkerRest, WorkerConnect, WorkerRefused, WorkerWatch,
     WorkerWatchFails, WorkerSet, WorkerUninitialize, ServerStarts, vars
<1>5. (\A a \in Apps : pc[a] = "copy" => clientId # INVALID) /\ (\A a \in Apps : OwnId(a))
  BY DEF Served
<1>6. CASE clientId' = clientId
  <2>1. (\A a \in Apps : pc'[a] = "copy" => clientId' # INVALID) /\ (\A a \in Apps : OwnId(a)')
    BY <1>4, <1>5, <1>6 DEF OwnId
  <2>2. CASE WorkerLoop \/ WorkerRest \/ WorkerWatch \/ WorkerWatchFails
    <3>1. UNCHANGED <<workerId, clients, proxy>> /\ worker' \in {"uninit", "act", "loop", "set"}
      BY <2>2 DEF WorkerLoop, WorkerRest, WorkerWatch, WorkerWatchFails
    <3>2. worker' = "set" => worker = "watch" /\ watch'
      BY <2>2 DEF WorkerLoop, WorkerRest, WorkerWatch, WorkerWatchFails
    <3>3. watch => watch'
      BY <2>2 DEF WorkerLoop, WorkerRest, WorkerWatch, WorkerWatchFails
    <3> QED
      BY <1>2, <1>4, <1>6, <2>1, <3>1, <3>2, <3>3 DEF Served
  <2>3. CASE WorkerConnect
    <3>1. clientId = INVALID /\ worker' = "watch" /\ proxy' = "live" /\ workerId' \in clients'
      BY <2>3 DEF WorkerConnect, InitSaEngine
    <3> QED
      BY <1>2, <1>4, <1>6, <2>1, <3>1 DEF Served
  <2>4. CASE WorkerRefused
    <3>1. clientId = INVALID /\ worker' = "loop"
      BY <2>4 DEF WorkerRefused
    <3> QED
      BY <1>2, <1>4, <1>6, <2>1, <3>1 DEF Served
  <2>5. CASE WorkerSet
    <3>1. worker = "set" /\ clientId' = workerId
      BY <2>5 DEF WorkerSet
    <3>2. workerId = INVALID /\ workerId \in clients
      BY <1>2, <1>6, <3>1
    <3> QED
      BY <1>1, <3>2 DEF TypeOK
  <2>6. CASE WorkerUninitialize
    <3>1. worker' = "ended" /\ clientId' = INVALID
      BY <2>6 DEF WorkerUninitialize
    <3> QED
      BY <1>2, <1>4, <2>1, <3>1 DEF Served
  <2>7. CASE ServerStarts \/ UNCHANGED vars
    <3>1. UNCHANGED <<worker, workerId, clients, proxy, watch>>
      BY <2>7 DEF ServerStarts, vars
    <3> QED
      BY <1>2, <1>4, <1>6, <2>1, <3>1 DEF Served
  <2> QED
    BY <1>3, <2>2, <2>3, <2>4, <2>5, <2>6, <2>7 DEF ConnectMgrWorker
<1>7. CASE clientId' # clientId
  <2>1. WorkerSet \/ WorkerUninitialize
    BY <1>3, <1>7 DEF ConnectMgrWorker, WorkerLoop, WorkerRest, WorkerConnect, WorkerRefused, WorkerWatch,
       WorkerWatchFails, ServerStarts, vars
  <2>2. CASE WorkerSet
    <3>1. /\ worker = "set" /\ clientId' = workerId /\ worker' = "loop" /\ clientId = INVALID
          /\ UNCHANGED <<workerId, clients, proxy, watch>>
      BY <1>2, <2>2 DEF WorkerSet
    <3>2. clientId' # INVALID /\ clientId' \in clients /\ proxy = "live" /\ watch
      BY <1>2, <1>7, <3>1
    <3>3. \A a \in Apps : OwnId(a)'
      BY <1>4, <1>5, <3>1 DEF OwnId
    <3> QED
      BY <1>2, <1>4, <3>1, <3>2, <3>3 DEF Served
  <2>3. CASE WorkerUninitialize
    <3>1. worker = "uninit" /\ worker' = "ended" /\ clientId' = INVALID
      BY <2>3 DEF WorkerUninitialize
    <3>2. sessions = {}
      <4>1. PICK a \in Apps : pc[a] = "join"
        BY <3>1 DEF CallsInv, WorkerWanted
      <4> QED
        BY <4>1 DEF CallsInv, CloseAlone
    <3>3. \A a \in Apps : pc[a] # "copy"
      BY <3>2 DEF CallsInv, Recorded
    <3>4. \A a \in Apps : OwnId(a)'
      BY <1>4, <1>5, <3>2 DEF OwnId
    <3> QED
      BY <1>2, <1>4, <3>1, <3>3, <3>4 DEF Served
  <2> QED
    BY <2>1, <2>2, <2>3
<1> QED
  BY <1>6, <1>7

\* Until the server dies: a death is counted for good.
LEMMA ServedKept ==
    ASSUME TypeOK, CallsInv, Connection, deaths = 0 => Served, ~broken, ~broken', deaths' = 0, [Next]_vars
    PROVE  Served'
<1>1. deaths = 0
  BY DEF Next, ClientInit, ClientDestroy, InitGoesOn, DestroyGoesOn, InitGenerate, InitGenerateReset, InitRecord,
     InitStart, InitStartFails, InitConnected, InitTimeout, InitCopy, DestroyErase, DestroyLast, DestroyClose,
     DestroyJoin, DestroyForget, ConnectMgrWorker, WorkerLoop, WorkerRest, WorkerConnect, WorkerRefused,
     WorkerWatch, WorkerWatchFails, WorkerSet, WorkerUninitialize, ServerStarts, ServerDies, OnAiDead,
     TypeOK, vars, serverVars
<1> QED
  BY <1>1, ServedApp, ServedOther DEF Next

\* Where the model ends, a call is under way.
LEMMA BrokenOffKept ==
    ASSUME TypeOK, broken => BrokenOff, [Next]_vars, broken'
    PROVE  BrokenOff'
<1>1. CASE broken
  <2>1. UNCHANGED vars
    BY <1>1 DEF Next
  <2> QED
    BY <1>1, <2>1 DEF BrokenOff, vars
<1>2. CASE ~broken
  <2>1. PICK a \in Apps : InitRecord(a) \/ DestroyLast(a)
    BY <1>2 DEF Next, ClientInit, ClientDestroy, InitGoesOn, DestroyGoesOn, InitGenerate, InitGenerateReset,
       InitStart, InitStartFails, InitConnected, InitTimeout, InitCopy, DestroyErase, DestroyClose,
       DestroyJoin, DestroyForget, ConnectMgrWorker, WorkerLoop, WorkerRest, WorkerConnect, WorkerRefused,
       WorkerWatch, WorkerWatchFails, WorkerSet, WorkerUninitialize, ServerStarts, ServerDies, OnAiDead,
       Goto, vars, appVars
  <2>2. CASE InitRecord(a)
    BY <2>2 DEF InitRecord, BrokenOff
  <2>3. CASE DestroyLast(a)
    <3>1. pc'[a] # "idle"
      BY <2>3, Moves DEF DestroyLast
    <3> QED
      BY <3>1 DEF BrokenOff
  <2> QED
    BY <2>1, <2>2, <2>3
<1> QED
  BY <1>1, <1>2

----------------------------------------------------------------------------
(* The theorems *)

LEMMA InvInitially == Init => SessionInv
<1> SUFFICES ASSUME Init PROVE SessionInv
  OBVIOUS
<1>1. /\ INVALID \in Sessions /\ 0 \in Sessions /\ INVALID \in Ids
      /\ NoInfo \in [session : Sessions, client : Ids]
      /\ NoInfo.session = INVALID /\ NoInfo.client = INVALID
  BY SessionAssumption DEF Sessions, Ids, INVALID, NoInfo
<1>2. TypeOK
  BY <1>1 DEF Init, TypeOK
<1>3. Connection
  BY DEF Init, Connection
<1>4. \A a \in Apps : info[a] = NoInfo /\ pc[a] = "idle"
  BY DEF Init
<1>5. Sharing /\ Recorded
  BY <1>1, <1>4 DEF Sharing, Recorded
<1>6. CloseAlone /\ StartAlone /\ WorkerWanted
  BY <1>4 DEF Init, CloseAlone, StartAlone, WorkerWanted
<1>7. Served
  BY <1>1, <1>4 DEF Init, Served, OwnId
<1> QED
  BY <1>2, <1>3, <1>5, <1>6, <1>7 DEF SessionInv, CallsInv, Init

LEMMA InvKept == SessionInv /\ [Next]_vars => SessionInv'
<1> SUFFICES ASSUME SessionInv, [Next]_vars PROVE SessionInv'
  OBVIOUS
<1>1. TypeOK /\ Connection /\ (broken => BrokenOff) /\ (~broken => CallsInv /\ (deaths = 0 => Served))
  BY DEF SessionInv
<1>2. TypeOK' /\ (broken' => BrokenOff')
  BY <1>1, TypesKept, BrokenOffKept
<1>3. CASE broken
  <2>1. UNCHANGED vars
    BY <1>3 DEF Next
  <2>2. broken' = broken
    BY <2>1 DEF vars
  <2>3. Connection'
    BY <1>1, <2>1 DEF Connection, vars
  <2> QED
    BY <1>2, <1>3, <2>2, <2>3 DEF SessionInv
<1>4. CASE ~broken
  BY <1>1, <1>2, <1>4, ConnectionKept, CallsKept, ServedKept DEF SessionInv
<1> QED
  BY <1>3, <1>4

THEOREM SessionInvariant == Spec => []SessionInv
BY InvInitially, InvKept, PTL DEF Spec

\* For any number of applications and any limits, also after the counter has
\* wrapped and after deaths of the server, no two applications come to hold the
\* same recorded session id, unless an id of a failed ClientDestroy is given out.
THEOREM SessionIdsDiffer == Spec => []SessionsDistinct
<1>1. SessionInv => SessionsDistinct
  BY DEF SessionInv, CallsInv, Sharing, SessionsDistinct
<1> QED
  BY <1>1, SessionInvariant, PTL

\* While the server lives, each session stays connected under the client id that
\* ClientInit gave it, whatever the other applications do and whatever fails.
THEOREM ReadyStaysServed == Spec => []ReadySessionServed
<1>1. SessionInv => ReadySessionServed
  <2> SUFFICES ASSUME SessionInv, deaths = 0, ~broken, NEW a \in Apps,
                      info[a].client # INVALID, info[a].session \in sessions
               PROVE  /\ clientId = info[a].client /\ clientId \in clients
                      /\ proxy = "live" /\ watch /\ worker \in {"loop", "act"}
    BY DEF ReadySessionServed
  <2>1. CallsInv /\ Served /\ TypeOK
    BY DEF SessionInv
  <2>2. clientId = info[a].client
    BY <2>1 DEF Served, OwnId
  <2>3. clientId \in clients /\ proxy = "live" /\ watch /\ worker \notin {"none", "ended", "watch", "set"}
    BY <2>1, <2>2 DEF Served
  <2>4. worker # "uninit"
    <3>1. \A b \in Apps : pc[b] # "join"
      BY <2>1 DEF CallsInv, CloseAlone
    <3> QED
      BY <2>1, <3>1 DEF CallsInv, WorkerWanted
  <2> QED
    BY <2>1, <2>2, <2>3, <2>4 DEF TypeOK
<1> QED
  BY <1>1, SessionInvariant, PTL

\* When the last session is closed and no call is under way, neither the process
\* nor the server keeps anything of the connection, but for forgotten client ids.
THEOREM LastSessionDisconnects == Spec => []NoSessionNoConnection
<1>1. SessionInv => NoSessionNoConnection
  <2> SUFFICES ASSUME SessionInv, sessions = {}, \A a \in Apps : pc[a] = "idle"
               PROVE  /\ worker = "none" /\ proxy = "none" /\ ~watch
                      /\ deaths = 0 => clientId = INVALID
                      /\ clients \subseteq lost
    BY DEF NoSessionNoConnection
  <2>1. ~broken /\ CallsInv /\ Connection /\ (deaths = 0 => Served)
    BY DEF SessionInv, BrokenOff
  <2>2. worker = "none"
    BY <2>1 DEF CallsInv, WorkerWanted
  <2> QED
    BY <2>1, <2>2 DEF Connection, Served
<1> QED
  BY <1>1, SessionInvariant, PTL
=============================================================================
