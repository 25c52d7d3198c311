-------------------------- MODULE ServerClientsProofs --------------------------
(***************************************************************************)
(* For any number of processes, sessions and client ids, and whatever      *)
(* failures Faults allows: a transaction id names one session of one       *)
(* client, no two processes are the same client, every transaction an      *)
(* adapter knows has its engine, and a prepared session is served.         *)
(***************************************************************************)
EXTENDS ServerClients, TLAPS

\* A product with a positive number is at least that number, or at most its
\* negation, unless the other factor is zero.
LEMMA ProductGap ==
    ASSUME NEW n \in Nat, n > 0, NEW d \in Int, n * d < n, n * d > -n
    PROVE  d = 0
<1>1. CASE d >= 1
  <2>1. n * d >= n
    BY <1>1
  <2> QED BY <2>1
<1>2. CASE d <= -1
  <2>1. n * (-d) >= n
    BY <1>2
  <2>2. n * (-d) = -(n * d)
    OBVIOUS
  <2> QED BY <2>1, <2>2
<1> QED BY <1>1, <1>2

\* Euclidean division recovers the quotient and the remainder of a number.
LEMMA Halves ==
    ASSUME NEW n \in Nat, n > 0, NEW c \in Nat, NEW s \in 0 .. (n - 1),
           NEW t \in Nat, t = n * c + s
    PROVE  t \div n = c /\ t % n = s
<1> DEFINE q == t \div n
           r == t % n
<1>1. q \in Int /\ r \in 0 .. (n - 1) /\ t = n * q + r
  OBVIOUS
<1> HIDE DEF q, r
<1>2. n * (c - q) = r - s
  BY <1>1
<1>3. c - q \in Int /\ n * (c - q) < n /\ n * (c - q) > -n
  BY <1>1, <1>2
<1>4. c - q = 0
  BY <1>3, ProductGap
<1>5. q = c
  BY <1>1, <1>4
<1>6. n * q + r = n * q + s /\ n * q \in Int
  BY <1>1, <1>5
<1>7. r = s
  BY <1>1, <1>6
<1> QED
  BY <1>5, <1>7 DEF q, r

\* (adapterId_ << 32) + sessionId keeps both ids: the upper half is the client,
\* and GetSessionId returns the session (GetTransactionId, GetSessionId).
THEOREM TransactionIdDecodes ==
    ASSUME NEW c \in ClientIds, NEW s \in 0 .. MaxInt
    PROVE  /\ TransactionId(c, s) \div IdMod = c
           /\ GetSessionId(TransactionId(c, s)) = s
<1>1. IdMod \in Nat /\ IdMod > 0 /\ MaxInt < IdMod
  BY ServerAssumption DEF IdMod
<1>2. c \in Nat /\ s \in 0 .. (IdMod - 1) /\ ~ (s > MaxInt)
  BY <1>1, ServerAssumption DEF ClientIds, STARTING_CLIENT_ID
<1>3. c * IdMod \in Nat /\ c * IdMod = IdMod * c
  BY <1>1, <1>2
<1>4. TransactionId(c, s) \in Nat /\ TransactionId(c, s) = IdMod * c + s
  BY <1>2, <1>3 DEF TransactionId
<1>5. TransactionId(c, s) \div IdMod = c /\ TransactionId(c, s) % IdMod = s
  BY <1>1, <1>2, <1>4, Halves
<1> QED
  BY <1>2, <1>5 DEF GetSessionId

-------------------------------------------------------------------------------
(* ClientInv is inductive. *)

\* The server starts without clients.
LEMMA InitClients == Init => ClientInv
<1> SUFFICES ASSUME Init PROVE ClientInv
  OBVIOUS
<1>1. TypeOK
  BY ServerAssumption DEF Init, TypeOK, Adapters
<1>2. IdsUnique /\ CallsConnected
  BY DEF Init, IdsUnique, CallsConnected
<1> QED
  BY <1>1, <1>2 DEF ClientInv

\* A call under way belongs to a connected process and names one of its
\* sessions; the transaction it means can be decoded.
LEMMA CallUnderWay ==
    ASSUME ClientInv, NEW p \in Procs, call[p] # Idle
    PROVE  /\ conn[p] \in ClientIds /\ conn[p] \in Adapters
           /\ call[p].session \in Sessions /\ call[p] \in Calls
           /\ Tid(p, call[p].session) \in TransactionIds
<1>1. call[p] \in Calls /\ call[p].session \in Sessions
  BY DEF ClientInv, TypeOK, Calls
<1>2. conn[p] # NoClient
  BY DEF ClientInv, CallsConnected
<1>3. conn[p] \in ClientIds /\ conn[p] \in Adapters
  BY <1>2 DEF ClientInv, TypeOK, IdsUnique
<1>4. Tid(p, call[p].session) \in TransactionIds
  BY <1>1, <1>3 DEF Tid, TransactionIds
<1> QED
  BY <1>1, <1>3, <1>4

\* A new adapter has an id of its own and no transaction.
LEMMA NewAdapter ==
    ASSUME ClientInv, NEW c, FindValidClientId(c), lastId' = c, trans' = AddAdapter(c)
    PROVE  /\ c \in ClientIds /\ c # NoClient /\ c \notin Adapters
           /\ lastId' \in 0 .. MaxInt
           /\ Adapters' = Adapters \cup {c}
           /\ Adapters' \subseteq ClientIds
           /\ \A d \in Adapters' : trans'[d] \subseteq TransactionIds
<1>1. c \in ClientIds /\ c \notin Adapters
  BY DEF FindValidClientId
<1>2. c \in 1 .. MaxInt /\ MaxInt \in Nat
  BY <1>1, ServerAssumption DEF ClientIds, STARTING_CLIENT_ID
<1>3. c # NoClient /\ lastId' \in 0 .. MaxInt
  BY <1>2 DEF NoClient
<1>4. Adapters' = Adapters \cup {c}
  BY DEF AddAdapter, Adapters
<1>5. Adapters' \subseteq ClientIds
  BY <1>1, <1>4 DEF ClientInv, TypeOK
<1>6. \A d \in Adapters' : trans'[d] \subseteq TransactionIds
  BY <1>4 DEF AddAdapter, ClientInv, TypeOK
<1> QED
  BY <1>1, <1>3, <1>4, <1>5, <1>6

\* GenerateClient makes a client nobody else is.
LEMMA ConnectClients ==
    ASSUME ClientInv, NEW p \in Procs, Connect(p)
    PROVE  ClientInv'
<1>1. PICK c : /\ FindValidClientId(c) /\ lastId' = c /\ trans' = AddAdapter(c)
               /\ conn' = [conn EXCEPT ![p] = c]
  BY DEF Connect, InitEngine
<1>2. /\ c \in ClientIds /\ c # NoClient /\ c \notin Adapters
      /\ lastId' \in 0 .. MaxInt
      /\ Adapters' = Adapters \cup {c}
      /\ Adapters' \subseteq ClientIds
      /\ \A d \in Adapters' : trans'[d] \subseteq TransactionIds
  BY <1>1, NewAdapter
<1>3. TypeOK'
  BY <1>1, <1>2 DEF Connect, ClientInv, TypeOK, asyncVars
<1>4. IdsUnique'
  BY <1>1, <1>2 DEF ClientInv, TypeOK, IdsUnique
<1>5. CallsConnected'
  BY <1>1, <1>2 DEF Connect, ClientInv, TypeOK, CallsConnected
<1> QED
  BY <1>3, <1>4, <1>5 DEF ClientInv

\* So it does for a try that fails in AddDeathRecipient.
LEMMA ConnectUnwatchedClients ==
    ASSUME ClientInv, NEW p \in Procs, ConnectUnwatched(p)
    PROVE  ClientInv'
<1>1. PICK c : FindValidClientId(c) /\ lastId' = c /\ trans' = AddAdapter(c)
  BY DEF ConnectUnwatched, InitEngine
<1>2. /\ lastId' \in 0 .. MaxInt
      /\ Adapters' = Adapters \cup {c}
      /\ Adapters' \subseteq ClientIds
      /\ \A d \in Adapters' : trans'[d] \subseteq TransactionIds
  BY <1>1, NewAdapter
<1>3. TypeOK'
  BY <1>2 DEF ConnectUnwatched, ClientInv, TypeOK, clientVars, asyncVars
<1>4. IdsUnique'
  BY <1>2 DEF ConnectUnwatched, ClientInv, IdsUnique, clientVars
<1>5. CallsConnected'
  BY DEF ConnectUnwatched, ClientInv, CallsConnected, clientVars
<1> QED
  BY <1>3, <1>4, <1>5 DEF ClientInv

\* What a process does without connecting or leaving keeps the clients apart,
\* and keeps its calls connected when it was.
LEMMA SameClients ==
    ASSUME ClientInv, NEW p \in Procs, UNCHANGED conn, Adapters' = Adapters,
           conn[p] # NoClient,
           \A q \in Procs : q # p => call'[q] = call[q] /\ state'[q] = state[q]
    PROVE  IdsUnique' /\ CallsConnected'
BY DEF ClientInv, IdsUnique, CallsConnected

\* A session that changes state has a state.
LEMMA SessionState ==
    ASSUME ClientInv, NEW p \in Procs, NEW s \in Sessions,
           NEW st \in {"new", "ready", "stuck"},
           state' = [state EXCEPT ![p][s] = st]
    PROVE  state' \in [Procs -> [Sessions -> {"new", "ready", "stuck"}]]
<1>1. [state[p] EXCEPT ![s] = st] \in [Sessions -> {"new", "ready", "stuck"}]
  BY DEF ClientInv, TypeOK
<1> QED
  BY <1>1 DEF ClientInv, TypeOK

\* ClientPrepare sends its first message from a connected process.
LEMMA PrepareClients ==
    ASSUME ClientInv, NEW p \in Procs, NEW s \in Sessions, Prepare(p, s)
    PROVE  ClientInv'
<1> DEFINE m == IF s \in AsyncSessions /\ FirstCallback(p, s) THEN "register" ELSE "load"
<1>1. call' = [call EXCEPT ![p] = [msg |-> m, session |-> s]]
  BY DEF Prepare, Send, RegisterCallbackProxy, LoadAlgorithmProxy
<1>2. [msg |-> m, session |-> s] \in Calls
  BY DEF Calls
<1>3. cbs' \in [Procs -> SUBSET AsyncSessions]
  BY DEF Prepare, ClientInv, TypeOK
<1>4. UNCHANGED <<conn, state, lastId, trans, recorded, listeners, handler, dangling, svc>>
  BY DEF Prepare, engineVars, asyncVars
<1> HIDE DEF m
<1>5. TypeOK'
  BY <1>1, <1>2, <1>3, <1>4 DEF ClientInv, TypeOK, Adapters
<1>6. IdsUnique' /\ CallsConnected'
  BY <1>1, <1>4, SameClients DEF Prepare, ClientInv, TypeOK, Adapters
<1> QED
  BY <1>5, <1>6 DEF ClientInv

\* ClientRelease sends its first message from a connected process.
LEMMA ReleaseClients ==
    ASSUME ClientInv, NEW p \in Procs, NEW s \in Sessions, Release(p, s)
    PROVE  ClientInv'
<1> DEFINE m == IF s \in AsyncSessions /\ LastCallback(p, s) THEN "unregister" ELSE "unload"
<1>1. call' = [call EXCEPT ![p] = [msg |-> m, session |-> s]]
  BY DEF Release, Send, UnregisterCallbackProxy, UnloadAlgorithmProxy
<1>2. [msg |-> m, session |-> s] \in Calls
  BY DEF Calls
<1>3. cbs' \in [Procs -> SUBSET AsyncSessions]
  BY DEF Release, ClientInv, TypeOK
<1>4. UNCHANGED <<conn, lastId, trans, recorded, listeners, handler, dangling, svc>>
  BY DEF Release, engineVars, asyncVars
<1>5. state' = [state EXCEPT ![p][s] = "stuck"] /\ conn[p] # NoClient
  BY DEF Release, Becomes, ClientInv, CallsConnected
<1> HIDE DEF m
<1>6. TypeOK'
  BY <1>1, <1>2, <1>3, <1>4, <1>5 DEF ClientInv, TypeOK, Adapters
<1>7. IdsUnique' /\ CallsConnected'
  BY <1>1, <1>4, <1>5, SameClients DEF ClientInv, TypeOK, Adapters
<1> QED
  BY <1>6, <1>7 DEF ClientInv

\* RegisterCallback, served or refused, changes the client's own handler only.
LEMMA RegisterClients ==
    ASSUME ClientInv, NEW p \in Procs, RegisterCallback(p) \/ RegisterCallbackFails(p)
    PROVE  ClientInv'
<1>1. call[p] # Idle
  BY DEF RegisterCallback, RegisterCallbackFails, Idle
<1>2. conn[p] \in ClientIds /\ conn[p] # NoClient /\ call[p].session \in Sessions
  BY <1>1, CallUnderWay DEF ClientInv, CallsConnected
<1>3. PICK x \in Calls \cup {Idle} : call' = [call EXCEPT ![p] = x]
  BY <1>2 DEF RegisterCallback, RegisterCallbackFails, LoadAlgorithmProxy, Send, Return, Calls
<1>4. /\ svc' \in [ClientIds -> Procs \cup {NoProc}]
      /\ handler' \in [ClientIds -> {"none", "idle", "running"}]
      /\ cbs' \in [Procs -> SUBSET AsyncSessions]
  <2>1. svc' = [svc EXCEPT ![conn[p]] = p]
    BY DEF RegisterCallback, RegisterCallbackFails
  <2>2. PICK h \in {"idle", "running"} : handler' = handler \/ handler' = [handler EXCEPT ![conn[p]] = h]
    BY DEF RegisterCallback, RegisterCallbackFails
  <2>3. cbs' = cbs \/ cbs' = [cbs EXCEPT ![p] = @ \ {call[p].session}]
    BY DEF RegisterCallback, RegisterCallbackFails
  <2> QED
    BY <1>2, <2>1, <2>2, <2>3 DEF ClientInv, TypeOK
<1>5. UNCHANGED <<conn, state, lastId, trans, recorded, listeners, dangling>>
  BY DEF RegisterCallback, RegisterCallbackFails, engineVars
<1>6. TypeOK'
  BY <1>3, <1>4, <1>5 DEF ClientInv, TypeOK, Adapters
<1>7. IdsUnique' /\ CallsConnected'
  BY <1>2, <1>3, <1>5, SameClients DEF ClientInv, TypeOK, Adapters
<1> QED
  BY <1>6, <1>7 DEF ClientInv

\* LoadAlgorithm, served or failed, adds at most a transaction of its client.
LEMMA LoadClients ==
    ASSUME ClientInv, NEW p \in Procs, LoadAlgorithm(p) \/ LoadAlgorithmFails(p)
    PROVE  ClientInv'
<1> DEFINE s == call[p].session
           c == conn[p]
<1>1. call[p] # Idle
  BY DEF LoadAlgorithm, LoadAlgorithmFails, Idle
<1>2. c \in Adapters /\ c # NoClient /\ s \in Sessions /\ Tid(p, s) \in TransactionIds
  BY <1>1, CallUnderWay DEF ClientInv, CallsConnected
<1>3. call' = [call EXCEPT ![p] = Idle]
  BY DEF LoadAlgorithm, LoadAlgorithmFails, Return
<1>4. \/ trans' = [trans EXCEPT ![c] = @ \cup {Tid(p, s)}]
      \/ trans' = trans
  BY DEF LoadAlgorithm, LoadAlgorithmFails, engineVars
<1>5. Adapters' = Adapters /\ \A d \in Adapters : trans'[d] \subseteq TransactionIds
  BY <1>2, <1>4 DEF Adapters, ClientInv, TypeOK
<1>6. recorded' \subseteq TransactionIds /\ listeners' \subseteq TransactionIds
  BY <1>2 DEF LoadAlgorithm, LoadAlgorithmFails, engineVars, asyncVars, ClientInv, TypeOK
<1>7. state' = [state EXCEPT ![p][s] = "ready"] \/ state' = state
  BY DEF LoadAlgorithm, LoadAlgorithmFails, Becomes
<1>8. cbs' \in [Procs -> SUBSET AsyncSessions]
  BY DEF LoadAlgorithm, LoadAlgorithmFails, ClientInv, TypeOK
<1>9. UNCHANGED <<conn, lastId, handler, dangling, svc>>
  BY DEF LoadAlgorithm, LoadAlgorithmFails, asyncVars
<1> HIDE DEF s, c
<1>10. state' \in [Procs -> [Sessions -> {"new", "ready", "stuck"}]]
  BY <1>2, <1>7, SessionState DEF ClientInv, TypeOK
<1>11. TypeOK'
  BY <1>3, <1>5, <1>6, <1>8, <1>9, <1>10 DEF ClientInv, TypeOK
<1>12. IdsUnique' /\ CallsConnected'
  BY <1>2, <1>3, <1>5, <1>7, <1>9, SameClients DEF ClientInv, TypeOK, c
<1> QED
  BY <1>11, <1>12 DEF ClientInv

\* UnregisterCallback removes the client's own handler only.
LEMMA UnregisterClients ==
    ASSUME ClientInv, NEW p \in Procs, UnregisterCallback(p)
    PROVE  ClientInv'
<1>1. call[p] # Idle
  BY DEF UnregisterCallback, Idle
<1>2. conn[p] \in ClientIds /\ conn[p] # NoClient /\ call[p].session \in Sessions
  BY <1>1, CallUnderWay DEF ClientInv, CallsConnected
<1>3. PICK x \in Calls \cup {Idle} : call' = [call EXCEPT ![p] = x]
  BY <1>2 DEF UnregisterCallback, UnloadAlgorithmProxy, Send, Calls
<1>4. /\ handler' \in [ClientIds -> {"none", "idle", "running"}]
      /\ dangling' \subseteq ClientIds
  BY <1>2 DEF UnregisterCallback, ClientInv, TypeOK
<1>5. UNCHANGED <<conn, state, cbs, lastId, trans, recorded, listeners, svc>>
  BY DEF UnregisterCallback, engineVars
<1>6. TypeOK'
  BY <1>3, <1>4, <1>5 DEF ClientInv, TypeOK, Adapters
<1>7. IdsUnique' /\ CallsConnected'
  BY <1>2, <1>3, <1>5, SameClients DEF ClientInv, TypeOK, Adapters
<1> QED
  BY <1>6, <1>7 DEF ClientInv

\* UnloadAlgorithm takes away at most the transaction it names.
LEMMA UnloadClients ==
    ASSUME ClientInv, NEW p \in Procs, UnloadAlgorithm(p)
    PROVE  ClientInv'
<1> DEFINE s == call[p].session
           c == conn[p]
<1>1. call[p] # Idle
  BY DEF UnloadAlgorithm, Idle
<1>2. c \in Adapters /\ c # NoClient /\ s \in Sessions
  BY <1>1, CallUnderWay DEF ClientInv, CallsConnected
<1>3. call' = [call EXCEPT ![p] = Idle]
  BY DEF UnloadAlgorithm, Return
<1>4. trans' = [trans EXCEPT ![c] = @ \ {Tid(p, s)}] \/ trans' = trans
  BY DEF UnloadAlgorithm, UnloadDone, UnloadFails, engineVars
<1>5. Adapters' = Adapters /\ \A d \in Adapters : trans'[d] \subseteq TransactionIds
  BY <1>2, <1>4 DEF Adapters, ClientInv, TypeOK
<1>6. recorded' \subseteq TransactionIds /\ listeners' \subseteq TransactionIds
  BY DEF UnloadAlgorithm, UnloadDone, UnloadFails, engineVars, ClientInv, TypeOK
<1>7. state' = [state EXCEPT ![p][s] = "new"] \/ state' = state
  BY DEF UnloadAlgorithm, Becomes
<1>8. UNCHANGED <<conn, cbs, lastId, handler, dangling, svc>>
  BY DEF UnloadAlgorithm
<1> HIDE DEF s, c
<1>9. state' \in [Procs -> [Sessions -> {"new", "ready", "stuck"}]]
  BY <1>2, <1>7, SessionState DEF ClientInv, TypeOK
<1>10. TypeOK'
  BY <1>3, <1>5, <1>6, <1>8, <1>9 DEF ClientInv, TypeOK
<1>11. IdsUnique' /\ CallsConnected'
  BY <1>2, <1>3, <1>5, <1>7, <1>8, SameClients DEF ClientInv, TypeOK, c
<1> QED
  BY <1>10, <1>11 DEF ClientInv

\* A process that leaves, in order or by dying, has no call and no session left.
LEMMA LeftClient ==
    ASSUME ClientInv, NEW p \in Procs,
           conn' = [conn EXCEPT ![p] = NoClient],
           call' = [call EXCEPT ![p] = Idle],
           state' = [state EXCEPT ![p] = [s \in Sessions |-> "new"]]
    PROVE  CallsConnected'
BY DEF ClientInv, TypeOK, CallsConnected

\* RemoveAdapterWrapper takes the adapter of no other process away.
LEMMA DestroyClients ==
    ASSUME ClientInv, NEW p \in Procs, Destroy(p)
    PROVE  ClientInv'
<1> DEFINE c == conn[p]
<1>1. c \in ClientIds /\ c # NoClient /\ call[p] = Idle
  BY DEF Destroy, ClientInv, TypeOK
<1>2. trans' = [d \in Adapters \ {c} |-> trans[d]] /\ conn' = [conn EXCEPT ![p] = NoClient]
  BY DEF Destroy
<1>3. Adapters' = Adapters \ {c}
  BY <1>2 DEF Adapters
<1>4. \A d \in Adapters' : trans'[d] \subseteq TransactionIds
  BY <1>2, <1>3 DEF ClientInv, TypeOK
<1>5. recorded' \subseteq TransactionIds
  BY DEF Destroy, ClientInv, TypeOK
<1>6. dangling' \subseteq ClientIds /\ svc' \in [ClientIds -> Procs \cup {NoProc}]
  BY <1>1 DEF Destroy, ClientInv, TypeOK
<1>7. state' = [state EXCEPT ![p] = [s \in Sessions |-> "new"]]
  BY DEF Destroy
<1>8. UNCHANGED <<cbs, call, lastId, listeners, handler>>
  BY DEF Destroy
<1>9. call' = [call EXCEPT ![p] = Idle]
  BY <1>1, <1>8 DEF ClientInv, TypeOK
<1> HIDE DEF c
<1>10. TypeOK'
  BY <1>2, <1>3, <1>4, <1>5, <1>6, <1>7, <1>8 DEF ClientInv, TypeOK
<1>11. IdsUnique'
  BY <1>2, <1>3 DEF ClientInv, TypeOK, IdsUnique, c
<1>12. CallsConnected'
  BY <1>2, <1>7, <1>9, LeftClient
<1> QED
  BY <1>10, <1>11, <1>12 DEF ClientInv

\* A process that dies leaves its adapter to nobody.
LEMMA CrashClients ==
    ASSUME ClientInv, NEW p \in Procs, Crash(p)
    PROVE  ClientInv'
<1>1. /\ conn' = [conn EXCEPT ![p] = NoClient]
      /\ call' = [call EXCEPT ![p] = Idle]
      /\ state' = [state EXCEPT ![p] = [s \in Sessions |-> "new"]]
      /\ cbs' = [cbs EXCEPT ![p] = {}]
      /\ UNCHANGED <<lastId, trans, recorded, listeners, handler, dangling, svc>>
  BY DEF Crash, Return, engineVars, asyncVars
<1>2. TypeOK'
  BY <1>1 DEF ClientInv, TypeOK, Adapters
<1>3. IdsUnique'
  BY <1>1 DEF ClientInv, TypeOK, IdsUnique, Adapters
<1>4. CallsConnected'
  BY <1>1, LeftClient
<1> QED
  BY <1>2, <1>3, <1>4 DEF ClientInv

\* Every step keeps ClientInv.
LEMMA NextClients == ClientInv /\ [Next]_vars => ClientInv'
<1> SUFFICES ASSUME ClientInv, [Next]_vars PROVE ClientInv'
  OBVIOUS
<1>1. CASE UNCHANGED vars
  BY <1>1 DEF vars, ClientInv, TypeOK, IdsUnique, CallsConnected, Adapters
<1>2. ASSUME NEW p \in Procs, Connect(p) \/ ConnectUnwatched(p) PROVE ClientInv'
  BY <1>2, ConnectClients, ConnectUnwatchedClients
<1>3. ASSUME NEW p \in Procs, NEW s \in Sessions, Prepare(p, s) \/ Release(p, s)
      PROVE  ClientInv'
  BY <1>3, PrepareClients, ReleaseClients
<1>4. ASSUME NEW p \in Procs, Invoke(p) PROVE ClientInv'
  BY <1>4, RegisterClients, LoadClients, UnregisterClients, UnloadClients,
     DestroyClients
     DEF Invoke, InvokeRegisterCallback, InvokeLoadAlgorithm, InvokeUnregisterCallback,
         InvokeUnloadAlgorithm, InvokeDestroyEngine
<1>5. ASSUME NEW p \in Procs, Crash(p) PROVE ClientInv'
  BY <1>5, CrashClients
<1> QED
  BY <1>1, <1>2, <1>3, <1>4, <1>5 DEF Next

\* Whatever fails and however often the id counter wraps: the types, and no
\* two connected processes share a client id or lack their adapter
\* (FindValidClientId, RemoveAdapterWrapper).
THEOREM ClientsApart == Spec => [](TypeOK /\ IdsUnique)
<1>1. ClientInv => TypeOK /\ IdsUnique
  BY DEF ClientInv
<1> QED
  BY <1>1, InitClients, NextClients, PTL DEF Spec

-------------------------------------------------------------------------------
(* RecordInv is inductive. *)

\* Transaction ids of two clients, or of two sessions, differ.
LEMMA TransactionsApart ==
    ASSUME NEW c \in ClientIds, NEW d \in ClientIds, NEW s \in Sessions, NEW u \in Sessions,
           TransactionId(c, s) = TransactionId(d, u)
    PROVE  c = d /\ s = u
<1>1. s \in 0 .. MaxInt /\ u \in 0 .. MaxInt
  BY ServerAssumption
<1>2. TransactionId(c, s) \div IdMod = c /\ TransactionId(d, u) \div IdMod = d
  BY <1>1, TransactionIdDecodes
<1>3. GetSessionId(TransactionId(c, s)) = s /\ GetSessionId(TransactionId(d, u)) = u
  BY <1>1, TransactionIdDecodes
<1> QED
  BY <1>2, <1>3

\* StartEngine records an engine and SaveTransaction tells the adapter.
LEMMA EngineAdded ==
    ASSUME KnownRecorded, NEW c \in Adapters, NEW s \in Sessions,
           recorded' = recorded \cup {TransactionId(c, s)},
           trans' = [trans EXCEPT ![c] = @ \cup {TransactionId(c, s)}]
    PROVE  /\ KnownRecorded' /\ Adapters' = Adapters
           /\ RecordsMatch => RecordsMatch'
<1>1. /\ Adapters' = Adapters
      /\ trans'[c] = trans[c] \cup {TransactionId(c, s)}
      /\ \A d \in Adapters \ {c} : trans'[d] = trans[d]
  BY DEF Adapters
<1>2. KnownRecorded'
  BY <1>1 DEF KnownRecorded
<1>3. ASSUME RecordsMatch PROVE RecordsMatch'
  BY <1>1, <1>3 DEF RecordsMatch
<1> QED
  BY <1>1, <1>2, <1>3

\* StopEngine and RemoveTransaction forget both, and nothing of another client.
LEMMA EngineRemoved ==
    ASSUME KnownRecorded, Adapters \subseteq ClientIds, NEW c \in Adapters, NEW s \in Sessions,
           recorded' = recorded \ {TransactionId(c, s)},
           trans' = [trans EXCEPT ![c] = @ \ {TransactionId(c, s)}]
    PROVE  /\ KnownRecorded' /\ Adapters' = Adapters
           /\ RecordsMatch => RecordsMatch'
<1>1. /\ Adapters' = Adapters
      /\ trans'[c] = trans[c] \ {TransactionId(c, s)}
      /\ \A d \in Adapters \ {c} : trans'[d] = trans[d]
  BY DEF Adapters
<1>2. \A d \in Adapters \ {c} : TransactionId(c, s) \notin trans[d]
  BY TransactionsApart DEF KnownRecorded
<1>3. KnownRecorded'
  BY <1>1, <1>2 DEF KnownRecorded
<1>4. ASSUME RecordsMatch PROVE RecordsMatch'
  BY <1>1, <1>2, <1>4 DEF RecordsMatch
<1> QED
  BY <1>1, <1>3, <1>4

\* A new adapter knows no transaction.
LEMMA AdapterAdded ==
    ASSUME KnownRecorded, NEW c, c \notin Adapters, trans' = AddAdapter(c), UNCHANGED recorded
    PROVE  KnownRecorded' /\ (RecordsMatch => RecordsMatch')
<1>1. Adapters' = Adapters \cup {c} /\ trans'[c] = {} /\ \A d \in Adapters : trans'[d] = trans[d]
  BY DEF AddAdapter, Adapters
<1>2. KnownRecorded'
  BY <1>1 DEF KnownRecorded
<1>3. ASSUME RecordsMatch PROVE RecordsMatch'
  BY <1>1, <1>3 DEF RecordsMatch
<1> QED
  BY <1>2, <1>3

\* The destructor of an adapter stops its engines, and no other's.
LEMMA AdapterRemoved ==
    ASSUME KnownRecorded, Adapters \subseteq ClientIds, NEW c \in Adapters,
           recorded' = recorded \ StoppedByDestructor(c),
           trans' = [d \in Adapters \ {c} |-> trans[d]]
    PROVE  /\ KnownRecorded'
           /\ ~ReleaseNeedsInput /\ RecordsMatch => RecordsMatch'
<1>1. Adapters' = Adapters \ {c} /\ \A d \in Adapters \ {c} : trans'[d] = trans[d]
  BY DEF Adapters
<1>2. StoppedByDestructor(c) \subseteq trans[c]
  BY DEF StoppedByDestructor
<1>3. \A d \in Adapters \ {c} : trans[d] \cap trans[c] = {}
  BY TransactionsApart DEF KnownRecorded
<1>4. KnownRecorded'
  BY <1>1, <1>2, <1>3 DEF KnownRecorded
<1>5. ASSUME ~ReleaseNeedsInput, RecordsMatch PROVE RecordsMatch'
  <2>1. StoppedByDestructor(c) = trans[c]
    BY <1>5 DEF StoppedByDestructor
  <2> QED BY <1>1, <1>3, <1>5, <2>1 DEF RecordsMatch
<1> QED
  BY <1>4, <1>5

\* The server starts without adapters and engines.
LEMMA InitRecords == Init => RecordInv
<1> SUFFICES ASSUME Init PROVE RecordInv
  OBVIOUS
<1>1. Adapters = {} /\ recorded = {}
  BY DEF Init, Adapters
<1> QED
  BY <1>1, InitClients DEF RecordInv, KnownRecorded, RecordsMatch

\* What every step does to the adapters and the record.
LEMMA NextKnown ==
    ASSUME ClientInv, KnownRecorded, [Next]_vars
    PROVE  KnownRecorded' /\ ((~ReleaseNeedsInput /\ RecordsMatch) => RecordsMatch')
<1> DEFINE Goal == KnownRecorded' /\ ((~ReleaseNeedsInput /\ RecordsMatch) => RecordsMatch')
<1>1. ASSUME UNCHANGED engineVars PROVE Goal
  BY <1>1 DEF engineVars, KnownRecorded, RecordsMatch, Adapters
<1>2. Adapters \subseteq ClientIds
  BY DEF ClientInv, TypeOK
<1>3. ASSUME NEW p \in Procs, Connect(p) \/ ConnectUnwatched(p) PROVE Goal
  <2>1. PICK c : FindValidClientId(c) /\ trans' = AddAdapter(c) /\ UNCHANGED recorded
    BY <1>3 DEF Connect, ConnectUnwatched, InitEngine
  <2>2. c \notin Adapters
    BY <2>1 DEF FindValidClientId
  <2> QED BY <2>1, <2>2, AdapterAdded
<1>4. ASSUME NEW p \in Procs, call[p] # Idle
      PROVE  conn[p] \in Adapters /\ call[p].session \in Sessions
  BY <1>4, CallUnderWay
<1>5. ASSUME NEW p \in Procs, InvokeLoadAlgorithm(p) PROVE Goal
  <2>1. call[p] # Idle
    BY <1>5 DEF InvokeLoadAlgorithm, LoadAlgorithm, LoadAlgorithmFails, Idle
  <2>2. \/ UNCHANGED engineVars
        \/ /\ recorded' = recorded \cup {Tid(p, call[p].session)}
           /\ trans' = [trans EXCEPT ![conn[p]] = @ \cup {Tid(p, call[p].session)}]
    BY <1>5 DEF InvokeLoadAlgorithm, LoadAlgorithm, LoadAlgorithmFails
  <2> QED BY <1>1, <1>4, <2>1, <2>2, EngineAdded DEF Tid
<1>6. ASSUME NEW p \in Procs, InvokeUnloadAlgorithm(p) PROVE Goal
  <2>1. call[p] # Idle
    BY <1>6 DEF InvokeUnloadAlgorithm, UnloadAlgorithm, Idle
  <2>2. \/ UNCHANGED engineVars
        \/ /\ recorded' = recorded \ {Tid(p, call[p].session)}
           /\ trans' = [trans EXCEPT ![conn[p]] = @ \ {Tid(p, call[p].session)}]
    BY <1>6 DEF InvokeUnloadAlgorithm, UnloadAlgorithm, UnloadDone, UnloadFails
  <2> QED BY <1>1, <1>2, <1>4, <2>1, <2>2, EngineRemoved DEF Tid
<1>7. ASSUME NEW p \in Procs, InvokeDestroyEngine(p) PROVE Goal
  <2>1. /\ conn[p] # NoClient
        /\ recorded' = recorded \ StoppedByDestructor(conn[p])
        /\ trans' = [d \in Adapters \ {conn[p]} |-> trans[d]]
    BY <1>7 DEF InvokeDestroyEngine, Destroy
  <2>2. conn[p] \in Adapters
    BY <2>1 DEF ClientInv, IdsUnique
  <2> QED BY <1>2, <2>1, <2>2, AdapterRemoved
<1>8. ASSUME NEW p \in Procs, NEW s \in Sessions, Prepare(p, s) \/ Release(p, s) PROVE Goal
  BY <1>1, <1>8 DEF Prepare, Release
<1>9. ASSUME NEW p \in Procs, InvokeRegisterCallback(p) \/ InvokeUnregisterCallback(p) \/ Crash(p)
      PROVE  Goal
  BY <1>1, <1>9 DEF InvokeRegisterCallback, InvokeUnregisterCallback, RegisterCallback,
                    RegisterCallbackFails, UnregisterCallback, Crash
<1>10. CASE UNCHANGED vars
  BY <1>1, <1>10 DEF vars, engineVars
<1> QED
  BY <1>3, <1>5, <1>6, <1>7, <1>8, <1>9, <1>10 DEF Next, Invoke

\* An adapter knows only its own transactions and every one of them has an
\* engine; when the plugins' Release takes an empty input, as the destructor of
\* the adapter passes, the record holds nothing else, whatever load or release
\* has failed (SaveTransaction, RemoveTransaction, SaServerAdapter::Uninitialize).
THEOREM EnginesFound == Spec => [](KnownRecorded /\ (~ReleaseNeedsInput => RecordsMatch))
<1>1. RecordInv /\ [Next]_vars => RecordInv'
  BY NextKnown, NextClients DEF RecordInv
<1>2. RecordInv => KnownRecorded /\ (~ReleaseNeedsInput => RecordsMatch)
  BY DEF RecordInv
<1> QED
  BY <1>1, <1>2, InitRecords, PTL DEF Spec

-------------------------------------------------------------------------------
(* ReadyInv is inductive, for applications that release before they destroy. *)

\* A step of p leaves the other processes alone.
Others(p) ==
    \A q \in Procs \ {p} :
        conn'[q] = conn[q] /\ state'[q] = state[q] /\ cbs'[q] = cbs[q] /\ call'[q] = call[q]

\* What is known of a process in every state of ReadyInv, in the form the steps use.
LEMMA ProcessFacts ==
    ASSUME ReadyInv, NEW p \in Procs
    PROVE  /\ conn[p] \in ClientIds \cup {NoClient}
           /\ state[p] \in [Sessions -> {"new", "ready", "stuck"}]
           /\ cbs[p] \subseteq AsyncSessions
           /\ call[p] \in Calls \cup {Idle}
           /\ call[p] # Idle => /\ call[p].session \in Sessions
                                /\ call[p].msg \in {"register", "load", "unregister", "unload"}
                                /\ conn[p] \in ClientIds /\ conn[p] # NoClient
           /\ call[p] = Idle => call[p].msg = "none" /\ call[p].session = -1
           /\ \A q \in Procs \ {p} : conn[p] # NoClient => conn[q] # conn[p]
           /\ conn[p] = NoClient => \A s \in Sessions : state[p][s] = "new"
           /\ conn[p] # NoClient => conn[p] \in Adapters /\ conn[p] \in ClientIds
<1> USE DEF ReadyInv, ClientInv
<1>1. /\ conn[p] \in ClientIds \cup {NoClient}
      /\ state[p] \in [Sessions -> {"new", "ready", "stuck"}]
      /\ cbs[p] \subseteq AsyncSessions
      /\ call[p] \in Calls \cup {Idle}
  BY DEF TypeOK
<1>2. call[p] = Idle => call[p].msg = "none" /\ call[p].session = -1
  BY DEF Idle
<1>3. call[p] # Idle => /\ call[p].session \in Sessions
                        /\ call[p].msg \in {"register", "load", "unregister", "unload"}
  BY <1>1 DEF Calls
<1>4. conn[p] = NoClient => call[p] = Idle /\ \A s \in Sessions : state[p][s] = "new"
  BY DEF CallsConnected
<1>5. \A q \in Procs \ {p} : conn[p] # NoClient => conn[q] # conn[p]
  BY DEF IdsUnique
<1>6. conn[p] # NoClient => conn[p] \in Adapters
  BY DEF IdsUnique
<1> QED
  BY <1>1, <1>2, <1>3, <1>4, <1>5, <1>6

\* Prepared sessions keep what they have when nothing of theirs is removed.
LEMMA ReadyStays ==
    ASSUME ReadyInv, NEW p \in Procs, Others(p),
           conn'[p] = conn[p],
           recorded \subseteq recorded', listeners \subseteq listeners',
           \A s \in Sessions : state'[p][s] = "ready" => state[p][s] = "ready"
    PROVE  ReadyKept'
BY DEF ReadyInv, SessionsInv, ReadyKept, Others, Tid

\* Handlers of other processes are not touched by what changes for client c.
LEMMA HandlersStay ==
    ASSUME ReadyInv, NEW p \in Procs, Others(p), NEW c, conn[p] # NoClient, c = conn[p],
           \A d \in ClientIds \ {c} :
              handler'[d] = handler[d] /\ svc'[d] = svc[d] /\ (d \in dangling' <=> d \in dangling)
    PROVE  \A q \in Procs \ {p} : (conn'[q] # NoClient /\ cbs'[q] # {} /\ call'[q].msg # "register") =>
              handler'[conn'[q]] = "running" /\ conn'[q] \notin dangling' /\ svc'[conn'[q]] = q
<1> SUFFICES ASSUME NEW q \in Procs \ {p},
                    conn'[q] # NoClient, cbs'[q] # {}, call'[q].msg # "register"
             PROVE  handler'[conn'[q]] = "running" /\ conn'[q] \notin dangling' /\ svc'[conn'[q]] = q
  OBVIOUS
<1>1. conn'[q] = conn[q] /\ cbs'[q] = cbs[q] /\ call'[q] = call[q]
  BY DEF Others
<1>2. conn[q] \in ClientIds \ {c}
  BY <1>1, ProcessFacts
<1>3. handler[conn[q]] = "running" /\ conn[q] \notin dangling /\ svc[conn[q]] = q
  BY <1>1 DEF ReadyInv, SessionsInv, HandlersServe
<1> QED
  BY <1>1, <1>2, <1>3

\* The server starts with no process served.
LEMMA InitReady == Init => ReadyInv
<1> SUFFICES ASSUME Init PROVE ReadyInv
  OBVIOUS
<1>1. ClientInv /\ KnownRecorded
  BY InitClients, InitRecords DEF RecordInv
<1>2. CallsFit
  BY DEF Init, CallsFit
<1>3. CallbacksExact
  <2> SUFFICES ASSUME NEW p \in Procs
               PROVE  /\ cbs[p] = {s \in AsyncSessions :
                            \/ state[p][s] = "ready"
                            \/ call[p].session = s /\ call[p].msg \in {"register", "load"}}
                      /\ call[p].msg = "none"
    BY DEF CallbacksExact, Init
  <2>1. cbs[p] = {} /\ call[p] = Idle /\ state[p] = [s \in Sessions |-> "new"]
    BY DEF Init
  <2>2. call[p].msg = "none"
    BY <2>1 DEF Idle
  <2>3. \A s \in AsyncSessions : state[p][s] = "new"
    BY <2>1, ServerAssumption
  <2> QED BY <2>1, <2>2, <2>3
<1>4. HandlersServe /\ ReadyKept
  BY DEF Init, HandlersServe, ReadyKept
<1> QED
  BY <1>1, <1>2, <1>3, <1>4 DEF ReadyInv, SessionsInv

\* A process that connects has prepared nothing and has no callback.
LEMMA ConnectReady ==
    ASSUME ReadyInv, NEW p \in Procs, Connect(p) \/ ConnectUnwatched(p)
    PROVE  SessionsInv'
<1>1. conn[p] = NoClient /\ UNCHANGED <<state, cbs, call, recorded, listeners, handler, dangling, svc>>
  BY DEF Connect, ConnectUnwatched, clientVars, asyncVars
<1>2. \A q \in Procs \ {p} : conn'[q] = conn[q]
  BY DEF Connect, ConnectUnwatched, clientVars, ReadyInv, ClientInv, TypeOK
<1>3. CallsFit' /\ CallbacksExact'
  BY <1>1 DEF ReadyInv, SessionsInv, CallsFit, CallbacksExact
<1>4. call[p] = Idle /\ \A s \in Sessions : state[p][s] = "new"
  BY <1>1 DEF ReadyInv, ClientInv, CallsConnected
<1>5. cbs[p] = {}
  <2>1. call[p].msg = "none" /\ \A s \in AsyncSessions : state[p][s] = "new"
    BY <1>4, ServerAssumption DEF Idle
  <2>2. \A s \in cbs[p] : s \in AsyncSessions /\ (state[p][s] = "ready" \/ call[p].msg \in {"register", "load"})
    BY DEF ReadyInv, SessionsInv, CallbacksExact
  <2> QED BY <2>1, <2>2
<1>6. HandlersServe'
  BY <1>1, <1>2, <1>5 DEF ReadyInv, SessionsInv, HandlersServe
<1>7. ReadyKept'
  BY <1>1, <1>2, <1>4 DEF ReadyInv, SessionsInv, ReadyKept, Tid
<1> QED
  BY <1>3, <1>6, <1>7 DEF SessionsInv

\* ClientPrepare begins: the first callback is still to be registered, another
\* one finds the handler of the first.
LEMMA PrepareReady ==
    ASSUME ReadyInv, NEW p \in Procs, NEW s \in Sessions, Prepare(p, s)
    PROVE  SessionsInv'
<1> DEFINE m == IF s \in AsyncSessions /\ FirstCallback(p, s) THEN "register" ELSE "load"
<1>1. call' = [call EXCEPT ![p] = [msg |-> m, session |-> s]]
  BY DEF Prepare, Send, RegisterCallbackProxy, LoadAlgorithmProxy
<1>2. cbs' = [cbs EXCEPT ![p] = IF s \in AsyncSessions THEN @ \cup {s} ELSE @]
  BY DEF Prepare, ReadyInv, ClientInv, TypeOK
<1>3. /\ conn[p] # NoClient /\ call[p] = Idle /\ state[p][s] = "new"
      /\ UNCHANGED <<conn, state, recorded, listeners, handler, dangling, svc>>
  BY DEF Prepare, engineVars, asyncVars
<1>4. /\ call'[p] = [msg |-> m, session |-> s] /\ call'[p] # Idle
      /\ cbs'[p] = IF s \in AsyncSessions THEN cbs[p] \cup {s} ELSE cbs[p]
      /\ Others(p)
  BY <1>1, <1>2, <1>3 DEF Others, ReadyInv, ClientInv, TypeOK, Idle
<1>5. CallsFit'
  BY <1>3, <1>4 DEF ReadyInv, SessionsInv, CallsFit, Others
<1>6. cbs[p] = {u \in AsyncSessions : state[p][u] = "ready"}
  BY <1>3 DEF ReadyInv, SessionsInv, CallbacksExact, Idle
<1>7. CallbacksExact'
  <2>1. cbs'[p] = {u \in AsyncSessions : state'[p][u] = "ready" \/ (call'[p].session = u /\ call'[p].msg \in {"register", "load"})}
    BY <1>3, <1>4, <1>6
  <2>2. call'[p].msg = "register" => cbs'[p] = {call'[p].session}
    BY <1>4 DEF FirstCallback
  <2>3. call'[p].msg # "unregister"
    BY <1>4
  <2> QED BY <1>4, <2>1, <2>2, <2>3 DEF ReadyInv, SessionsInv, CallbacksExact, Others
<1>8. HandlersServe'
  <2>1. CASE m = "register"
    BY <1>3, <1>4, <2>1 DEF ReadyInv, SessionsInv, HandlersServe, Others
  <2>2. CASE m = "load"
    <3>1. cbs'[p] # {} => cbs[p] # {}
      BY <1>4, <2>2 DEF FirstCallback
    <3>2. call[p].msg # "register"
      BY <1>3 DEF Idle
    <3> QED BY <1>3, <1>4, <3>1, <3>2 DEF ReadyInv, SessionsInv, HandlersServe, Others
  <2> QED BY <2>1, <2>2
<1>9. ReadyKept'
  BY <1>3, <1>4, ReadyStays
<1> QED
  BY <1>5, <1>7, <1>8, <1>9 DEF SessionsInv

\* RegisterCallback starts the handler of the process, or gives the callback back.
LEMMA RegisterReady ==
    ASSUME ReadyInv, NEW p \in Procs, InvokeRegisterCallback(p)
    PROVE  SessionsInv'
<1> DEFINE c == conn[p]
           s == call[p].session
<1>1. /\ call[p].msg = "register" /\ UNCHANGED <<conn, state, recorded, listeners, dangling>>
      /\ svc' = [svc EXCEPT ![c] = p]
  BY DEF InvokeRegisterCallback, RegisterCallback, RegisterCallbackFails, engineVars
<1>2. /\ call[p] # Idle /\ c \in ClientIds /\ c # NoClient /\ s \in Sessions
      /\ state[p][s] = "new" /\ cbs[p] = {s} /\ s \in AsyncSessions
  <2>1. call[p] # Idle
    BY <1>1 DEF Idle
  <2> QED BY <1>1, <2>1, ProcessFacts DEF ReadyInv, SessionsInv, CallsFit, CallbacksExact
<1>3. svc'[c] = p /\ \A d \in ClientIds \ {c} : svc'[d] = svc[d] /\ handler'[d] = handler[d]
  BY <1>1, <1>2 DEF InvokeRegisterCallback, RegisterCallback, RegisterCallbackFails, ReadyInv,
                    ClientInv, TypeOK
<1>4. CASE RegisterCallback(p)
  <2>1. call' = [call EXCEPT ![p] = [msg |-> "load", session |-> s]] /\ UNCHANGED cbs
    BY <1>4 DEF RegisterCallback, LoadAlgorithmProxy, Send
  <2>2. call'[p] = [msg |-> "load", session |-> s] /\ Others(p)
    BY <1>1, <2>1 DEF Others, ReadyInv, ClientInv, TypeOK
  <2>3. CallsFit'
    BY <1>1, <1>2, <2>2 DEF ReadyInv, SessionsInv, CallsFit, Others
  <2>4. CallbacksExact'
    BY <1>1, <2>1, <2>2 DEF ReadyInv, SessionsInv, CallbacksExact, Others
  <2>5. handler[c] # "running" /\ handler'[c] = "running" /\ c \notin dangling
    BY <1>2, <1>4 DEF RegisterCallback, ReadyInv, ClientInv, TypeOK, SessionsInv, HandlersServe
  <2>6. HandlersServe'
    <3>1. \A d \in dangling' : handler'[d] = "running"
      BY <1>1, <1>3, <2>5 DEF ReadyInv, ClientInv, TypeOK, SessionsInv, HandlersServe
    <3> QED
      BY <1>1, <1>2, <1>3, <2>2, <2>5, <3>1, HandlersStay DEF HandlersServe
  <2>7. ReadyKept'
    BY <1>1, <2>2, ReadyStays
  <2> QED BY <2>3, <2>4, <2>6, <2>7 DEF SessionsInv
<1>5. CASE RegisterCallbackFails(p)
  <2>1. call' = [call EXCEPT ![p] = Idle] /\ cbs' = [cbs EXCEPT ![p] = @ \ {s}]
    BY <1>5 DEF RegisterCallbackFails, Return
  <2>2. call'[p] = Idle /\ cbs'[p] = {} /\ Others(p)
    BY <1>1, <1>2, <2>1 DEF Others, ReadyInv, ClientInv, TypeOK
  <2>3. CallsFit'
    BY <1>1, <2>2 DEF ReadyInv, SessionsInv, CallsFit, Others
  <2>4. CallbacksExact'
    <3>1. \A u \in AsyncSessions : state[p][u] = "ready" => u \in cbs[p]
      BY DEF ReadyInv, SessionsInv, CallbacksExact
    <3>2. \A u \in AsyncSessions : state'[p][u] # "ready"
      BY <1>1, <1>2, <3>1
    <3>3. call'[p].msg = "none"
      BY <2>2 DEF Idle
    <3>4. cbs'[p] = {u \in AsyncSessions : state'[p][u] = "ready" \/ (call'[p].session = u /\ call'[p].msg \in {"register", "load"})}
      BY <2>2, <3>2, <3>3
    <3> QED BY <1>1, <2>2, <3>3, <3>4 DEF ReadyInv, SessionsInv, CallbacksExact, Others
  <2>5. HandlersServe'
    <3>1. \A d \in dangling' : handler'[d] = "running"
      BY <1>1, <1>2, <1>3, <1>5 DEF RegisterCallbackFails, ReadyInv, ClientInv, TypeOK, SessionsInv, HandlersServe
    <3> QED
      BY <1>1, <1>2, <1>3, <2>2, <3>1, HandlersStay DEF HandlersServe
  <2>6. ReadyKept'
    BY <1>1, <2>2, ReadyStays
  <2> QED BY <2>3, <2>4, <2>5, <2>6 DEF SessionsInv
<1> QED
  BY <1>4, <1>5 DEF InvokeRegisterCallback

\* A load ends ClientPrepare: the session is ready, with an engine, and for an
\* asynchronous one with a listener and a handler; or its callback is taken back.
LEMMA LoadReady ==
    ASSUME ReadyInv, NEW p \in Procs, InvokeLoadAlgorithm(p)
    PROVE  SessionsInv'
<1> DEFINE c == conn[p]
           s == call[p].session
<1>1. /\ call[p].msg = "load" /\ UNCHANGED <<conn, handler, dangling, svc>>
      /\ call' = [call EXCEPT ![p] = Idle]
      /\ recorded \subseteq recorded' /\ listeners \subseteq listeners'
  BY DEF InvokeLoadAlgorithm, LoadAlgorithm, LoadAlgorithmFails, engineVars, asyncVars, Return
<1>2. /\ call[p] # Idle /\ c \in ClientIds /\ c # NoClient /\ s \in Sessions
      /\ state[p][s] = "new" /\ (s \in AsyncSessions => s \in cbs[p])
  <2>1. call[p] # Idle
    BY <1>1 DEF Idle
  <2> QED BY <1>1, <2>1, ProcessFacts DEF ReadyInv, SessionsInv, CallsFit, CallbacksExact
<1>3. cbs[p] = {u \in AsyncSessions : state[p][u] = "ready" \/ u = s}
  BY <1>1 DEF ReadyInv, SessionsInv, CallbacksExact
<1>4. call'[p] = Idle /\ call'[p].msg = "none"
  BY <1>1 DEF ReadyInv, ClientInv, TypeOK, Idle
<1>5. CASE LoadAlgorithm(p)
  <2>1. /\ state' = [state EXCEPT ![p][s] = "ready"] /\ UNCHANGED cbs
        /\ Tid(p, s) \in recorded' /\ (s \in AsyncSessions => Tid(p, s) \in listeners')
    BY <1>5 DEF LoadAlgorithm, Becomes
  <2>2. /\ state'[p] = [state[p] EXCEPT ![s] = "ready"]
        /\ \A q \in Procs \ {p} : state'[q] = state[q]
    BY <2>1 DEF ReadyInv, ClientInv, TypeOK
  <2>3. state'[p][s] = "ready" /\ \A u \in Sessions \ {s} : state'[p][u] = state[p][u]
    BY <1>2, <2>2, ProcessFacts
  <2>4. Others(p)
    BY <1>1, <2>1, <2>2 DEF Others, ReadyInv, ClientInv, TypeOK
  <2>5. CallsFit'
    BY <1>4, <2>4 DEF ReadyInv, SessionsInv, CallsFit, Others
  <2>6. CallbacksExact'
    <3>1. \A u \in AsyncSessions : state'[p][u] = "ready" <=> (state[p][u] = "ready" \/ u = s)
      BY <2>3, ServerAssumption
    <3>2. cbs'[p] = {u \in AsyncSessions : state'[p][u] = "ready" \/ (call'[p].session = u /\ call'[p].msg \in {"register", "load"})}
      BY <1>3, <1>4, <2>1, <3>1
    <3> QED BY <1>4, <2>4, <3>2 DEF ReadyInv, SessionsInv, CallbacksExact, Others
  <2>7. HandlersServe'
    BY <1>1, <1>2, <2>1, <2>4 DEF ReadyInv, SessionsInv, HandlersServe, Others
  <2>8. ReadyKept'
    BY <1>1, <2>1, <2>3, <2>4 DEF ReadyInv, SessionsInv, ReadyKept, Others, Tid
  <2> QED BY <2>5, <2>6, <2>7, <2>8 DEF SessionsInv
<1>6. CASE LoadAlgorithmFails(p)
  <2>1. UNCHANGED state /\ cbs' = [cbs EXCEPT ![p] = @ \ {s}]
    BY <1>6 DEF LoadAlgorithmFails
  <2>2. cbs'[p] = cbs[p] \ {s} /\ Others(p)
    BY <1>1, <2>1 DEF Others, ReadyInv, ClientInv, TypeOK
  <2>3. CallsFit'
    BY <1>4, <2>2 DEF ReadyInv, SessionsInv, CallsFit, Others
  <2>4. CallbacksExact'
    <3>1. cbs'[p] = {u \in AsyncSessions : state'[p][u] = "ready" \/ (call'[p].session = u /\ call'[p].msg \in {"register", "load"})}
      BY <1>2, <1>3, <1>4, <2>1, <2>2
    <3> QED BY <1>4, <2>2, <3>1 DEF ReadyInv, SessionsInv, CallbacksExact, Others
  <2>5. HandlersServe'
    BY <1>1, <1>2, <2>2 DEF ReadyInv, SessionsInv, HandlersServe, Others
  <2>6. ReadyKept'
    BY <1>1, <2>1, <2>2, ReadyStays
  <2> QED BY <2>3, <2>4, <2>5, <2>6 DEF SessionsInv
<1> QED
  BY <1>5, <1>6 DEF InvokeLoadAlgorithm

\* ClientRelease begins: the session is not ready any more, and the handler is
\* only to go when no callback is left.
LEMMA ReleaseReady ==
    ASSUME ReadyInv, NEW p \in Procs, NEW s \in Sessions, Release(p, s)
    PROVE  SessionsInv'
<1> DEFINE m == IF s \in AsyncSessions /\ LastCallback(p, s) THEN "unregister" ELSE "unload"
<1>1. /\ call[p] = Idle /\ UNCHANGED <<conn, recorded, listeners, handler, dangling, svc>>
      /\ call' = [call EXCEPT ![p] = [msg |-> m, session |-> s]]
      /\ state' = [state EXCEPT ![p][s] = "stuck"]
  BY DEF Release, Send, UnregisterCallbackProxy, UnloadAlgorithmProxy, Becomes, engineVars, asyncVars
<1>2. cbs' = [cbs EXCEPT ![p] = IF s \in AsyncSessions THEN @ \ {s} ELSE @]
  BY DEF Release, ReadyInv, ClientInv, TypeOK
<1>3. /\ state'[p] = [state[p] EXCEPT ![s] = "stuck"]
      /\ \A q \in Procs \ {p} : state'[q] = state[q]
  BY <1>1 DEF ReadyInv, ClientInv, TypeOK
<1>4. state'[p][s] = "stuck" /\ \A u \in Sessions \ {s} : state'[p][u] = state[p][u]
  BY <1>3, ProcessFacts
<1>5. /\ call'[p] = [msg |-> m, session |-> s]
      /\ cbs'[p] = IF s \in AsyncSessions THEN cbs[p] \ {s} ELSE cbs[p]
      /\ Others(p)
  BY <1>1, <1>2, <1>3 DEF Others, ReadyInv, ClientInv, TypeOK
<1>6. CallsFit'
  BY <1>4, <1>5 DEF ReadyInv, SessionsInv, CallsFit, Others
<1>7. cbs[p] = {u \in AsyncSessions : state[p][u] = "ready"}
  BY <1>1 DEF ReadyInv, SessionsInv, CallbacksExact, Idle
<1>8. CallbacksExact'
  <2>1. \A u \in AsyncSessions : state'[p][u] = "ready" <=> (state[p][u] = "ready" /\ u # s)
    BY <1>4, ServerAssumption
  <2>2. cbs'[p] = {u \in AsyncSessions : state'[p][u] = "ready" \/ (call'[p].session = u /\ call'[p].msg \in {"register", "load"})}
    BY <1>5, <1>7, <2>1
  <2>3. call'[p].msg # "register" /\ (call'[p].msg = "unregister" => cbs'[p] = {})
    BY <1>5 DEF LastCallback
  <2> QED BY <1>5, <2>2, <2>3 DEF ReadyInv, SessionsInv, CallbacksExact, Others
<1>9. HandlersServe'
  <2>1. call[p].msg # "register" /\ (cbs'[p] # {} => cbs[p] # {})
    BY <1>1, <1>5 DEF Idle
  <2> QED BY <1>1, <1>5, <2>1 DEF ReadyInv, SessionsInv, HandlersServe, Others
<1>10. ReadyKept'
  BY <1>1, <1>4, <1>5, ReadyStays
<1> QED
  BY <1>6, <1>8, <1>9, <1>10 DEF SessionsInv

\* UnregisterCallback stops the handler of a process without callbacks.
LEMMA UnregisterReady ==
    ASSUME ReadyInv, NEW p \in Procs, InvokeUnregisterCallback(p)
    PROVE  SessionsInv'
<1> DEFINE c == conn[p]
           s == call[p].session
<1>1. /\ call[p].msg = "unregister" /\ UNCHANGED <<conn, state, cbs, recorded, listeners, svc>>
      /\ handler' = [handler EXCEPT ![c] = "none"] /\ dangling' = dangling \ {c}
      /\ call' = [call EXCEPT ![p] = [msg |-> "unload", session |-> s]]
  BY DEF InvokeUnregisterCallback, UnregisterCallback, UnloadAlgorithmProxy, Send, engineVars
<1>2. /\ call[p] # Idle /\ c \in ClientIds /\ c # NoClient /\ s \in Sessions
      /\ state[p][s] = "stuck" /\ cbs[p] = {}
  <2>1. call[p] # Idle
    BY <1>1 DEF Idle
  <2> QED BY <1>1, <2>1, ProcessFacts DEF ReadyInv, SessionsInv, CallsFit, CallbacksExact
<1>3. call'[p] = [msg |-> "unload", session |-> s] /\ Others(p)
  BY <1>1 DEF Others, ReadyInv, ClientInv, TypeOK
<1>4. CallsFit'
  BY <1>1, <1>2, <1>3 DEF ReadyInv, SessionsInv, CallsFit, Others
<1>5. CallbacksExact'
  <2>1. cbs[p] = {u \in AsyncSessions : state[p][u] = "ready"}
    BY <1>1 DEF ReadyInv, SessionsInv, CallbacksExact
  <2>2. cbs'[p] = {u \in AsyncSessions : state'[p][u] = "ready" \/ (call'[p].session = u /\ call'[p].msg \in {"register", "load"})}
    BY <1>1, <1>3, <2>1
  <2> QED BY <1>3, <2>2 DEF ReadyInv, SessionsInv, CallbacksExact, Others
<1>6. \A d \in ClientIds \ {c} : handler'[d] = handler[d]
  BY <1>1, <1>2 DEF ReadyInv, ClientInv, TypeOK
<1>7. HandlersServe'
  <2>1. \A d \in dangling' : handler'[d] = "running"
    BY <1>1, <1>6 DEF ReadyInv, ClientInv, TypeOK, SessionsInv, HandlersServe
  <2> QED
    BY <1>1, <1>2, <1>3, <1>6, <2>1, HandlersStay DEF HandlersServe
<1>8. ReadyKept'
  BY <1>1, <1>3, ReadyStays
<1> QED
  BY <1>4, <1>5, <1>7, <1>8 DEF SessionsInv

\* UnloadAlgorithm takes the engine and the listener of a session that is not
\* ready any more, and of no other.
LEMMA UnloadReady ==
    ASSUME ReadyInv, NEW p \in Procs, InvokeUnloadAlgorithm(p)
    PROVE  SessionsInv'
<1> DEFINE c == conn[p]
           s == call[p].session
<1>1. /\ call[p].msg = "unload" /\ UNCHANGED <<conn, cbs, handler, dangling, svc>>
      /\ call' = [call EXCEPT ![p] = Idle]
      /\ listeners' = listeners \ {Tid(p, s)}
      /\ recorded \ {Tid(p, s)} \subseteq recorded'
      /\ state' = state \/ state' = [state EXCEPT ![p][s] = "new"]
  BY DEF InvokeUnloadAlgorithm, UnloadAlgorithm, UnloadDone, UnloadFails, Becomes, Return, engineVars
<1>2. /\ call[p] # Idle /\ c \in ClientIds /\ c # NoClient /\ s \in Sessions
      /\ state[p][s] = "stuck"
  <2>1. call[p] # Idle
    BY <1>1 DEF Idle
  <2> QED BY <1>1, <2>1, ProcessFacts DEF ReadyInv, SessionsInv, CallsFit
<1>3. /\ state'[p] = state[p] \/ state'[p] = [state[p] EXCEPT ![s] = "new"]
      /\ \A q \in Procs \ {p} : state'[q] = state[q]
  BY <1>1 DEF ReadyInv, ClientInv, TypeOK
<1>4. state'[p][s] # "ready" /\ \A u \in Sessions \ {s} : state'[p][u] = state[p][u]
  BY <1>2, <1>3, ProcessFacts
<1>5. call'[p] = Idle /\ call'[p].msg = "none" /\ Others(p)
  BY <1>1, <1>3 DEF Others, ReadyInv, ClientInv, TypeOK, Idle
<1>6. CallsFit'
  BY <1>5 DEF ReadyInv, SessionsInv, CallsFit, Others
<1>7. CallbacksExact'
  <2>1. cbs[p] = {u \in AsyncSessions : state[p][u] = "ready"}
    BY <1>1 DEF ReadyInv, SessionsInv, CallbacksExact
  <2>2. \A u \in AsyncSessions : state'[p][u] = "ready" <=> state[p][u] = "ready"
    BY <1>2, <1>4, ServerAssumption
  <2>3. cbs'[p] = {u \in AsyncSessions : state'[p][u] = "ready" \/ (call'[p].session = u /\ call'[p].msg \in {"register", "load"})}
    BY <1>1, <1>5, <2>1, <2>2
  <2> QED BY <1>5, <2>3 DEF ReadyInv, SessionsInv, CallbacksExact, Others
<1>8. HandlersServe'
  BY <1>1, <1>5 DEF ReadyInv, SessionsInv, HandlersServe, Others
<1>9. ReadyKept'
  <2> SUFFICES ASSUME NEW q \in Procs, NEW u \in Sessions, state'[q][u] = "ready"
               PROVE  Tid(q, u)' \in recorded' /\ (u \in AsyncSessions => Tid(q, u)' \in listeners')
    BY DEF ReadyKept
  <2>1. state[q][u] = "ready" /\ Tid(q, u)' = Tid(q, u)
    BY <1>1, <1>4, <1>5 DEF Others, Tid
  <2>2. Tid(q, u) \in recorded /\ (u \in AsyncSessions => Tid(q, u) \in listeners)
    BY <2>1 DEF ReadyInv, SessionsInv, ReadyKept
  <2>3. conn[q] \in ClientIds
    BY <2>1, ProcessFacts
  <2>4. Tid(q, u) # Tid(p, s)
    <3> SUFFICES ASSUME Tid(q, u) = Tid(p, s) PROVE FALSE
      OBVIOUS
    <3>1. conn[q] = conn[p] /\ u = s
      BY <1>2, <2>3, TransactionsApart DEF Tid
    <3>2. q = p
      BY <1>2, <3>1, ProcessFacts
    <3> QED BY <1>2, <2>1, <3>1, <3>2
  <2> QED BY <1>1, <2>1, <2>2, <2>4
<1> QED
  BY <1>6, <1>7, <1>8, <1>9 DEF SessionsInv

\* A process that leaves, by ClientDestroy or by dying, takes nothing of others.
LEMMA LeavingKeeps ==
    ASSUME ReadyInv, NEW p \in Procs, Others(p), conn[p] # NoClient,
           recorded \ trans[conn[p]] \subseteq recorded', UNCHANGED listeners,
           \A s \in Sessions : state'[p][s] = "new"
    PROVE  ReadyKept'
<1> SUFFICES ASSUME NEW q \in Procs, NEW u \in Sessions, state'[q][u] = "ready"
             PROVE  Tid(q, u)' \in recorded' /\ (u \in AsyncSessions => Tid(q, u)' \in listeners')
  BY DEF ReadyKept
<1>1. q # p
  OBVIOUS
<1>2. state[q][u] = "ready" /\ Tid(q, u)' = Tid(q, u)
  BY <1>1 DEF Others, Tid
<1>3. Tid(q, u) \in recorded /\ (u \in AsyncSessions => Tid(q, u) \in listeners)
  BY <1>2 DEF ReadyInv, SessionsInv, ReadyKept
<1>4. conn[q] \in ClientIds /\ conn[p] \in ClientIds /\ conn[p] \in Adapters /\ conn[q] # conn[p]
  BY <1>1, <1>2, ProcessFacts
<1>5. Tid(q, u) \notin trans[conn[p]]
  BY <1>4, TransactionsApart DEF ReadyInv, KnownRecorded, Tid
<1> QED
  BY <1>2, <1>3, <1>5

\* ClientDestroy of a process that has released its sessions leaves no callback.
LEMMA DestroyReady ==
    ASSUME ReadyInv, "norelease" \notin Faults, NEW p \in Procs, InvokeDestroyEngine(p)
    PROVE  SessionsInv'
<1> DEFINE c == conn[p]
<1>1. /\ c # NoClient /\ call[p] = Idle /\ \A s \in Sessions : state[p][s] # "ready"
      /\ UNCHANGED <<cbs, call, listeners, handler>>
      /\ recorded' = recorded \ StoppedByDestructor(c)
      /\ dangling' = IF handler[c] = "running" THEN dangling \cup {c} ELSE dangling
      /\ svc' = [svc EXCEPT ![c] = NoProc]
      /\ conn' = [conn EXCEPT ![p] = NoClient]
      /\ state' = [state EXCEPT ![p] = [s \in Sessions |-> "new"]]
  BY DEF InvokeDestroyEngine, Destroy
<1>2. conn'[p] = NoClient /\ state'[p] = [s \in Sessions |-> "new"] /\ Others(p) /\ c \in ClientIds
  BY <1>1, ProcessFacts DEF Others, ReadyInv, ClientInv, TypeOK
<1>3. CallsFit'
  BY <1>1, <1>2 DEF ReadyInv, SessionsInv, CallsFit, Others
<1>4. CallbacksExact'
  <2>1. call[p].msg = "none" /\ call'[p].msg = "none"
    BY <1>1 DEF Idle
  <2>2. cbs[p] = {u \in AsyncSessions : state[p][u] = "ready"}
    BY <2>1 DEF ReadyInv, SessionsInv, CallbacksExact
  <2>3. \A u \in AsyncSessions : state[p][u] # "ready" /\ state'[p][u] = "new"
    BY <1>1, <1>2, ServerAssumption
  <2>4. cbs'[p] = {u \in AsyncSessions : state'[p][u] = "ready" \/ (call'[p].session = u /\ call'[p].msg \in {"register", "load"})}
    BY <1>1, <2>1, <2>2, <2>3
  <2> QED BY <1>2, <2>1, <2>4 DEF ReadyInv, SessionsInv, CallbacksExact, Others
<1>5. \A d \in ClientIds \ {c} : svc'[d] = svc[d] /\ (d \in dangling' <=> d \in dangling)
  BY <1>1 DEF ReadyInv, ClientInv, TypeOK
<1>6. HandlersServe'
  <2>1. \A d \in dangling' : handler'[d] = "running"
    BY <1>1 DEF ReadyInv, SessionsInv, HandlersServe
  <2> QED
    BY <1>1, <1>2, <1>5, <2>1, HandlersStay DEF HandlersServe
<1>7. ReadyKept'
  <2>1. StoppedByDestructor(c) \subseteq trans[c]
    BY DEF StoppedByDestructor
  <2> QED
    BY <1>1, <1>2, <2>1, LeavingKeeps
<1> QED
  BY <1>3, <1>4, <1>6, <1>7 DEF SessionsInv

\* A process that died has no callback and no call when it comes back.
LEMMA CrashReady ==
    ASSUME ReadyInv, NEW p \in Procs, Crash(p)
    PROVE  SessionsInv'
<1>1. /\ conn[p] # NoClient /\ UNCHANGED <<recorded, listeners, handler, dangling, svc>>
      /\ conn' = [conn EXCEPT ![p] = NoClient]
      /\ state' = [state EXCEPT ![p] = [s \in Sessions |-> "new"]]
      /\ cbs' = [cbs EXCEPT ![p] = {}]
      /\ call' = [call EXCEPT ![p] = Idle]
  BY DEF Crash, Return, engineVars, asyncVars
<1>2. /\ conn'[p] = NoClient /\ state'[p] = [s \in Sessions |-> "new"]
      /\ cbs'[p] = {} /\ call'[p] = Idle /\ call'[p].msg = "none" /\ Others(p)
  BY <1>1 DEF Others, ReadyInv, ClientInv, TypeOK, Idle
<1>3. CallsFit'
  BY <1>2 DEF ReadyInv, SessionsInv, CallsFit, Others
<1>4. CallbacksExact'
  <2>1. \A u \in AsyncSessions : state'[p][u] = "new"
    BY <1>2, ServerAssumption
  <2>2. cbs'[p] = {u \in AsyncSessions : state'[p][u] = "ready" \/ (call'[p].session = u /\ call'[p].msg \in {"register", "load"})}
    BY <1>2, <2>1
  <2> QED BY <1>2, <2>2 DEF ReadyInv, SessionsInv, CallbacksExact, Others
<1>5. HandlersServe'
  BY <1>1, <1>2 DEF ReadyInv, SessionsInv, HandlersServe, Others
<1>6. ReadyKept'
  BY <1>1, <1>2, LeavingKeeps
<1> QED
  BY <1>3, <1>4, <1>5, <1>6 DEF SessionsInv

\* Every step keeps ReadyInv when no process is destroyed before it releases.
LEMMA NextReady ==
    ASSUME "norelease" \notin Faults
    PROVE  ReadyInv /\ [Next]_vars => ReadyInv'
<1> SUFFICES ASSUME ReadyInv, [Next]_vars PROVE ReadyInv'
  OBVIOUS
<1>1. ClientInv' /\ KnownRecorded'
  BY NextClients, NextKnown DEF ReadyInv
<1>2. SessionsInv'
  <2>1. CASE UNCHANGED vars
    BY <2>1 DEF vars, ReadyInv, SessionsInv, CallsFit, CallbacksExact, HandlersServe, ReadyKept, Tid
  <2>2. ASSUME NEW p \in Procs, Invoke(p) PROVE SessionsInv'
    BY <2>2, RegisterReady, LoadReady, UnregisterReady, UnloadReady, DestroyReady DEF Invoke
  <2>3. ASSUME NEW p \in Procs, NEW s \in Sessions, Prepare(p, s) \/ Release(p, s)
        PROVE  SessionsInv'
    BY <2>3, PrepareReady, ReleaseReady
  <2>4. ASSUME NEW p \in Procs, Connect(p) \/ ConnectUnwatched(p) \/ Crash(p)
        PROVE  SessionsInv'
    BY <2>4, ConnectReady, CrashReady
  <2> QED
    BY <2>1, <2>2, <2>3, <2>4 DEF Next
<1> QED
  BY <1>1, <1>2 DEF ReadyInv

\* What ReadyInv says of a prepared session is what its client expects.
LEMMA ReadyImpliesServed == ReadyInv => ReadyServed
<1> SUFFICES ASSUME ReadyInv, NEW p \in Procs, NEW s \in Sessions, state[p][s] = "ready"
             PROVE  /\ Tid(p, s) \in recorded
                    /\ s \in AsyncSessions => Route(Tid(p, s)) = <<p, s>>
  BY DEF ReadyServed
<1>1. Tid(p, s) \in recorded /\ (s \in AsyncSessions => Tid(p, s) \in listeners)
  BY DEF ReadyInv, SessionsInv, ReadyKept
<1>2. conn[p] \in ClientIds /\ conn[p] # NoClient /\ s \in 0 .. MaxInt
  BY ProcessFacts, ServerAssumption
<1>3. Tid(p, s) \div IdMod = conn[p] /\ GetSessionId(Tid(p, s)) = s
  BY <1>2, TransactionIdDecodes DEF Tid
<1>4. ASSUME s \in AsyncSessions PROVE Route(Tid(p, s)) = <<p, s>>
  <2>1. s \in cbs[p]
    BY <1>4 DEF ReadyInv, SessionsInv, CallbacksExact
  <2>2. call[p].msg # "register"
    <3> SUFFICES ASSUME call[p].msg = "register" PROVE FALSE
      OBVIOUS
    <3>1. call[p] # Idle /\ s = call[p].session
      BY <2>1 DEF ReadyInv, SessionsInv, CallbacksExact, Idle
    <3> QED BY <3>1 DEF ReadyInv, SessionsInv, CallsFit
  <2>3. handler[conn[p]] = "running" /\ conn[p] \notin dangling /\ svc[conn[p]] = p
    BY <1>2, <2>1, <2>2 DEF ReadyInv, SessionsInv, HandlersServe
  <2> QED
    BY <1>1, <1>3, <1>4, <2>3 DEF Route
<1> QED
  BY <1>1, <1>4

\* A prepared session keeps its engine, and its results reach that session of
\* that process, for any number of processes and sessions and whatever fails or
\* crashes, as long as applications release before they destroy: the handler is
\* registered with the first callback and removed with the last (GetAsyncCbSize,
\* IsCallbackEmpty), and client ids in use are skipped.
THEOREM PreparedServed ==
    ASSUME "norelease" \notin Faults
    PROVE  Spec => []ReadyServed
BY InitReady, NextReady, ReadyImpliesServed, PTL DEF Spec
===============================================================================
