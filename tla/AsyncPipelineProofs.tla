-------------------------- MODULE AsyncPipelineProofs --------------------------
(***************************************************************************)
(* For any sessions, requests and capacities, and whatever loads and sends *)
(* fail: no result is lost, doubled or overtaken between SendRequest and   *)
(* OnResult, nothing is used after it was freed, and the server has a      *)
(* handler exactly while the client has a callback.                        *)
(***************************************************************************)
EXTENDS AsyncPipeline, TLAPS

-------------------------------------------------------------------------------
(* Sequences of requests and the order of acceptance. *)

\* Taking the first element leaves the others.
LEMMA TakeFirst ==
    ASSUME NEW S, NEW s \in Seq(S), s # << >>
    PROVE  /\ Head(s) \in S /\ Tail(s) \in Seq(S)
           /\ ToSet(s) = {Head(s)} \cup ToSet(Tail(s))
<1>1. /\ Tail(s) \in Seq(S) /\ Head(s) = s[1] /\ 1 \in DOMAIN s /\ Head(s) \in S
      /\ \A i \in DOMAIN Tail(s) : i + 1 \in DOMAIN s /\ Tail(s)[i] = s[i + 1]
      /\ \A i \in DOMAIN s : i = 1 \/ (i - 1 \in DOMAIN Tail(s) /\ Tail(s)[i - 1] = s[i])
  OBVIOUS
<1>2. ToSet(s) \subseteq {Head(s)} \cup ToSet(Tail(s))
  BY <1>1 DEF ToSet
<1>3. {Head(s)} \cup ToSet(Tail(s)) \subseteq ToSet(s)
  BY <1>1 DEF ToSet
<1> QED
  BY <1>1, <1>2, <1>3

\* Adding an element at the end.
LEMMA AddLast ==
    ASSUME NEW S, NEW s \in Seq(S), NEW x \in S
    PROVE  Append(s, x) \in Seq(S) /\ ToSet(Append(s, x)) = ToSet(s) \cup {x}
<1>1. /\ Append(s, x) \in Seq(S) /\ Len(s) \in Nat
      /\ DOMAIN s = 1 .. Len(s) /\ DOMAIN Append(s, x) = 1 .. Len(s) + 1
      /\ Append(s, x)[Len(s) + 1] = x
      /\ \A i \in DOMAIN s : Append(s, x)[i] = s[i]
  OBVIOUS
<1>2. /\ \A i \in DOMAIN Append(s, x) : i = Len(s) + 1 \/ i \in DOMAIN s
      /\ Len(s) + 1 \in DOMAIN Append(s, x) /\ DOMAIN s \subseteq DOMAIN Append(s, x)
  BY <1>1
<1>3. ToSet(Append(s, x)) \subseteq ToSet(s) \cup {x}
  BY <1>1, <1>2, Zenon DEF ToSet
<1>4. ToSet(s) \subseteq ToSet(Append(s, x)) /\ x \in ToSet(Append(s, x))
  BY <1>1, <1>2, Zenon DEF ToSet
<1> QED
  BY <1>1, <1>3, <1>4

\* Elements of a sequence, and the empty one.
LEMMA SetOfSequence ==
    ASSUME NEW S, NEW s \in Seq(S)
    PROVE  ToSet(s) \subseteq S /\ (ToSet(s) = {} <=> s = << >>)
<1>1. s # << >> => 1 \in DOMAIN s
  OBVIOUS
<1>2. \A i \in DOMAIN s : s[i] \in S
  OBVIOUS
<1>3. ToSet(s) \subseteq S
  BY <1>2 DEF ToSet
<1>4. s # << >> => ToSet(s) # {}
  BY <1>1 DEF ToSet
<1>5. s = << >> => ToSet(s) = {}
  BY DEF ToSet
<1> QED
  BY <1>3, <1>4, <1>5

\* The first of an ordered sequence comes before the others, which stay ordered.
LEMMA FirstInOrder ==
    ASSUME NEW S, NEW s \in Seq(S), s # << >>, InOrder(s)
    PROVE  InOrder(Tail(s)) /\ Ahead({Head(s)}, ToSet(Tail(s)))
<1>1. /\ Head(s) = s[1] /\ 1 \in DOMAIN s
      /\ \A i \in DOMAIN Tail(s) :
            i \in Nat /\ 1 < i + 1 /\ i + 1 \in DOMAIN s /\ Tail(s)[i] = s[i + 1]
  OBVIOUS
<1>2. InOrder(Tail(s))
  <2> SUFFICES ASSUME NEW i \in DOMAIN Tail(s), NEW j \in DOMAIN Tail(s), i < j
               PROVE  AcceptedBefore(Tail(s)[i], Tail(s)[j])
    BY DEF InOrder
  <2>1. i + 1 < j + 1
    BY <1>1
  <2> QED
    BY <1>1, <2>1 DEF InOrder
<1>3. \A i \in DOMAIN Tail(s) : AcceptedBefore(s[1], s[i + 1])
  BY <1>1 DEF InOrder
<1>4. Ahead({Head(s)}, ToSet(Tail(s)))
  BY <1>1, <1>3 DEF Ahead, ToSet
<1> QED
  BY <1>2, <1>4

\* An ordered sequence stays so with a later request at its end.
LEMMA LastInOrder ==
    ASSUME NEW S, NEW s \in Seq(S), NEW x \in S, InOrder(s), Ahead(ToSet(s), {x})
    PROVE  InOrder(Append(s, x))
<1>1. /\ Len(s) \in Nat /\ DOMAIN s = 1 .. Len(s)
      /\ DOMAIN Append(s, x) = 1 .. Len(s) + 1 /\ Append(s, x)[Len(s) + 1] = x
      /\ \A i \in DOMAIN s : Append(s, x)[i] = s[i]
  OBVIOUS
<1> SUFFICES ASSUME NEW i \in DOMAIN Append(s, x), NEW j \in DOMAIN Append(s, x), i < j
             PROVE  AcceptedBefore(Append(s, x)[i], Append(s, x)[j])
  BY DEF InOrder
<1>2. i \in DOMAIN s /\ (j \in DOMAIN s \/ j = Len(s) + 1)
  BY <1>1
<1>3. AcceptedBefore(s[i], x)
  BY <1>2 DEF Ahead, ToSet
<1> QED
  BY <1>1, <1>2, <1>3 DEF InOrder

\* The order of acceptance is that of accepted: it stays while accepted does.
LEMMA OrderKept ==
    ASSUME accepted' = accepted
    PROVE  \A r, q : AcceptedBefore(r, q)' <=> AcceptedBefore(r, q)
BY DEF AcceptedBefore

\* A request that is accepted comes after all the others and after nothing new.
LEMMA AcceptLast ==
    ASSUME accepted \in Seq(Reqs), NEW r \in Reqs, r \notin ToSet(accepted),
           accepted' = Append(accepted, r), ~\E q \in Reqs : AcceptedBefore(q, q)
    PROVE  /\ \A p, q : AcceptedBefore(p, q) => AcceptedBefore(p, q)'
           /\ \A p \in ToSet(accepted) : AcceptedBefore(p, r)'
           /\ ~\E q \in Reqs : AcceptedBefore(q, q)'
<1>1. /\ Len(accepted) \in Nat /\ DOMAIN accepted = 1 .. Len(accepted)
      /\ DOMAIN accepted' = 1 .. Len(accepted) + 1 /\ accepted'[Len(accepted) + 1] = r
      /\ \A i \in DOMAIN accepted : accepted'[i] = accepted[i]
  OBVIOUS
<1>2. \A p, q : AcceptedBefore(p, q) => AcceptedBefore(p, q)'
  BY <1>1 DEF AcceptedBefore
<1>3. ASSUME NEW p \in ToSet(accepted) PROVE AcceptedBefore(p, r)'
  <2>1. PICK i \in DOMAIN accepted : p = accepted[i]
    BY <1>3 DEF ToSet
  <2>2. i \in DOMAIN accepted' /\ Len(accepted) + 1 \in DOMAIN accepted' /\ i < Len(accepted) + 1
    BY <1>1
  <2> QED
    BY <1>1, <2>1, <2>2 DEF AcceptedBefore
<1>4. ASSUME NEW q \in Reqs, AcceptedBefore(q, q)' PROVE FALSE
  <2>1. PICK i \in DOMAIN accepted', j \in DOMAIN accepted' :
            i < j /\ accepted'[i] = q /\ accepted'[j] = q
    BY <1>4 DEF AcceptedBefore
  <2>2. i \in DOMAIN accepted /\ (j \in DOMAIN accepted \/ j = Len(accepted) + 1)
    BY <1>1, <2>1
  <2>3. CASE j \in DOMAIN accepted
    BY <1>1, <2>1, <2>2, <2>3 DEF AcceptedBefore
  <2>4. CASE j = Len(accepted) + 1
    BY <1>1, <2>1, <2>2, <2>4 DEF ToSet
  <2> QED
    BY <2>2, <2>3, <2>4
<1> QED
  BY <1>2, <1>3, <1>4

-------------------------------------------------------------------------------
(* What the invariant says of the results on their way. *)

\* The places hold requests.
LEMMA PlacesTyped ==
    ASSUME TypeOK
    PROVE  /\ ToSet(got) \subseteq Reqs /\ ToSet(inbox) \subseteq Reqs
           /\ ToSet(responses) \subseteq Reqs /\ ToSet(queue) \subseteq Reqs
           /\ ToSet(accepted) \subseteq Reqs
           /\ Holding \subseteq Reqs /\ InPlugin \subseteq Reqs /\ OnWay \subseteq Reqs
<1>1. /\ ToSet(got) \subseteq Reqs /\ ToSet(inbox) \subseteq Reqs
      /\ ToSet(responses) \subseteq Reqs /\ ToSet(queue) \subseteq Reqs
      /\ ToSet(accepted) \subseteq Reqs
  BY SetOfSequence DEF TypeOK
<1>2. Holding \subseteq Reqs /\ InPlugin \subseteq Reqs
  BY DEF TypeOK, Holding, InPlugin
<1> QED
  BY <1>1, <1>2 DEF OnWay, AtWorker, AtHandler, AtEngine

\* A session with a result on its way keeps its callback, its listener and the
\* client's handler: it is not the one being released, whose results are all in.
LEMMA OnWayServed ==
    ASSUME PipelineInv, NEW r \in OnWay
    PROVE  /\ r \in Reqs /\ r \in ToSet(accepted) /\ r \notin ToSet(got) /\ r \notin thrown
           /\ TransOf[r] \in loaded /\ TransOf[r] \in cbs /\ TransOf[r] \in listeners
           /\ handler /\ call # "remove"
           /\ Releasing => TransOf[r] # arg
<1>0. TypeOK /\ CallAgrees /\ HandlerFollows /\ FlowServed /\ NothingLost
  BY DEF PipelineInv
<1>1. r \in Reqs /\ r \in ToSet(accepted) /\ r \notin thrown
  BY <1>0, PlacesTyped DEF NothingLost
<1>2. r \notin ToSet(got)
  BY <1>0, <1>1 DEF NothingLost, Ahead
<1>3. TransOf[r] \in loaded
  BY <1>0 DEF FlowServed
<1>4. Releasing => TransOf[r] # arg
  BY <1>0, <1>1, <1>2 DEF CallAgrees, Answered
<1>5. TransOf[r] # arg
  <2>1. CASE call = "idle"
    BY <1>0, <1>3, <2>1, PipelineAssumption DEF CallAgrees, TypeOK
  <2>2. CASE call = "load"
    BY <1>0, <1>3, <2>2 DEF CallAgrees
  <2> QED
    BY <1>0, <1>4, <2>1, <2>2 DEF TypeOK, Releasing
<1>6. TransOf[r] \in cbs /\ TransOf[r] \in listeners /\ call # "remove"
  BY <1>0, <1>3, <1>5 DEF CallAgrees
<1>7. handler
  BY <1>0, <1>6 DEF HandlerFollows
<1> QED
  BY <1>1, <1>2, <1>3, <1>4, <1>6, <1>7

\* A step that moves no result keeps them all where they are.
LEMMA FlowStill ==
    ASSUME NothingLost,
           UNCHANGED <<accepted, thrown, got, inbox, held, responses, queue>>, InPlugin' = InPlugin
    PROVE  NothingLost' /\ OnWay' = OnWay /\ AtWorker' = AtWorker
<1>1. \A r, q : AcceptedBefore(r, q)' <=> AcceptedBefore(r, q)
  BY OrderKept
<1>2. /\ Holding' = Holding /\ AtEngine' = AtEngine /\ AtHandler' = AtHandler
      /\ AtWorker' = AtWorker /\ OnWay' = OnWay
  BY DEF Holding, AtEngine, AtHandler, AtWorker, OnWay
<1>3. /\ InOrder(got)' /\ InOrder(inbox)' /\ InOrder(responses)' /\ InOrder(queue)'
  BY <1>1 DEF NothingLost, InOrder
<1>4. /\ Ahead(ToSet(got), OnWay)' /\ Ahead(ToSet(inbox), AtWorker)' /\ Ahead(Holding, AtHandler)'
      /\ Ahead(ToSet(responses), AtEngine)' /\ Ahead(InPlugin, ToSet(queue))'
  BY <1>1, <1>2 DEF NothingLost, Ahead
<1>5. ~(\E r \in Reqs : AcceptedBefore(r, r)')
  BY <1>1 DEF NothingLost
<1>6. /\ ToSet(accepted)' = thrown' \cup ToSet(got)' \cup OnWay'
      /\ thrown' \cap (ToSet(got)' \cup OnWay') = {}
  BY <1>2 DEF NothingLost
<1> QED
  BY <1>2, <1>3, <1>4, <1>5, <1>6 DEF NothingLost

-------------------------------------------------------------------------------
(* The steps that move a result. *)

\* SendRequest queues a request that was never accepted before, after all others.
LEMMA ExecuteFlow ==
    ASSUME PipelineInv, NEW r \in Reqs, Execute(r)
    PROVE  NothingLost' /\ OnWay' = OnWay \cup {r} /\ AtWorker' = AtWorker \cup {r}
           /\ ToSet(accepted)' = ToSet(accepted) \cup {r} /\ r \notin ToSet(accepted)
<1>0. TypeOK /\ FlowServed /\ NothingLost
  BY DEF PipelineInv
<1>1. /\ r \in fresh /\ queue' = Append(queue, r) /\ accepted' = Append(accepted, r)
      /\ UNCHANGED <<thrown, got, inbox, held, responses, engine, current>>
  BY DEF Execute, Executes, AsyncExecAlgorithmProxy, flowVars, engineVars, sendVars, respVars
<1>2. r \notin ToSet(accepted)
  BY <1>0, <1>1 DEF FlowServed
<1>3. /\ ToSet(accepted)' = ToSet(accepted) \cup {r} /\ ToSet(queue)' = ToSet(queue) \cup {r}
  BY <1>0, <1>1, AddLast DEF TypeOK
<1>4. /\ \A p, q : AcceptedBefore(p, q) => AcceptedBefore(p, q)'
      /\ \A p \in ToSet(accepted) : AcceptedBefore(p, r)'
      /\ ~\E q \in Reqs : AcceptedBefore(q, q)'
  BY <1>0, <1>1, <1>2, AcceptLast DEF TypeOK, NothingLost
<1>5. /\ Holding' = Holding /\ InPlugin' = InPlugin
      /\ AtEngine' = AtEngine \cup {r} /\ AtHandler' = AtHandler \cup {r}
      /\ AtWorker' = AtWorker \cup {r} /\ OnWay' = OnWay \cup {r}
  BY <1>1, <1>3 DEF Holding, InPlugin, AtEngine, AtHandler, AtWorker, OnWay
<1>6. /\ ToSet(got) \subseteq ToSet(accepted) /\ OnWay \subseteq ToSet(accepted)
      /\ thrown \subseteq ToSet(accepted)
  BY <1>0 DEF NothingLost
<1>7. /\ ToSet(inbox) \subseteq OnWay /\ Holding \subseteq OnWay /\ ToSet(responses) \subseteq OnWay
      /\ InPlugin \subseteq OnWay /\ ToSet(queue) \subseteq OnWay
  BY DEF OnWay, AtWorker, AtHandler, AtEngine
<1>8. InOrder(got)' /\ InOrder(inbox)' /\ InOrder(responses)'
  BY <1>0, <1>1, <1>4 DEF NothingLost, InOrder
<1>9. InOrder(queue)'
  <2>1. /\ Len(queue) \in Nat /\ DOMAIN queue = 1 .. Len(queue)
        /\ DOMAIN queue' = 1 .. Len(queue) + 1 /\ queue'[Len(queue) + 1] = r
        /\ \A i \in DOMAIN queue : queue'[i] = queue[i]
    BY <1>0, <1>1 DEF TypeOK
  <2> SUFFICES ASSUME NEW i \in DOMAIN queue', NEW j \in DOMAIN queue', i < j
               PROVE  AcceptedBefore(queue[i], queue[j])'
    BY DEF InOrder
  <2>2. i \in DOMAIN queue /\ (j \in DOMAIN queue \/ j = Len(queue) + 1)
    BY <2>1
  <2>3. CASE j \in DOMAIN queue
    <3>1. AcceptedBefore(queue[i], queue[j])
      BY <1>0, <2>2, <2>3 DEF NothingLost, InOrder
    <3>2. queue'[i] = queue[i] /\ queue'[j] = queue[j]
      BY <2>1, <2>2, <2>3
    <3> QED
      BY <1>4, <3>1, <3>2
  <2>4. CASE j = Len(queue) + 1
    <3>1. queue[i] \in ToSet(accepted)
      BY <1>6, <1>7, <2>2 DEF ToSet
    <3>2. queue'[i] = queue[i] /\ queue'[j] = r
      BY <2>1, <2>2, <2>4
    <3> QED
      BY <1>4, <3>1, <3>2
  <2> QED
    BY <2>2, <2>3, <2>4
<1>10. /\ Ahead(ToSet(got), OnWay)' /\ Ahead(ToSet(inbox), AtWorker)' /\ Ahead(Holding, AtHandler)'
       /\ Ahead(ToSet(responses), AtEngine)' /\ Ahead(InPlugin, ToSet(queue))'
  BY <1>0, <1>1, <1>3, <1>4, <1>5, <1>6, <1>7 DEF NothingLost, Ahead
<1>11. /\ ToSet(accepted)' = thrown' \cup ToSet(got)' \cup OnWay'
       /\ thrown' \cap (ToSet(got)' \cup OnWay') = {}
  BY <1>0, <1>1, <1>2, <1>3, <1>5, <1>6 DEF NothingLost
<1> QED
  BY <1>2, <1>3, <1>4, <1>5, <1>8, <1>9, <1>10, <1>11 DEF NothingLost

\* PopFront gives the plugin the request accepted first of those queued.
LEMMA EnginePopFlow ==
    ASSUME PipelineInv, EnginePop
    PROVE  NothingLost' /\ OnWay' = OnWay /\ AtWorker' = AtWorker /\ current' \in Reqs
<1>0. TypeOK /\ FlowServed /\ NothingLost
  BY DEF PipelineInv
<1>1. /\ engine = "idle" /\ queue # << >> /\ current' = Head(queue) /\ queue' = Tail(queue)
      /\ engine' = "popped"
      /\ UNCHANGED <<accepted, thrown, got, inbox, held, responses>>
  BY DEF EnginePop, flowVars, taskVars, sendVars, respVars
<1>2. /\ Head(queue) \in Reqs /\ ToSet(queue) = {Head(queue)} \cup ToSet(queue')
      /\ InOrder(Tail(queue)) /\ Ahead({Head(queue)}, ToSet(queue'))
  BY <1>0, <1>1, TakeFirst, FirstInOrder DEF TypeOK, NothingLost
<1>3. InPlugin = {} /\ InPlugin' = {Head(queue)}
  BY <1>0, <1>1, <1>2, PipelineAssumption DEF FlowServed, InPlugin
<1>4. \A r, q : AcceptedBefore(r, q)' <=> AcceptedBefore(r, q)
  BY <1>1, OrderKept
<1>5. AtEngine' = AtEngine
  BY <1>2, <1>3 DEF AtEngine
<1>6. Holding' = Holding /\ AtHandler' = AtHandler /\ AtWorker' = AtWorker /\ OnWay' = OnWay
  BY <1>1, <1>5 DEF Holding, AtHandler, AtWorker, OnWay
<1>7. InOrder(got)' /\ InOrder(inbox)' /\ InOrder(responses)' /\ InOrder(queue)'
  BY <1>0, <1>1, <1>2, <1>4 DEF NothingLost, InOrder
<1>8. Ahead(InPlugin, ToSet(queue))'
  BY <1>2, <1>3, <1>4 DEF Ahead
<1>9. /\ Ahead(ToSet(got), OnWay)' /\ Ahead(ToSet(inbox), AtWorker)' /\ Ahead(Holding, AtHandler)'
      /\ Ahead(ToSet(responses), AtEngine)'
  BY <1>0, <1>1, <1>4, <1>5, <1>6 DEF NothingLost, Ahead
<1>10. /\ ToSet(accepted)' = thrown' \cup ToSet(got)' \cup OnWay'
       /\ thrown' \cap (ToSet(got)' \cup OnWay') = {}
       /\ ~(\E r \in Reqs : AcceptedBefore(r, r)')
  BY <1>0, <1>1, <1>4, <1>6 DEF NothingLost
<1> QED
  BY <1>1, <1>2, <1>6, <1>7, <1>8, <1>9, <1>10 DEF NothingLost

\* AddCallbackRecord hands the plugin's result to the client's handler.
LEMMA EngineAddFlow ==
    ASSUME PipelineInv, EngineAdd
    PROVE  NothingLost' /\ OnWay' = OnWay /\ AtWorker' = AtWorker
<1>0. TypeOK /\ FlowServed /\ NothingLost
  BY DEF PipelineInv
<1>1. /\ engine = "add" /\ engine' = "delete" /\ responses' = Append(responses, current)
      /\ UNCHANGED <<accepted, thrown, got, inbox, held, queue, current>>
  BY DEF EngineAdd, AddCallbackRecord, flowVars, taskVars, queueVars, sendVars
<1>2. current \in Reqs /\ InPlugin = {current} /\ InPlugin' = {}
  BY <1>0, <1>1, PipelineAssumption DEF FlowServed, TypeOK, InPlugin
<1>3. ToSet(responses)' = ToSet(responses) \cup {current}
  BY <1>0, <1>1, <1>2, AddLast DEF TypeOK
<1>4. \A r, q : AcceptedBefore(r, q)' <=> AcceptedBefore(r, q)
  BY <1>1, OrderKept
<1>5. AtEngine' = ToSet(queue) /\ AtHandler' = AtHandler
  BY <1>1, <1>2, <1>3 DEF AtEngine, AtHandler
<1>6. Holding' = Holding /\ AtWorker' = AtWorker /\ OnWay' = OnWay
  BY <1>1, <1>5 DEF Holding, AtWorker, OnWay
<1>7. InOrder(Append(responses, current))
  <2>1. Ahead(ToSet(responses), {current})
    BY <1>0, <1>2 DEF NothingLost, Ahead, AtEngine
  <2> QED
    BY <1>0, <1>2, <2>1, LastInOrder DEF TypeOK, NothingLost
<1>8. InOrder(got)' /\ InOrder(inbox)' /\ InOrder(responses)' /\ InOrder(queue)'
  BY <1>0, <1>1, <1>4, <1>7 DEF NothingLost, InOrder
<1>9. Ahead(InPlugin, ToSet(queue))' /\ Ahead(ToSet(responses), AtEngine)'
  BY <1>0, <1>1, <1>2, <1>3, <1>4, <1>5 DEF Ahead, NothingLost, AtEngine
<1>10. /\ Ahead(ToSet(got), OnWay)' /\ Ahead(ToSet(inbox), AtWorker)' /\ Ahead(Holding, AtHandler)'
  BY <1>0, <1>1, <1>4, <1>5, <1>6 DEF NothingLost, Ahead
<1>11. /\ ToSet(accepted)' = thrown' \cup ToSet(got)' \cup OnWay'
       /\ thrown' \cap (ToSet(got)' \cup OnWay') = {}
       /\ ~(\E r \in Reqs : AcceptedBefore(r, r)')
  BY <1>0, <1>1, <1>4, <1>6 DEF NothingLost
<1> QED
  BY <1>6, <1>8, <1>9, <1>10, <1>11 DEF NothingLost

\* FetchCallbackRecord takes the response that has waited longest.
LEMMA TakeFlow ==
    ASSUME PipelineInv, Take, worker # "send",
           UNCHANGED <<accepted, thrown, got, inbox, queue, engine, current>>
    PROVE  NothingLost' /\ OnWay' = OnWay /\ AtWorker' = AtWorker /\ held' \in Reqs
           /\ responses' \in Seq(Reqs)
<1>0. TypeOK /\ FlowServed /\ NothingLost
  BY DEF PipelineInv
<1>1. responses # << >> /\ held' = Head(responses) /\ responses' = Tail(responses)
  BY DEF Take
<1>2. /\ Head(responses) \in Reqs /\ responses' \in Seq(Reqs)
      /\ ToSet(responses) = {Head(responses)} \cup ToSet(responses')
      /\ InOrder(Tail(responses)) /\ Ahead({Head(responses)}, ToSet(responses'))
  BY <1>0, <1>1, TakeFirst, FirstInOrder DEF TypeOK, NothingLost
<1>3. Holding = {} /\ Holding' = {Head(responses)}
  BY <1>0, <1>1, <1>2, PipelineAssumption DEF FlowServed, Holding
<1>4. \A r, q : AcceptedBefore(r, q)' <=> AcceptedBefore(r, q)
  BY OrderKept
<1>5. InPlugin' = InPlugin /\ AtEngine' = AtEngine
  BY DEF InPlugin, AtEngine
<1>6. AtHandler' = ToSet(responses') \cup AtEngine /\ AtWorker' = AtWorker /\ OnWay' = OnWay
  BY <1>2, <1>3, <1>5 DEF AtHandler, AtWorker, OnWay
<1>7. InOrder(got)' /\ InOrder(inbox)' /\ InOrder(responses)' /\ InOrder(queue)'
  BY <1>0, <1>1, <1>2, <1>4 DEF NothingLost, InOrder
<1>8. Ahead(Holding, AtHandler)'
  BY <1>0, <1>2, <1>3, <1>4, <1>6 DEF NothingLost, Ahead
<1>9. Ahead(ToSet(responses), AtEngine)' /\ Ahead(InPlugin, ToSet(queue))'
  BY <1>0, <1>2, <1>4, <1>5 DEF NothingLost, Ahead
<1>10. Ahead(ToSet(got), OnWay)' /\ Ahead(ToSet(inbox), AtWorker)'
  BY <1>0, <1>4, <1>6 DEF NothingLost, Ahead
<1>11. /\ ToSet(accepted)' = thrown' \cup ToSet(got)' \cup OnWay'
       /\ thrown' \cap (ToSet(got)' \cup OnWay') = {}
       /\ ~(\E r \in Reqs : AcceptedBefore(r, r)')
  BY <1>0, <1>4, <1>6 DEF NothingLost
<1> QED
  BY <1>1, <1>2, <1>6, <1>7, <1>8, <1>9, <1>10, <1>11 DEF NothingLost

\* The AsyncProcessWorker sends what it holds.
LEMMA WorkerSendFlow ==
    ASSUME PipelineInv, WorkerSend
    PROVE  /\ NothingLost' /\ OnWay' = OnWay /\ AtWorker' = AtWorker \ {held}
           /\ inbox' \in Seq(Reqs)
<1>0. TypeOK /\ FlowServed /\ NothingLost
  BY DEF PipelineInv
<1>1. /\ worker = "send" /\ inbox' = Append(inbox, held) /\ held' = NoReq
      /\ UNCHANGED <<accepted, thrown, got, responses, queue, engine, current>>
  BY DEF WorkerSend, taskVars, queueVars, engineVars, respVars
<1>2. held \in Reqs /\ Holding = {held} /\ Holding' = {}
  BY <1>0, <1>1, PipelineAssumption DEF FlowServed, TypeOK, Holding
<1>3. inbox' \in Seq(Reqs) /\ ToSet(inbox)' = ToSet(inbox) \cup {held}
  BY <1>0, <1>1, <1>2, AddLast DEF TypeOK
<1>4. \A r, q : AcceptedBefore(r, q)' <=> AcceptedBefore(r, q)
  BY <1>1, OrderKept
<1>5. InPlugin' = InPlugin /\ AtEngine' = AtEngine /\ AtHandler' = AtHandler
  BY <1>1 DEF InPlugin, AtEngine, AtHandler
<1>6. held \notin AtHandler
  BY <1>0, <1>2 DEF NothingLost, Ahead
<1>7. AtWorker' = AtHandler /\ AtWorker = {held} \cup AtHandler /\ OnWay' = OnWay
  BY <1>2, <1>3, <1>5 DEF AtWorker, OnWay
<1>8. InOrder(Append(inbox, held))
  <2>1. Ahead(ToSet(inbox), {held})
    BY <1>0, <1>7 DEF NothingLost, Ahead
  <2> QED
    BY <1>0, <1>2, <2>1, LastInOrder DEF TypeOK, NothingLost
<1>9. InOrder(got)' /\ InOrder(inbox)' /\ InOrder(responses)' /\ InOrder(queue)'
  BY <1>0, <1>1, <1>4, <1>8 DEF NothingLost, InOrder
<1>10. Ahead(ToSet(inbox), AtWorker)' /\ Ahead(Holding, AtHandler)'
  BY <1>0, <1>2, <1>3, <1>4, <1>5, <1>7 DEF NothingLost, Ahead
<1>11. /\ Ahead(ToSet(got), OnWay)' /\ Ahead(ToSet(responses), AtEngine)'
       /\ Ahead(InPlugin, ToSet(queue))'
  BY <1>0, <1>1, <1>4, <1>5, <1>7 DEF NothingLost, Ahead
<1>12. /\ ToSet(accepted)' = thrown' \cup ToSet(got)' \cup OnWay'
       /\ thrown' \cap (ToSet(got)' \cup OnWay') = {}
       /\ ~(\E r \in Reqs : AcceptedBefore(r, r)')
  BY <1>0, <1>1, <1>4, <1>7 DEF NothingLost
<1> QED
  BY <1>3, <1>6, <1>7, <1>9, <1>10, <1>11, <1>12 DEF NothingLost

\* A send that fails throws away what the worker holds.
LEMMA WorkerSendFailsFlow ==
    ASSUME PipelineInv, WorkerSendFails
    PROVE  NothingLost' /\ OnWay' = OnWay \ {held} /\ AtWorker' = AtWorker \ {held}
<1>0. TypeOK /\ FlowServed /\ NothingLost
  BY DEF PipelineInv
<1>1. /\ worker = "send" /\ thrown' = thrown \cup {held} /\ held' = NoReq
      /\ UNCHANGED <<accepted, got, inbox, responses, queue, engine, current>>
  BY DEF WorkerSendFails, taskVars, queueVars, engineVars, respVars
<1>2. held \in Reqs /\ Holding = {held} /\ Holding' = {}
  BY <1>0, <1>1, PipelineAssumption DEF FlowServed, TypeOK, Holding
<1>3. \A r, q : AcceptedBefore(r, q)' <=> AcceptedBefore(r, q)
  BY <1>1, OrderKept
<1>4. InPlugin' = InPlugin /\ AtEngine' = AtEngine /\ AtHandler' = AtHandler
  BY <1>1 DEF InPlugin, AtEngine, AtHandler
<1>5. AtWorker = {held} \cup AtHandler /\ AtWorker' = AtHandler
  BY <1>2, <1>4 DEF AtWorker
<1>6. held \notin AtHandler /\ held \notin ToSet(inbox) /\ held \notin ToSet(got)
  BY <1>0, <1>2, <1>5 DEF NothingLost, Ahead, OnWay
<1>7. AtWorker' = AtWorker \ {held} /\ OnWay' = OnWay \ {held} /\ held \in OnWay
  BY <1>1, <1>5, <1>6 DEF OnWay
<1>8. InOrder(got)' /\ InOrder(inbox)' /\ InOrder(responses)' /\ InOrder(queue)'
  BY <1>0, <1>1, <1>3 DEF NothingLost, InOrder
<1>9. /\ Ahead(ToSet(got), OnWay)' /\ Ahead(ToSet(inbox), AtWorker)' /\ Ahead(Holding, AtHandler)'
      /\ Ahead(ToSet(responses), AtEngine)' /\ Ahead(InPlugin, ToSet(queue))'
  BY <1>0, <1>1, <1>2, <1>3, <1>4, <1>7 DEF NothingLost, Ahead
<1>10. /\ ToSet(accepted)' = thrown' \cup ToSet(got)' \cup OnWay'
       /\ thrown' \cap (ToSet(got)' \cup OnWay') = {}
       /\ ~(\E r \in Reqs : AcceptedBefore(r, r)')
  BY <1>0, <1>1, <1>3, <1>6, <1>7 DEF NothingLost
<1> QED
  BY <1>7, <1>8, <1>9, <1>10 DEF NothingLost

\* AsyncCallback gives the oldest result to OnResult or throws it away.
LEMMA AsyncCallbackFlow ==
    ASSUME PipelineInv, AsyncCallback
    PROVE  /\ NothingLost' /\ OnWay' = OnWay \ {Head(inbox)} /\ AtWorker' = AtWorker
           /\ inbox' \in Seq(Reqs) /\ got' \in Seq(Reqs) /\ thrown' \subseteq Reqs
           /\ ToSet(got) \subseteq ToSet(got)'
<1> DEFINE r == Head(inbox)
<1>0. TypeOK /\ FlowServed /\ NothingLost
  BY DEF PipelineInv
<1>1. /\ inbox # << >> /\ inbox' = Tail(inbox)
      /\ UNCHANGED <<accepted, held, responses, queue, engine, current>>
      /\ \/ got' = Append(got, r) /\ thrown' = thrown
         \/ got' = got /\ thrown' = thrown \cup {r}
  BY DEF AsyncCallback, SaClientCallback, OnResult, Discard,
         taskVars, queueVars, engineVars, sendVars, respVars
<1>2. /\ r \in Reqs /\ inbox' \in Seq(Reqs) /\ ToSet(inbox) = {r} \cup ToSet(inbox')
      /\ InOrder(Tail(inbox)) /\ Ahead({r}, ToSet(inbox'))
  BY <1>0, <1>1, TakeFirst, FirstInOrder DEF TypeOK, NothingLost
<1>3. \A p, q : AcceptedBefore(p, q)' <=> AcceptedBefore(p, q)
  BY <1>1, OrderKept
<1>4. /\ Holding' = Holding /\ InPlugin' = InPlugin /\ AtEngine' = AtEngine
      /\ AtHandler' = AtHandler /\ AtWorker' = AtWorker
  BY <1>1 DEF Holding, InPlugin, AtEngine, AtHandler, AtWorker
<1>5. r \notin AtWorker /\ r \notin ToSet(inbox') /\ r \notin ToSet(got)
  BY <1>0, <1>2 DEF NothingLost, Ahead, OnWay
<1> HIDE DEF r
<1>6. OnWay' = OnWay \ {r} /\ r \in OnWay /\ OnWay' = ToSet(inbox') \cup AtWorker
  BY <1>2, <1>4, <1>5 DEF OnWay
<1>7. /\ got \in Seq(Reqs) /\ Append(got, r) \in Seq(Reqs)
      /\ ToSet(Append(got, r)) = ToSet(got) \cup {r} /\ InOrder(Append(got, r))
  <2>1. Ahead(ToSet(got), {r})
    BY <1>0, <1>6 DEF NothingLost, Ahead
  <2> QED
    BY <1>0, <1>2, <2>1, AddLast, LastInOrder DEF TypeOK, NothingLost
<1>8. InOrder(got)' /\ InOrder(inbox)' /\ InOrder(responses)' /\ InOrder(queue)'
  BY <1>0, <1>1, <1>2, <1>3, <1>7 DEF NothingLost, InOrder
<1>9. Ahead({r}, OnWay')
  BY <1>0, <1>2, <1>6 DEF NothingLost, Ahead
<1>10. Ahead(ToSet(got), OnWay)'
  <2>1. ToSet(got') \subseteq ToSet(got) \cup {r}
    BY <1>1, <1>7
  <2> QED
    BY <1>0, <1>3, <1>6, <1>9, <2>1 DEF NothingLost, Ahead
<1>11. /\ Ahead(ToSet(inbox), AtWorker)' /\ Ahead(Holding, AtHandler)'
       /\ Ahead(ToSet(responses), AtEngine)' /\ Ahead(InPlugin, ToSet(queue))'
  BY <1>0, <1>1, <1>2, <1>3, <1>4 DEF NothingLost, Ahead
<1>12. /\ ToSet(accepted)' = thrown' \cup ToSet(got)' \cup OnWay'
       /\ thrown' \cap (ToSet(got)' \cup OnWay') = {}
  BY <1>0, <1>1, <1>5, <1>6, <1>7 DEF NothingLost
<1>13. ~(\E p \in Reqs : AcceptedBefore(p, p)')
  BY <1>0, <1>3 DEF NothingLost
<1>14. /\ got' \in Seq(Reqs) /\ thrown' \subseteq Reqs /\ ToSet(got) \subseteq ToSet(got)'
  BY <1>0, <1>1, <1>2, <1>7 DEF TypeOK
<1> QED
  BY <1>2, <1>4, <1>6, <1>8, <1>10, <1>11, <1>12, <1>13, <1>14 DEF NothingLost, r

-------------------------------------------------------------------------------
(* ClientPrepare. *)

\* A call of ClientPrepare or ClientRelease that moves no result and leaves the
\* sessions' engines as they are.
LEMMA CallStill ==
    ASSUME PipelineInv, UNCHANGED <<flowVars, taskVars, freed, queue, engineVars, held, responses>>,
           \A r \in OnWay : TransOf[r] \in loaded',
           worker' = "send" <=> worker = "send"
    PROVE  NothingLost' /\ FlowServed'
<1>1. NothingLost /\ FlowServed
  BY DEF PipelineInv
<1>2. /\ UNCHANGED <<accepted, thrown, got, inbox, held, responses, queue>>
      /\ UNCHANGED <<engine, current, fresh, freed>>
  BY DEF flowVars, taskVars, engineVars
<1>3. InPlugin' = InPlugin
  BY <1>2 DEF InPlugin
<1>4. NothingLost' /\ OnWay' = OnWay /\ AtWorker' = AtWorker
  BY <1>1, <1>2, <1>3, FlowStill
<1> QED
  BY <1>1, <1>2, <1>4 DEF FlowServed

\* The first callback brings the handler and its thread, a later one finds them.
LEMMA PrepareRegisterKeeps ==
    ASSUME PipelineInv, NEW t \in Trans, PrepareRegister(t) PROVE PipelineInv'
<1>0. TypeOK /\ CallAgrees /\ HandlerFollows
  BY DEF PipelineInv
<1>1. /\ call = "idle" /\ t \notin cbs
      /\ cbs' = cbs \cup {t} /\ resultCb' = TRUE /\ call' = "load" /\ arg' = t
      /\ \/ cbs = {} /\ handler' = TRUE /\ worker = "none" /\ worker' = "loop" /\ stop' = FALSE
         \/ cbs # {} /\ UNCHANGED <<handler, worker, stop>>
      /\ UNCHANGED <<flowVars, loadFailed, taskVars, serverVars, futureVars, queueVars, engineVars,
                     held, respVars>>
  BY DEF PrepareRegister, RegisterCb, InsertCb, RegisterAsyncClientCb, IsCallbackEmpty,
         RegisterAsyncHandler, StartAsyncProcess
<1>2. NothingLost' /\ FlowServed'
  <2>1. \A r \in OnWay : TransOf[r] \in loaded'
    BY <1>1, OnWayServed DEF serverVars
  <2>2. worker' = "send" <=> worker = "send"
    BY <1>1
  <2>3. UNCHANGED <<flowVars, taskVars, freed, queue, engineVars, held, responses>>
    BY <1>1 DEF futureVars, queueVars, respVars
  <2> QED
    BY <2>1, <2>2, <2>3, CallStill
<1>3. TypeOK'
  <2>1. prepares' \in Nat
    BY <1>0 DEF PrepareRegister, TypeOK
  <2>2. /\ resultCb' \in BOOLEAN /\ loadFailed' \in BOOLEAN /\ handler' \in BOOLEAN
        /\ stop' \in BOOLEAN /\ flag' \in BOOLEAN
    BY <1>0, <1>1, Zenon DEF TypeOK, respVars
  <2>3. /\ cbs' \subseteq Trans /\ call' \in {"idle", "load", "remove", "unload", "stop"}
        /\ arg' \in Trans \cup {NoTrans}
        /\ worker' \in {"none", "loop", "fetch", "wait", "send", "ended"}
        /\ held' \in Reqs \cup {NoReq}
    BY <1>0, <1>1 DEF TypeOK, sendVars
  <2> QED
    BY <1>0, <1>1, <2>1, <2>2, <2>3, Zenon
       DEF TypeOK, flowVars, taskVars, serverVars, futureVars, queueVars, engineVars, respVars
<1>4. arg = NoTrans /\ loaded \subseteq cbs
  BY <1>0, <1>1, PipelineAssumption DEF CallAgrees, TypeOK
<1>5. CallAgrees'
  BY <1>0, <1>1, <1>4, PipelineAssumption DEF CallAgrees, Releasing, serverVars
<1>6. HandlerFollows'
  BY <1>0, <1>1 DEF HandlerFollows
<1> QED
  BY <1>2, <1>3, <1>5, <1>6 DEF PipelineInv

\* A refused ClientPrepare leaves the tables as they were.
LEMMA PrepareRefusedKeeps ==
    ASSUME PipelineInv, NEW t \in Trans, PrepareRefused(t) PROVE PipelineInv'
<1>0. TypeOK /\ CallAgrees /\ HandlerFollows
  BY DEF PipelineInv
<1>1. /\ cbs' = cbs /\ resultCb' = FALSE
      /\ UNCHANGED <<flowVars, loadFailed, call, arg, taskVars, serverVars, futureVars, queueVars,
                     engineVars, sendVars, respVars>>
  BY DEF PrepareRefused, UnRegisterCb, EraseCb, UnRegisterAsyncClientCb, IsCallbackEmpty
<1>2. NothingLost' /\ FlowServed'
  <2>1. \A r \in OnWay : TransOf[r] \in loaded'
    BY <1>1, OnWayServed DEF serverVars
  <2>2. UNCHANGED <<flowVars, taskVars, freed, queue, engineVars, held, responses>> /\ worker' = worker
    BY <1>1 DEF futureVars, queueVars, respVars, sendVars
  <2> QED
    BY <2>1, <2>2, CallStill
<1>3. TypeOK'
  <2>1. prepares' \in Nat
    BY <1>0 DEF PrepareRefused, TypeOK
  <2>2. /\ resultCb' \in BOOLEAN /\ loadFailed' \in BOOLEAN /\ handler' \in BOOLEAN
        /\ stop' \in BOOLEAN /\ flag' \in BOOLEAN
    BY <1>0, <1>1, Zenon DEF TypeOK, respVars, sendVars
  <2>3. /\ cbs' \subseteq Trans /\ call' \in {"idle", "load", "remove", "unload", "stop"}
        /\ arg' \in Trans \cup {NoTrans}
        /\ worker' \in {"none", "loop", "fetch", "wait", "send", "ended"}
        /\ held' \in Reqs \cup {NoReq}
    BY <1>0, <1>1 DEF TypeOK, sendVars
  <2> QED
    BY <1>0, <1>1, <2>1, <2>2, <2>3, Zenon
       DEF TypeOK, flowVars, taskVars, serverVars, futureVars, queueVars, engineVars, respVars
<1>4. CallAgrees'
  BY <1>0, <1>1 DEF CallAgrees, Releasing, Answered, serverVars, taskVars, flowVars
<1>5. HandlerFollows'
  BY <1>0, <1>1 DEF HandlerFollows, sendVars
<1> QED
  BY <1>2, <1>3, <1>4, <1>5 DEF PipelineInv

\* The loaded session gets its engine and its listener.
LEMMA PrepareLoadKeeps ==
    ASSUME PipelineInv, PrepareLoad PROVE PipelineInv'
<1>0. TypeOK /\ CallAgrees /\ HandlerFollows
  BY DEF PipelineInv
<1>1. /\ call = "load" /\ loaded' = loaded \cup {arg} /\ listeners' = listeners \cup {arg}
      /\ call' = "idle" /\ arg' = NoTrans
      /\ UNCHANGED <<clientVars, flowVars, prepares, taskVars, futureVars, queueVars, engineVars,
                     sendVars, respVars>>
  BY DEF PrepareLoad, RegisterListener
<1>2. NothingLost' /\ FlowServed'
  <2>1. \A r \in OnWay : TransOf[r] \in loaded'
    BY <1>1, OnWayServed
  <2>2. UNCHANGED <<flowVars, taskVars, freed, queue, engineVars, held, responses>> /\ worker' = worker
    BY <1>1 DEF futureVars, queueVars, respVars, sendVars
  <2> QED
    BY <2>1, <2>2, CallStill
<1>3. arg \in Trans /\ arg \in cbs
  BY <1>0, <1>1 DEF CallAgrees, TypeOK
<1>4. TypeOK'
  BY <1>0, <1>1, <1>3
     DEF TypeOK, clientVars, flowVars, taskVars, futureVars, queueVars, engineVars, respVars, sendVars
<1>5. CallAgrees'
  BY <1>0, <1>1, <1>3 DEF CallAgrees, Releasing, clientVars
<1>6. HandlerFollows'
  BY <1>0, <1>1 DEF HandlerFollows, sendVars, clientVars
<1> QED
  BY <1>2, <1>4, <1>5, <1>6 DEF PipelineInv

\* A load that fails takes the callback back and leaves the handler.
LEMMA PrepareLoadFailsKeeps ==
    ASSUME PipelineInv, PrepareLoadFails PROVE PipelineInv'
<1>0. TypeOK /\ CallAgrees /\ HandlerFollows
  BY DEF PipelineInv
<1>1. /\ call = "load" /\ cbs' = cbs \ {arg} /\ resultCb' = FALSE /\ loadFailed' = TRUE
      /\ call' = "idle" /\ arg' = NoTrans
      /\ UNCHANGED <<flowVars, prepares, taskVars, serverVars, futureVars, queueVars, engineVars,
                     sendVars, respVars>>
  BY DEF PrepareLoadFails, UnRegisterCb, EraseCb, UnRegisterAsyncClientCb
<1>2. NothingLost' /\ FlowServed'
  <2>1. \A r \in OnWay : TransOf[r] \in loaded'
    BY <1>1, OnWayServed DEF serverVars
  <2>2. UNCHANGED <<flowVars, taskVars, freed, queue, engineVars, held, responses>> /\ worker' = worker
    BY <1>1 DEF futureVars, queueVars, respVars, sendVars
  <2> QED
    BY <2>1, <2>2, CallStill
<1>3. TypeOK'
  BY <1>0, <1>1
     DEF TypeOK, flowVars, taskVars, serverVars, futureVars, queueVars, engineVars, respVars, sendVars
<1>4. CallAgrees'
  BY <1>0, <1>1 DEF CallAgrees, Releasing, serverVars
<1>5. HandlerFollows'
  BY <1>0, <1>1 DEF HandlerFollows, sendVars
<1> QED
  BY <1>2, <1>3, <1>4, <1>5 DEF PipelineInv

-------------------------------------------------------------------------------
(* ClientAsyncProcess. *)

\* A request that is refused, with or without its future, moves nothing.
LEMMA RefusedKeeps ==
    ASSUME PipelineInv, NEW r \in Reqs, ExecuteRefused(r) \/ ExecuteNoSlot(r) PROVE PipelineInv'
<1>0. TypeOK /\ CallAgrees /\ HandlerFollows /\ FlowServed /\ NothingLost
  BY DEF PipelineInv
<1>1. /\ fresh' = fresh \ {r} /\ futures' \subseteq futures \cup {r}
      /\ UNCHANGED <<attached, freed, accepted>>
      /\ UNCHANGED <<clientVars, flowVars, callVars, serverVars, queueVars, engineVars, sendVars, respVars>>
  BY DEF ExecuteRefused, ExecuteNoSlot, Executes, AsyncExecAlgorithmProxy, CreateFuture, futureVars
<1>2. InPlugin' = InPlugin
  BY <1>1 DEF InPlugin, engineVars
<1>3. NothingLost' /\ OnWay' = OnWay /\ AtWorker' = AtWorker
  BY <1>0, <1>1, <1>2, FlowStill DEF flowVars, sendVars, respVars, queueVars
<1>4. FlowServed'
  BY <1>0, <1>1, <1>3 DEF FlowServed, engineVars, sendVars, serverVars
<1>5. TypeOK'
  <2>1. fresh' \subseteq Reqs /\ futures' \subseteq Reqs
    BY <1>0, <1>1 DEF TypeOK
  <2>2. handler' = handler /\ worker' = worker /\ stop' = stop /\ held' = held
    BY <1>1 DEF sendVars
  <2> QED
    BY <1>0, <1>1, <2>1, <2>2
       DEF TypeOK, clientVars, flowVars, callVars, serverVars, queueVars, engineVars, respVars
<1>6. CallAgrees'
  BY <1>0, <1>1 DEF CallAgrees, Releasing, Answered, clientVars, callVars, serverVars, flowVars
<1>7. HandlerFollows'
  BY <1>0, <1>1 DEF HandlerFollows, clientVars, callVars, sendVars
<1> QED
  BY <1>3, <1>4, <1>5, <1>6, <1>7 DEF PipelineInv

\* An accepted request is queued, for a session with an engine.
LEMMA ExecuteKeeps ==
    ASSUME PipelineInv, NEW r \in Reqs, Execute(r) PROVE PipelineInv'
<1>0. TypeOK /\ CallAgrees /\ HandlerFollows /\ FlowServed /\ NothingLost
  BY DEF PipelineInv
<1>1. /\ call = "idle" /\ TransOf[r] \in loaded
      /\ fresh' = fresh \ {r} /\ futures' = futures \cup {r} /\ accepted' = Append(accepted, r)
      /\ queue' = Append(queue, r)
      /\ UNCHANGED <<attached, freed>>
      /\ UNCHANGED <<clientVars, flowVars, callVars, serverVars, engineVars, sendVars, respVars>>
  BY DEF Execute, Executes, AsyncExecAlgorithmProxy, FindEngine, CreateFuture
<1>2. /\ NothingLost' /\ OnWay' = OnWay \cup {r} /\ AtWorker' = AtWorker \cup {r}
      /\ ToSet(accepted)' = ToSet(accepted) \cup {r} /\ r \notin ToSet(accepted)
  BY ExecuteFlow
<1>3. FlowServed'
  BY <1>0, <1>1, <1>2 DEF FlowServed, engineVars, sendVars, serverVars
<1>4. TypeOK'
  <2>1. space' \in Nat
    BY <1>0 DEF Execute, TypeOK
  <2>2. fresh' \subseteq Reqs /\ futures' \subseteq Reqs
    BY <1>0, <1>1 DEF TypeOK
  <2>3. accepted' \in Seq(Reqs) /\ queue' \in Seq(Reqs)
    BY <1>0, <1>1, AddLast DEF TypeOK
  <2>4. handler' = handler /\ worker' = worker /\ stop' = stop /\ held' = held
    BY <1>1 DEF sendVars
  <2> QED
    BY <1>0, <1>1, <2>1, <2>2, <2>3, <2>4
       DEF TypeOK, clientVars, flowVars, callVars, serverVars, engineVars, respVars
<1>5. CallAgrees'
  BY <1>0, <1>1 DEF CallAgrees, Releasing, clientVars, callVars, serverVars
<1>6. HandlerFollows'
  BY <1>0, <1>1 DEF HandlerFollows, clientVars, callVars, sendVars
<1> QED
  BY <1>2, <1>3, <1>4, <1>5, <1>6 DEF PipelineInv

-------------------------------------------------------------------------------
(* ClientRelease. *)

\* The session loses its callback when all its results are in; with the last
\* callback the handler's thread is told to stop.
LEMMA ReleaseUnregisterKeeps ==
    ASSUME PipelineInv, NEW t \in Trans, ReleaseUnregister(t) PROVE PipelineInv'
<1>0. TypeOK /\ CallAgrees /\ HandlerFollows /\ FlowServed /\ NothingLost
  BY DEF PipelineInv
<1>1. /\ call = "idle" /\ t \in loaded /\ Answered(t)
      /\ cbs' = cbs \ {t} /\ resultCb' = FALSE /\ arg' = t
      /\ \/ cbs' = {} /\ call' = "remove" /\ stop' = TRUE
         \/ cbs' # {} /\ call' = "unload" /\ UNCHANGED stop
      /\ UNCHANGED <<flowVars, loadFailed, prepares, taskVars, serverVars, futureVars, queueVars,
                     engineVars, handler, worker, held, respVars>>
  BY DEF ReleaseUnregister, UnRegisterCb, EraseCb, UnRegisterAsyncClientCb, StopClientListenerHandler
<1>2. NothingLost' /\ FlowServed'
  <2>1. \A r \in OnWay : TransOf[r] \in loaded'
    BY <1>1, OnWayServed DEF serverVars
  <2>2. UNCHANGED <<flowVars, taskVars, freed, queue, engineVars, held, responses>> /\ worker' = worker
    BY <1>1 DEF futureVars, queueVars, respVars
  <2> QED
    BY <2>1, <2>2, CallStill
<1>3. TypeOK'
  <2>1. resultCb' \in BOOLEAN /\ stop' \in BOOLEAN
    BY <1>0, <1>1, Zenon DEF TypeOK
  <2>2. /\ cbs' \subseteq Trans /\ call' \in {"idle", "load", "remove", "unload", "stop"}
        /\ arg' \in Trans \cup {NoTrans}
    BY <1>0, <1>1 DEF TypeOK
  <2> QED
    BY <1>0, <1>1, <2>1, <2>2, Zenon
       DEF TypeOK, flowVars, taskVars, serverVars, futureVars, queueVars, engineVars, respVars
<1>4. arg = NoTrans /\ loaded \subseteq cbs /\ t # NoTrans
  BY <1>0, <1>1, PipelineAssumption DEF CallAgrees, TypeOK
<1>5. Answered(arg)'
  BY <1>1 DEF Answered, flowVars, taskVars
<1>6. CallAgrees'
  BY <1>0, <1>1, <1>4, <1>5 DEF CallAgrees, Releasing, serverVars
<1>7. HandlerFollows'
  BY <1>0, <1>1, <1>4 DEF HandlerFollows
<1> QED
  BY <1>2, <1>3, <1>6, <1>7 DEF PipelineInv

\* The handler is removed when nothing is on its way to it.
LEMMA ReleaseRemoveKeeps ==
    ASSUME PipelineInv, ReleaseRemove PROVE PipelineInv'
<1>0. TypeOK /\ CallAgrees /\ HandlerFollows /\ FlowServed /\ NothingLost
  BY DEF PipelineInv
<1>1. /\ call = "remove" /\ worker = "ended" /\ worker' = "none" /\ call' = "unload"
      /\ handler' = FALSE /\ freed' = freed \cup ToSet(responses) /\ responses' = << >> /\ flag' = FALSE
      /\ UNCHANGED <<clientVars, flowVars, arg, prepares, taskVars, serverVars, futures, attached,
                     queueVars, engineVars, stop, held>>
  BY DEF ReleaseRemove, RemoveClientListenerHandler
<1>2. OnWay = {}
  BY <1>1, OnWayServed
<1>3. responses = << >> /\ ToSet(responses) = {}
  BY <1>0, <1>2, SetOfSequence DEF TypeOK, OnWay, AtWorker, AtHandler
<1>4. freed' = freed /\ responses' = responses
  BY <1>1, <1>3
<1>5. NothingLost' /\ FlowServed'
  <2>1. \A r \in OnWay : TransOf[r] \in loaded'
    BY <1>2
  <2>2. UNCHANGED <<flowVars, taskVars, freed, queue, engineVars, held, responses>>
    BY <1>1, <1>4 DEF queueVars
  <2>3. worker' = "send" <=> worker = "send"
    BY <1>1
  <2> QED
    BY <2>1, <2>2, <2>3, CallStill
<1>6. TypeOK'
  <2>1. handler' \in BOOLEAN /\ flag' \in BOOLEAN
    BY <1>1, Zenon
  <2>2. /\ call' \in {"idle", "load", "remove", "unload", "stop"}
        /\ worker' \in {"none", "loop", "fetch", "wait", "send", "ended"}
    BY <1>1
  <2> QED
    BY <1>0, <1>1, <1>4, <2>1, <2>2, Zenon
       DEF TypeOK, clientVars, flowVars, taskVars, serverVars, queueVars, engineVars
<1>7. Answered(arg)'
  BY <1>0, <1>1 DEF Answered, flowVars, taskVars, CallAgrees, Releasing
<1>8. CallAgrees'
  BY <1>0, <1>1, <1>7 DEF CallAgrees, Releasing, serverVars, clientVars
<1>9. HandlerFollows'
  BY <1>0, <1>1 DEF HandlerFollows, clientVars, CallAgrees
<1> QED
  BY <1>5, <1>6, <1>8, <1>9 DEF PipelineInv

\* The listener is freed, then the engine is stopped: nothing of the session is
\* on its way, and with the last session nothing at all.
LEMMA ReleaseEngineKeeps ==
    ASSUME PipelineInv, ReleaseUnload \/ ReleaseStop PROVE PipelineInv'
<1>0. TypeOK /\ CallAgrees /\ HandlerFollows /\ FlowServed /\ NothingLost
  BY DEF PipelineInv
<1>1. CASE ReleaseUnload
  <2>1. /\ call = "unload" /\ listeners' = listeners \ {arg} /\ call' = "stop"
        /\ UNCHANGED <<clientVars, flowVars, arg, prepares, taskVars, loaded, futureVars, queueVars,
                       engineVars, sendVars, respVars>>
    BY <1>1 DEF ReleaseUnload, UnregisterListener
  <2>2. NothingLost' /\ FlowServed'
    <3>1. \A r \in OnWay : TransOf[r] \in loaded'
      BY <2>1, OnWayServed
    <3>2. UNCHANGED <<flowVars, taskVars, freed, queue, engineVars, held, responses>> /\ worker' = worker
      BY <2>1 DEF futureVars, queueVars, respVars, sendVars
    <3> QED
      BY <3>1, <3>2, CallStill
  <2>3. TypeOK'
    <3>1. /\ call' \in {"idle", "load", "remove", "unload", "stop"} /\ listeners' \subseteq Trans
      BY <1>0, <2>1 DEF TypeOK
    <3>2. handler' = handler /\ worker' = worker /\ stop' = stop /\ held' = held
      BY <2>1 DEF sendVars
    <3> QED
      BY <1>0, <2>1, <3>1, <3>2
         DEF TypeOK, clientVars, flowVars, taskVars, futureVars, queueVars, engineVars, respVars
  <2>4. Answered(arg)'
    BY <1>0, <2>1 DEF Answered, flowVars, taskVars, CallAgrees, Releasing
  <2>5. CallAgrees'
    BY <1>0, <2>1, <2>4 DEF CallAgrees, Releasing, clientVars
  <2>6. HandlerFollows'
    BY <1>0, <2>1 DEF HandlerFollows, clientVars, sendVars
  <2> QED
    BY <2>2, <2>3, <2>5, <2>6 DEF PipelineInv
<1>2. CASE ReleaseStop
  <2>1. /\ call = "stop" /\ loaded' = loaded \ {arg} /\ call' = "idle" /\ arg' = NoTrans
        /\ \/ loaded' = {} /\ queue' = << >> /\ space' = QueueCap
           \/ UNCHANGED queueVars
        /\ UNCHANGED <<clientVars, flowVars, prepares, taskVars, listeners, futureVars, engineVars,
                       sendVars, respVars>>
    BY <1>2 DEF ReleaseStop
  <2>2. \A r \in OnWay : TransOf[r] \in loaded'
    BY <2>1, OnWayServed DEF Releasing
  <2>3. queue' = queue /\ space' \in Nat
    <3>1. CASE loaded' = {} /\ queue' = << >> /\ space' = QueueCap
      <4>1. OnWay = {}
        BY <2>2, <3>1
      <4>2. ToSet(queue) = {}
        BY <4>1 DEF OnWay, AtWorker, AtHandler, AtEngine
      <4>3. queue = << >>
        BY <1>0, <4>2, SetOfSequence DEF TypeOK
      <4> QED
        BY <3>1, <4>3, PipelineAssumption
    <3>2. CASE UNCHANGED queueVars
      BY <1>0, <3>2 DEF queueVars, TypeOK
    <3> QED
      BY <2>1, <3>1, <3>2
  <2>4. NothingLost' /\ FlowServed'
    <3>1. UNCHANGED <<flowVars, taskVars, freed, queue, engineVars, held, responses>> /\ worker' = worker
      BY <2>1, <2>3 DEF futureVars, respVars, sendVars
    <3> QED
      BY <2>2, <3>1, CallStill
  <2>5. TypeOK'
    <3>1. /\ call' \in {"idle", "load", "remove", "unload", "stop"} /\ loaded' \subseteq Trans
          /\ arg' \in Trans \cup {NoTrans}
      BY <1>0, <2>1 DEF TypeOK
    <3>2. handler' = handler /\ worker' = worker /\ stop' = stop /\ held' = held
      BY <2>1 DEF sendVars
    <3> QED
      BY <1>0, <2>1, <2>3, <3>1, <3>2
         DEF TypeOK, clientVars, flowVars, taskVars, futureVars, engineVars, respVars
  <2>6. CallAgrees'
    BY <1>0, <2>1 DEF CallAgrees, Releasing, clientVars
  <2>7. HandlerFollows'
    BY <1>0, <2>1 DEF HandlerFollows, clientVars, sendVars
  <2> QED
    BY <2>4, <2>5, <2>6, <2>7 DEF PipelineInv
<1> QED
  BY <1>1, <1>2

-------------------------------------------------------------------------------
(* The engine worker. *)

\* A step of the engine worker leaves the calls and the handler alone.
LEMMA ControlStill ==
    ASSUME CallAgrees, HandlerFollows,
           UNCHANGED <<clientVars, callVars, accepted, serverVars, handler>>,
           ToSet(got) \subseteq ToSet(got)', worker' = "none" <=> worker = "none"
    PROVE  CallAgrees' /\ HandlerFollows'
<1>1. UNCHANGED <<cbs, loadFailed, call, arg, accepted, loaded, listeners, handler>>
  BY DEF clientVars, callVars, serverVars
<1>2. Releasing' = Releasing
  BY <1>1 DEF Releasing
<1>3. Releasing => Answered(arg)'
  BY <1>1 DEF CallAgrees, Answered
<1>4. CallAgrees'
  BY <1>1, <1>2, <1>3 DEF CallAgrees
<1>5. HandlerFollows'
  BY <1>1 DEF HandlerFollows
<1> QED
  BY <1>4, <1>5

\* PopFront, and giving the slot back.
LEMMA EngineTakesKeeps ==
    ASSUME PipelineInv, EnginePop \/ EngineGiveBack PROVE PipelineInv'
<1>0. TypeOK /\ CallAgrees /\ HandlerFollows /\ FlowServed /\ NothingLost
  BY DEF PipelineInv
<1>1. /\ UNCHANGED <<clientVars, callVars, accepted, serverVars, handler>>
      /\ UNCHANGED <<flowVars, taskVars, futureVars, sendVars, respVars>>
  BY DEF EnginePop, EngineGiveBack, taskVars, sendVars
<1>2. CallAgrees' /\ HandlerFollows'
  BY <1>0, <1>1, ControlStill DEF flowVars, sendVars
<1>3. CASE EnginePop
  <2>1. /\ engine' = "popped" /\ current' = Head(queue) /\ queue' = Tail(queue) /\ space' = space
        /\ queue # << >>
    BY <1>3 DEF EnginePop
  <2>2. NothingLost' /\ OnWay' = OnWay /\ AtWorker' = AtWorker /\ current' \in Reqs
    BY <1>3, EnginePopFlow
  <2>3. FlowServed'
    BY <1>0, <1>1, <2>1, <2>2, PipelineAssumption DEF FlowServed, sendVars, taskVars, serverVars, futureVars
  <2>4. TypeOK'
    <3>1. queue' \in Seq(Reqs)
      BY <1>0, <2>1, TakeFirst DEF TypeOK
    <3>2. engine' \in {"idle", "popped", "respond", "reply", "add", "delete"}
      BY <2>1
    <3> QED
      BY <1>0, <1>1, <2>1, <2>2, <3>1, <3>2
         DEF TypeOK, clientVars, callVars, flowVars, taskVars, serverVars, futureVars, sendVars, respVars
  <2> QED
    BY <1>2, <2>2, <2>3, <2>4 DEF PipelineInv
<1>4. CASE EngineGiveBack
  <2>1. /\ engine = "popped" /\ engine' = "respond" /\ current' = current /\ queue' = queue
    BY <1>4 DEF EngineGiveBack
  <2>2. InPlugin' = InPlugin
    BY <2>1 DEF InPlugin
  <2>3. NothingLost' /\ OnWay' = OnWay /\ AtWorker' = AtWorker
    BY <1>0, <1>1, <2>1, <2>2, FlowStill DEF flowVars, sendVars, respVars
  <2>4. FlowServed'
    BY <1>0, <1>1, <2>1, <2>3 DEF FlowServed, sendVars, taskVars, serverVars, futureVars
  <2>5. TypeOK'
    <3>1. space' \in Nat
      BY <1>0, <1>4 DEF EngineGiveBack, TypeOK
    <3>2. engine' \in {"idle", "popped", "respond", "reply", "add", "delete"}
      BY <2>1
    <3> QED
      BY <1>0, <1>1, <2>1, <3>1, <3>2
         DEF TypeOK, clientVars, callVars, flowVars, taskVars, serverVars, futureVars, sendVars, respVars
  <2> QED
    BY <1>2, <2>3, <2>4, <2>5 DEF PipelineInv
<1> QED
  BY <1>3, <1>4

\* The request in the plugin has its listener and its client's handler.
LEMMA PluginServed ==
    ASSUME PipelineInv, engine \in {"popped", "respond", "reply", "add"}
    PROVE  current \in Reqs /\ TransOf[current] \in listeners /\ handler
<1>1. current \in InPlugin
  BY DEF InPlugin, PipelineInv, FlowServed
<1>2. current \in OnWay
  BY <1>1 DEF OnWay, AtWorker, AtHandler, AtEngine
<1> QED
  BY <1>2, OnWayServed

\* ProcessResponse finds the listener and the handler.
LEMMA EngineAnswersKeeps ==
    ASSUME PipelineInv, EngineRespond \/ EngineReply PROVE PipelineInv'
<1>0. TypeOK /\ CallAgrees /\ HandlerFollows /\ FlowServed /\ NothingLost
  BY DEF PipelineInv
<1>1. /\ UNCHANGED <<clientVars, callVars, accepted, serverVars, handler>>
      /\ UNCHANGED <<flowVars, taskVars, futures, freed, queueVars, sendVars, respVars>>
      /\ engine \in {"respond", "reply"}
      /\ attached' = attached \/ attached' = attached \cup {current}
  BY DEF EngineRespond, EngineReply, taskVars, sendVars, futureVars, SetResponse
<1>2. current \in Reqs /\ TransOf[current] \in listeners /\ handler
  BY <1>1, PluginServed
<1>3. engine' \in {"reply", "add"} /\ current' = current
  BY <1>2 DEF EngineRespond, EngineReply, FindListener, FindClientListenerHandler
<1>4. CallAgrees' /\ HandlerFollows'
  BY <1>0, <1>1, ControlStill DEF flowVars, sendVars
<1>5. InPlugin' = InPlugin
  BY <1>1, <1>3 DEF InPlugin
<1>6. NothingLost' /\ OnWay' = OnWay /\ AtWorker' = AtWorker
  BY <1>0, <1>1, <1>5, FlowStill DEF flowVars, sendVars, respVars, queueVars
<1>7. FlowServed'
  BY <1>0, <1>1, <1>2, <1>3, <1>6, PipelineAssumption DEF FlowServed, sendVars, taskVars, serverVars
<1>8. TypeOK'
  <2>1. attached' \subseteq Reqs
    BY <1>0, <1>1, <1>2 DEF TypeOK
  <2>2. engine' \in {"idle", "popped", "respond", "reply", "add", "delete"}
    BY <1>3
  <2>3. /\ UNCHANGED <<clientVars, callVars, serverVars, flowVars, taskVars, futures, freed,
                       queueVars, sendVars, respVars>>
    BY <1>1
  <2> QED
    BY <1>0, <1>3, <2>1, <2>2, <2>3
       DEF TypeOK, clientVars, callVars, flowVars, taskVars, serverVars, queueVars, sendVars, respVars
<1> QED
  BY <1>4, <1>6, <1>7, <1>8 DEF PipelineInv

\* AddCallbackRecord, and the future is deleted without the response.
LEMMA EngineEndsKeeps ==
    ASSUME PipelineInv, EngineAdd \/ EngineDelete PROVE PipelineInv'
<1>0. TypeOK /\ CallAgrees /\ HandlerFollows /\ FlowServed /\ NothingLost
  BY DEF PipelineInv
<1>1. /\ UNCHANGED <<clientVars, callVars, accepted, serverVars, handler>>
      /\ UNCHANGED <<flowVars, taskVars, queueVars, sendVars>>
  BY DEF EngineAdd, EngineDelete, taskVars, sendVars
<1>2. CallAgrees' /\ HandlerFollows'
  BY <1>0, <1>1, ControlStill DEF flowVars, sendVars
<1>3. CASE EngineAdd
  <2>1. /\ engine = "add" /\ engine' = "delete" /\ responses' = Append(responses, current)
        /\ flag' = TRUE \/ flag' = flag
        /\ UNCHANGED <<current, futureVars>>
    BY <1>3 DEF EngineAdd, AddCallbackRecord, EventSignal
  <2>2. NothingLost' /\ OnWay' = OnWay /\ AtWorker' = AtWorker
    BY <1>3, EngineAddFlow
  <2>3. current \in Reqs
    BY <2>1, PluginServed
  <2>4. FlowServed'
    BY <1>0, <1>1, <2>1, <2>2, <2>3, PipelineAssumption
       DEF FlowServed, sendVars, taskVars, serverVars, futureVars
  <2>5. TypeOK'
    <3>1. responses' \in Seq(Reqs)
      BY <1>0, <2>1, <2>3, AddLast DEF TypeOK
    <3>2. engine' \in {"idle", "popped", "respond", "reply", "add", "delete"}
      BY <2>1
    <3>3. flag' \in BOOLEAN
      BY <1>0, <2>1, Zenon DEF TypeOK
    <3> QED
      BY <1>0, <1>1, <2>1, <3>1, <3>2, <3>3
         DEF TypeOK, clientVars, callVars, flowVars, taskVars, serverVars, futureVars, sendVars, queueVars
  <2> QED
    BY <1>2, <2>2, <2>4, <2>5 DEF PipelineInv
<1>4. CASE EngineDelete
  <2>1. /\ engine = "delete" /\ engine' = "idle" /\ current' = NoReq
        /\ attached' = attached \ {current} /\ futures' = futures \ {current}
        /\ freed' = freed \cup ({current} \cap attached')
        /\ UNCHANGED respVars
    BY <1>4 DEF EngineDelete, DetachResponse, DeleteFuture
  <2>2. freed' = freed /\ InPlugin' = InPlugin
    BY <2>1 DEF InPlugin
  <2>3. NothingLost' /\ OnWay' = OnWay /\ AtWorker' = AtWorker
    BY <1>0, <1>1, <2>1, <2>2, FlowStill DEF flowVars, sendVars, respVars, queueVars
  <2>4. FlowServed'
    BY <1>0, <1>1, <2>1, <2>2, <2>3 DEF FlowServed, sendVars, taskVars, serverVars
  <2>5. TypeOK'
    <3>1. attached' \subseteq Reqs /\ futures' \subseteq Reqs /\ freed' \subseteq Reqs
      BY <1>0, <2>1, <2>2 DEF TypeOK
    <3>2. /\ engine' \in {"idle", "popped", "respond", "reply", "add", "delete"}
          /\ current' \in Reqs \cup {NoReq}
      BY <2>1
    <3> QED
      BY <1>0, <1>1, <2>1, <3>1, <3>2
         DEF TypeOK, clientVars, callVars, flowVars, taskVars, serverVars, sendVars, queueVars, respVars
  <2> QED
    BY <1>2, <2>3, <2>4, <2>5 DEF PipelineInv
<1> QED
  BY <1>3, <1>4

-------------------------------------------------------------------------------
(* The AsyncProcessWorker and the client's callback. *)

\* The worker fetches, waits or goes round its loop.
LEMMA WorkerFetchesKeeps ==
    ASSUME PipelineInv, WorkerLoop \/ WorkerFetch \/ WorkerWait PROVE PipelineInv'
<1>0. TypeOK /\ CallAgrees /\ HandlerFollows /\ FlowServed /\ NothingLost
  BY DEF PipelineInv
<1>1. /\ UNCHANGED <<clientVars, callVars, accepted, serverVars, handler>>
      /\ UNCHANGED <<flowVars, taskVars, futureVars, queueVars, engineVars, stop>>
      /\ worker \in {"loop", "fetch", "wait"}
      /\ \/ Take
         \/ worker' \in {"ended", "fetch", "wait", "loop"} /\ UNCHANGED <<held, respVars>>
  BY DEF WorkerLoop, WorkerFetch, WorkerWait, taskVars
<1>2. worker' \in {"loop", "fetch", "wait", "send", "ended"}
  BY <1>1 DEF Take
<1>3. CallAgrees' /\ HandlerFollows'
  BY <1>0, <1>1, <1>2, ControlStill DEF flowVars
<1>4. CASE Take
  <2>1. /\ NothingLost' /\ OnWay' = OnWay /\ AtWorker' = AtWorker /\ held' \in Reqs
        /\ responses' \in Seq(Reqs)
    BY <1>1, <1>4, TakeFlow DEF flowVars, queueVars, engineVars
  <2>2. FlowServed'
    <3>1. worker' = "send" /\ held' # NoReq
      BY <1>4, <2>1, PipelineAssumption DEF Take
    <3> QED
      BY <1>0, <1>1, <2>1, <3>1 DEF FlowServed, engineVars, taskVars, serverVars, futureVars
  <2>3. TypeOK'
    <3>1. flag' \in BOOLEAN
      BY <1>0, <1>4, Zenon DEF TypeOK, Take, EventReset
    <3>2. UNCHANGED <<clientVars, callVars, serverVars, handler, flowVars, taskVars, futureVars,
                      queueVars, engineVars, stop>>
      BY <1>1
    <3> QED
      BY <1>0, <1>2, <2>1, <3>1, <3>2
         DEF TypeOK, clientVars, callVars, flowVars, taskVars, serverVars, futureVars, queueVars, engineVars
  <2> QED
    BY <1>3, <2>1, <2>2, <2>3 DEF PipelineInv
<1>5. CASE worker' \in {"ended", "fetch", "wait", "loop"} /\ UNCHANGED <<held, respVars>>
  <2>1. InPlugin' = InPlugin
    BY <1>1 DEF InPlugin, engineVars
  <2>2. NothingLost' /\ OnWay' = OnWay /\ AtWorker' = AtWorker
    BY <1>0, <1>1, <1>5, <2>1, FlowStill DEF flowVars, respVars, queueVars
  <2>3. FlowServed'
    BY <1>0, <1>1, <1>5, <2>2 DEF FlowServed, engineVars, taskVars, serverVars, futureVars
  <2>4. TypeOK'
    <3>1. UNCHANGED <<clientVars, callVars, serverVars, handler, flowVars, taskVars, futureVars,
                      queueVars, engineVars, stop, held, respVars>>
      BY <1>1, <1>5
    <3> QED
      BY <1>0, <1>2, <3>1
         DEF TypeOK, clientVars, callVars, flowVars, taskVars, serverVars, futureVars, queueVars,
             engineVars, respVars
  <2> QED
    BY <1>3, <2>2, <2>3, <2>4 DEF PipelineInv
<1> QED
  BY <1>1, <1>4, <1>5

\* The worker sends, or fails to; either way the response is destroyed then.
LEMMA WorkerSendsKeeps ==
    ASSUME PipelineInv, WorkerSend \/ WorkerSendFails PROVE PipelineInv'
<1>0. TypeOK /\ CallAgrees /\ HandlerFollows /\ FlowServed /\ NothingLost
  BY DEF PipelineInv
<1>1. /\ UNCHANGED <<clientVars, callVars, accepted, serverVars, handler>>
      /\ UNCHANGED <<got, taskVars, futures, attached, queueVars, engineVars, stop, respVars>>
      /\ worker = "send" /\ worker' \in {"loop", "ended"} /\ held' = NoReq
      /\ freed' = freed \cup {held}
  BY DEF WorkerSend, WorkerSendFails, taskVars
<1>2. held \in Reqs /\ held \in OnWay
  BY <1>0, <1>1 DEF FlowServed, TypeOK, Holding, AtWorker, OnWay
<1>3. held \in ToSet(accepted)
  BY <1>2, OnWayServed
<1>4. CallAgrees' /\ HandlerFollows'
  BY <1>0, <1>1, ControlStill
<1>5. NothingLost' /\ OnWay' \subseteq OnWay /\ AtWorker' = AtWorker \ {held}
  BY WorkerSendFlow, WorkerSendFailsFlow
<1>6. FlowServed'
  BY <1>0, <1>1, <1>3, <1>5 DEF FlowServed, engineVars, taskVars, serverVars
<1>7. inbox' \in Seq(Reqs) /\ thrown' \subseteq Reqs
  BY <1>0, <1>2, WorkerSendFlow DEF WorkerSend, WorkerSendFails, TypeOK
<1>8. TypeOK'
  <2>1. /\ freed' \subseteq Reqs /\ held' \in Reqs \cup {NoReq}
        /\ worker' \in {"none", "loop", "fetch", "wait", "send", "ended"}
    BY <1>0, <1>1, <1>2 DEF TypeOK
  <2>2. UNCHANGED <<clientVars, callVars, serverVars, handler, got, taskVars, futures, attached,
                    queueVars, engineVars, stop, respVars>>
    BY <1>1
  <2> QED
    BY <1>0, <1>7, <2>1, <2>2
       DEF TypeOK, clientVars, callVars, taskVars, serverVars, queueVars, engineVars, respVars
<1> QED
  BY <1>4, <1>5, <1>6, <1>8 DEF PipelineInv

\* A result reaches the session's callback or is thrown away.
LEMMA AsyncCallbackKeeps ==
    ASSUME PipelineInv, AsyncCallback PROVE PipelineInv'
<1>0. TypeOK /\ CallAgrees /\ HandlerFollows /\ FlowServed /\ NothingLost
  BY DEF PipelineInv
<1>1. /\ UNCHANGED <<clientVars, callVars, accepted, serverVars, handler>>
      /\ UNCHANGED <<taskVars, futureVars, queueVars, engineVars, sendVars, respVars>>
  BY DEF AsyncCallback, taskVars, sendVars
<1>2. /\ NothingLost' /\ OnWay' \subseteq OnWay /\ AtWorker' = AtWorker
      /\ inbox' \in Seq(Reqs) /\ got' \in Seq(Reqs) /\ thrown' \subseteq Reqs
      /\ ToSet(got) \subseteq ToSet(got)'
  BY AsyncCallbackFlow
<1>3. CallAgrees' /\ HandlerFollows'
  BY <1>0, <1>1, <1>2, ControlStill DEF sendVars
<1>4. FlowServed'
  BY <1>0, <1>1, <1>2 DEF FlowServed, engineVars, taskVars, serverVars, futureVars, sendVars
<1>5. TypeOK'
  BY <1>0, <1>1, <1>2
     DEF TypeOK, clientVars, callVars, taskVars, serverVars, futureVars, queueVars, engineVars,
         sendVars, respVars
<1> QED
  BY <1>2, <1>3, <1>4, <1>5 DEF PipelineInv

-------------------------------------------------------------------------------
(* The theorems. *)

\* At first there are no sessions and no requests.
LEMMA InitPipeline == Init => PipelineInv
<1> SUFFICES ASSUME Init PROVE PipelineInv
  OBVIOUS
<1>1. TypeOK
  <2>1. /\ resultCb \in BOOLEAN /\ loadFailed \in BOOLEAN /\ handler \in BOOLEAN
        /\ flag \in BOOLEAN /\ stop \in BOOLEAN
    BY Zenon DEF Init
  <2>2. prepares \in Nat /\ space \in Nat
    BY PipelineAssumption DEF Init
  <2>3. << >> \in Seq(Reqs)
    OBVIOUS
  <2> QED
    BY <2>1, <2>2, <2>3, Zenon DEF Init, TypeOK
<1>2. ToSet(<< >>) = {}
  BY DEF ToSet
<1>3. /\ ToSet(accepted) = {} /\ ToSet(got) = {} /\ ToSet(inbox) = {} /\ ToSet(responses) = {}
      /\ ToSet(queue) = {} /\ Holding = {} /\ InPlugin = {} /\ OnWay = {} /\ AtWorker = {}
  BY <1>2 DEF Init, Holding, InPlugin, OnWay, AtWorker, AtHandler, AtEngine
<1>4. CallAgrees
  BY DEF Init, CallAgrees, Releasing
<1>5. HandlerFollows
  BY DEF Init, HandlerFollows
<1>6. FlowServed
  BY <1>3 DEF Init, FlowServed
<1>7. InOrder(<< >>) /\ \A r : ~AcceptedBefore(r, r)
  BY DEF Init, InOrder, AcceptedBefore
<1>8. NothingLost
  BY <1>3, <1>7 DEF Init, NothingLost, Ahead
<1> QED
  BY <1>1, <1>4, <1>5, <1>6, <1>8 DEF PipelineInv

\* Every step of the four threads keeps the invariant.
LEMMA NextPipeline == PipelineInv /\ [Next]_vars => PipelineInv'
<1> SUFFICES ASSUME PipelineInv, [Next]_vars PROVE PipelineInv'
  OBVIOUS
<1>1. CASE Prepare
  BY <1>1, PrepareRegisterKeeps, PrepareRefusedKeeps, PrepareLoadKeeps, PrepareLoadFailsKeeps
     DEF Prepare
<1>2. CASE Request
  BY <1>2, RefusedKeeps, ExecuteKeeps DEF Request
<1>3. CASE Release
  BY <1>3, ReleaseUnregisterKeeps, ReleaseRemoveKeeps, ReleaseEngineKeeps DEF Release
<1>4. CASE EngineWorker
  BY <1>4, EngineTakesKeeps, EngineAnswersKeeps, EngineEndsKeeps DEF EngineWorker
<1>5. CASE AsyncProcessWorker
  BY <1>5, WorkerFetchesKeeps, WorkerSendsKeeps DEF AsyncProcessWorker
<1>6. CASE AsyncCallback
  BY <1>6, AsyncCallbackKeeps
<1>7. CASE UNCHANGED vars
  BY <1>7 DEF vars, PipelineInv, TypeOK, CallAgrees, HandlerFollows, FlowServed, NothingLost,
              Releasing, Answered, Holding, InPlugin, AtEngine, AtHandler, AtWorker, OnWay,
              InOrder, Ahead, AcceptedBefore
<1> QED
  BY <1>1, <1>2, <1>3, <1>4, <1>5, <1>6, <1>7 DEF Next

\* From SendRequest to OnResult no result is lost, doubled or overtaken, whatever
\* the threads' interleaving; only a failed send or a ResultCb_ that another
\* session's release took away throws one away.
THEOREM ResultsArriveInOrder == Spec => []NothingLost
<1>1. PipelineInv => NothingLost
  BY DEF PipelineInv
<1> QED
  BY <1>1, InitPipeline, NextPipeline, PTL DEF Spec

\* ProcessResponse never calls a listener or a handler that ClientRelease has
\* freed, and no response is destroyed while the AsyncProcessWorker still has it.
THEOREM NothingUsedAfterFree == Spec => []NoDangling
<1>1. PipelineInv => NoDangling
  <2> SUFFICES ASSUME PipelineInv PROVE NoDangling
    OBVIOUS
  <2>1. (engine = "reply" => TransOf[current] \in listeners) /\ (engine = "add" => handler)
    BY PluginServed
  <2>2. freed \cap (ToSet(responses) \cup {held}) = {}
    BY PipelineAssumption DEF PipelineInv, FlowServed, TypeOK, AtWorker, AtHandler, Holding
  <2> QED
    BY <2>1, <2>2 DEF NoDangling
<1> QED
  BY <1>1, InitPipeline, NextPipeline, PTL DEF Spec

\* Between calls the server has a ClientListenerHandler exactly while a session
\* has a callback, until a load has failed after RegisterCallback.
THEOREM HandlerWhileCallbacks == Spec => []HandlerAgrees
<1>1. PipelineInv => HandlerAgrees
  BY DEF PipelineInv, HandlerFollows, HandlerAgrees
<1> QED
  BY <1>1, InitPipeline, NextPipeline, PTL DEF Spec
===============================================================================
