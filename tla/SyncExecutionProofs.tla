------------------------ MODULE SyncExecutionProofs ------------------------
(***************************************************************************)
(* For any clients, keys and capacities, and whatever fails or dies: the   *)
(* IPC task and the worker agree on the request and its memory, a client   *)
(* that hears success hears of its own input, and every shared memory      *)
(* segment has exactly one message that will remove it, or is lost with    *)
(* one that nobody reads.                                                  *)
(***************************************************************************)
EXTENDS SyncExecution, FiniteSetTheorems, SequenceTheorems, TLAPS

----------------------------------------------------------------------------
(* Messages in the inbox. *)

\* A message is added at the end.
LEMMA AddLast ==
    ASSUME NEW S, NEW s \in Seq(S), NEW x \in S
    PROVE  /\ Append(s, x) \in Seq(S) /\ ToSet(Append(s, x)) = ToSet(s) \cup {x}
           /\ DOMAIN Append(s, x) = DOMAIN s \cup {Len(s) + 1} /\ Len(s) + 1 \notin DOMAIN s
           /\ Append(s, x)[Len(s) + 1] = x /\ \A i \in DOMAIN s : Append(s, x)[i] = s[i]
<1>1. /\ Append(s, x) \in Seq(S) /\ Len(s) \in Nat
      /\ DOMAIN s = 1 .. Len(s) /\ DOMAIN Append(s, x) = 1 .. Len(s) + 1
      /\ Append(s, x)[Len(s) + 1] = x
      /\ \A i \in DOMAIN s : Append(s, x)[i] = s[i]
  OBVIOUS
<1>2. DOMAIN Append(s, x) = DOMAIN s \cup {Len(s) + 1} /\ Len(s) + 1 \notin DOMAIN s
  BY <1>1
<1>3. ToSet(Append(s, x)) = ToSet(s) \cup {x}
  BY <1>1, <1>2, Zenon DEF ToSet
<1> QED
  BY <1>1, <1>2, <1>3

\* A message is taken out; the others keep their order.
LEMMA TakeOut ==
    ASSUME NEW S, NEW s \in Seq(S), NEW i \in DOMAIN s
    PROVE  /\ RemoveAt(s, i) \in Seq(S)
           /\ \A j \in DOMAIN RemoveAt(s, i) :
                 RemoveAt(s, i)[j] = s[IF j < i THEN j ELSE j + 1]
           /\ DOMAIN RemoveAt(s, i) = 1 .. Len(s) - 1
           /\ Len(s) \in Nat /\ DOMAIN s = 1 .. Len(s)
<1>1. Len(s) \in Nat /\ DOMAIN s = 1 .. Len(s) /\ i \in 1 .. Len(s)
  OBVIOUS
<1> DEFINE a == SubSeq(s, 1, i - 1)
           b == SubSeq(s, i + 1, Len(s))
<1>2. a \in Seq(S) /\ Len(a) = i - 1 /\ \A j \in 1 .. i - 1 : a[j] = s[j]
  BY <1>1
<1>3. b \in Seq(S) /\ Len(b) = Len(s) - i /\ \A j \in 1 .. Len(s) - i : b[j] = s[j + i]
  BY <1>1
<1>4. RemoveAt(s, i) = a \o b
  BY DEF RemoveAt
<1> HIDE DEF a, b
<1>5. /\ a \o b \in Seq(S) /\ Len(a \o b) = Len(a) + Len(b)
      /\ \A j \in 1 .. Len(a) + Len(b) :
            (a \o b)[j] = IF j <= Len(a) THEN a[j] ELSE b[j - Len(a)]
  BY <1>2, <1>3, ConcatProperties, Zenon
<1>6. Len(a \o b) = Len(s) - 1 /\ DOMAIN (a \o b) = 1 .. Len(s) - 1
  <2>1. Len(a \o b) = Len(s) - 1
    BY <1>1, <1>2, <1>3, <1>5
  <2>2. DOMAIN (a \o b) = 1 .. Len(a \o b)
    BY <1>5, LenProperties, Zenon
  <2> QED
    BY <2>1, <2>2
<1>7. ASSUME NEW j \in 1 .. Len(s) - 1
      PROVE  (a \o b)[j] = s[IF j < i THEN j ELSE j + 1]
  <2>1. CASE j < i
    BY <1>1, <1>2, <1>3, <1>5, <2>1
  <2>2. CASE ~(j < i)
    <3>1. j - (i - 1) \in 1 .. Len(s) - i /\ (a \o b)[j] = b[j - (i - 1)]
      BY <1>1, <1>2, <1>3, <1>5, <2>2
    <3>2. b[j - (i - 1)] = s[(j - (i - 1)) + i]
      BY <1>3, <3>1
    <3>3. (j - (i - 1)) + i = j + 1
      BY <1>1
    <3> QED
      BY <2>2, <3>1, <3>2, <3>3
  <2> QED
    BY <2>1, <2>2
<1> QED
  BY <1>1, <1>4, <1>5, <1>6, <1>7

\* Of a message taken out there is no second one, if each has its own sender.
LEMMA TakeOutOne ==
    ASSUME NEW s \in Seq(Messages), NEW i \in DOMAIN s,
           \A j, k \in DOMAIN s : s[j].from = s[k].from => j = k
    PROVE  LET r == RemoveAt(s, i)
           IN  /\ r \in Seq(Messages) /\ ToSet(r) = ToSet(s) \ {s[i]}
               /\ \A j, k \in DOMAIN r : r[j].from = r[k].from => j = k
<1> DEFINE r == RemoveAt(s, i)
           old(j) == IF j < i THEN j ELSE j + 1
<1>1. /\ r \in Seq(Messages) /\ DOMAIN r = 1 .. Len(s) - 1
      /\ Len(s) \in Nat /\ DOMAIN s = 1 .. Len(s)
      /\ \A j \in DOMAIN r : r[j] = s[old(j)]
  BY TakeOut
<1> HIDE DEF r
<1>2. \A j \in DOMAIN r : old(j) \in DOMAIN s /\ old(j) # i
  BY <1>1
<1>3. \A j, k \in DOMAIN r : old(j) = old(k) => j = k
  BY <1>1
<1>4. \A j \in DOMAIN s : j # i => \E k \in DOMAIN r : old(k) = j
  <2>1. SUFFICES ASSUME NEW j \in DOMAIN s, j # i PROVE \E k \in DOMAIN r : old(k) = j
    OBVIOUS
  <2>2. CASE j < i
    BY <1>1, <2>2
  <2>3. CASE j > i
    <3>1. j - 1 \in DOMAIN r /\ old(j - 1) = j
      BY <1>1, <2>3
    <3> QED
      BY <3>1
  <2> QED
    BY <1>1, <2>1, <2>2, <2>3
<1> HIDE DEF old
<1>5. \A j, k \in DOMAIN r : r[j].from = r[k].from => j = k
  BY <1>1, <1>2, <1>3
<1>6. ToSet(r) = {r[j] : j \in DOMAIN r} /\ ToSet(s) = {s[j] : j \in DOMAIN s}
  BY DEF ToSet
<1>7. ToSet(r) \subseteq ToSet(s) \ {s[i]}
  <2>1. \A j \in DOMAIN r : r[j] \in ToSet(s) /\ r[j] # s[i]
    BY <1>1, <1>2, <1>6
  <2> QED
    BY <1>6, <2>1
<1>8. ToSet(s) \ {s[i]} \subseteq ToSet(r)
  BY <1>1, <1>4, <1>6
<1> QED
  BY <1>1, <1>5, <1>7, <1>8 DEF r

\* The first message is taken out.
LEMMA TakeFirst ==
    ASSUME NEW s \in Seq(Messages), s # << >>,
           \A j, k \in DOMAIN s : s[j].from = s[k].from => j = k
    PROVE  /\ Head(s) \in Messages /\ Head(s) \in ToSet(s)
           /\ Tail(s) \in Seq(Messages) /\ ToSet(Tail(s)) = ToSet(s) \ {Head(s)}
           /\ \A j, k \in DOMAIN Tail(s) : Tail(s)[j].from = Tail(s)[k].from => j = k
<1>1. /\ Head(s) = s[1] /\ 1 \in DOMAIN s /\ s[1] \in Messages /\ Len(s) \in Nat \ {0}
      /\ Tail(s) \in Seq(Messages) /\ DOMAIN Tail(s) = 1 .. Len(s) - 1 /\ DOMAIN s = 1 .. Len(s)
      /\ \A j \in DOMAIN Tail(s) : Tail(s)[j] = s[j + 1] /\ j + 1 \in DOMAIN s /\ j + 1 # 1
  OBVIOUS
<1>2. \A j, k \in DOMAIN Tail(s) : Tail(s)[j].from = Tail(s)[k].from => j = k
  BY <1>1
<1>3. ToSet(Tail(s)) = {Tail(s)[j] : j \in DOMAIN Tail(s)} /\ ToSet(s) = {s[j] : j \in DOMAIN s}
  BY DEF ToSet
<1>4. ToSet(Tail(s)) \subseteq ToSet(s) \ {s[1]}
  <2>1. \A j \in DOMAIN Tail(s) : Tail(s)[j] \in ToSet(s) /\ Tail(s)[j] # s[1]
    BY <1>1, <1>3
  <2> QED
    BY <1>3, <2>1
<1>5. ToSet(s) \ {s[1]} \subseteq ToSet(Tail(s))
  <2>1. ASSUME NEW j \in DOMAIN s, j # 1 PROVE s[j] \in ToSet(Tail(s))
    <3>1. j - 1 \in DOMAIN Tail(s) /\ Tail(s)[j - 1] = s[j]
      BY <1>1, <2>1
    <3> QED
      BY <1>3, <3>1
  <2> QED
    BY <1>3, <2>1
<1> QED
  BY <1>1, <1>2, <1>3, <1>4, <1>5

\* Messages are what the inbox holds.
LEMMA InInbox ==
    ASSUME NEW S, NEW s \in Seq(S)
    PROVE  ToSet(s) \subseteq S /\ \A i \in DOMAIN s : s[i] \in ToSet(s)
<1>1. \A i \in DOMAIN s : s[i] \in S
  OBVIOUS
<1> QED
  BY <1>1 DEF ToSet


----------------------------------------------------------------------------
(* Types *)

\* The values for nothing are of their types.
LEMMA Shapes ==
    /\ Empty \in [size : Size, data : Datum] /\ EmptyParcel \in Parcels
    /\ NoReply \in [ret : Ret, parcel : Parcels] /\ NotHeard \in [ret : Ret, data : Datum]
    /\ NoResponse \in Responses /\ NoRequest \in Requests
    /\ NewNotifier \in [value : Responses, count : Nat]
<1>1. NoData \in Datum /\ "empty" \in Size /\ "none" \in Ret /\ NoClient \in Clients \cup {NoClient}
  BY DEF Datum, Size, Ret
<1>2. EmptyParcel \in Parcels
  BY <1>1 DEF EmptyParcel, Parcels
<1>3. NoResponse \in Responses
  BY <1>1 DEF NoResponse, Responses
<1>4. NoRequest \in Requests
  BY <1>1 DEF NoRequest, Requests
<1> QED
  BY <1>1, <1>2, <1>3, <1>4 DEF Empty, NoReply, NotHeard, NewNotifier

\* What a process pushes, and the segment it is pushed into.
LEMMA SegmentTyped ==
    ASSUME ShmOK, NEW p \in Procs, NEW k \in Key \cup {NoKey}
    PROVE  Segment(p, k) \in Parcels
<1>1. pushing[p].size \in Size /\ NoData \in Datum
  BY DEF ShmOK, Datum
<1> QED
  BY <1>1 DEF Segment, Parcels

LEMMA ReplyTyped ==
    ASSUME PostOK, NEW c, NEW ret \in Ret, NEW parcel \in Parcels, Reply(c, ret, parcel)
    PROVE  reply' \in [Clients -> [ret : Ret, parcel : Parcels]] /\ lost' \subseteq Key
<1>1. [ret |-> ret, parcel |-> parcel] \in [ret : Ret, parcel : Parcels]
  OBVIOUS
<1>2. {parcel.key} \ {NoKey} \subseteq Key
  BY DEF Parcels
<1> QED
  BY <1>1, <1>2 DEF PostOK, Reply

LEMMA FreeTyped ==
    ASSUME heap \subseteq Blocks, NEW blocks, Free(blocks)
    PROVE  heap' \subseteq Blocks /\ freedTwice' \in BOOLEAN
<1>1. heap' \subseteq Blocks
  BY DEF Free
<1>2. freedTwice' \in BOOLEAN
  BY Zenon DEF Free
<1> QED
  BY <1>1, <1>2

LEMMA SendTyped ==
    ASSUME TypeOK, NEW p \in Procs, NEW parcel \in Parcels, Send(p, parcel), calls' = calls, heard' = heard
    PROVE  ClientOK' /\ PostOK' /\ ServerOK'
<1>1. CASE p \in Clients /\ call' = [call EXCEPT ![p] = "sent"]
             /\ inbox' = Append(inbox, [from |-> p, parcel |-> parcel])
             /\ UNCHANGED <<serverVars, reply, lost, heapVars>>
  <2>1. [from |-> p, parcel |-> parcel] \in Messages
    BY <1>1 DEF Messages
  <2>2. inbox' \in Seq(Messages)
    BY <1>1, <2>1, AddLast DEF TypeOK, PostOK
  <2>3. PostOK'
    BY <1>1, <2>2 DEF TypeOK, PostOK
  <2>4. ClientOK'
    BY <1>1 DEF TypeOK, ClientOK
  <2>5. ServerOK'
    BY <1>1 DEF TypeOK, ServerOK, serverVars, heapVars
  <2> QED
    BY <2>3, <2>4, <2>5
<1>2. CASE p = Server /\ server' = "idle" /\ serving' = NoClient
             /\ Reply(serving, "success", parcel) /\ Free({"output"})
             /\ UNCHANGED <<call, inbox>>
  <2>1. reply' \in [Clients -> [ret : Ret, parcel : Parcels]] /\ lost' \subseteq Key
    BY <1>2, ReplyTyped DEF TypeOK, Ret
  <2>2. heap' \subseteq Blocks /\ freedTwice' \in BOOLEAN
    BY <1>2, FreeTyped DEF TypeOK, ServerOK
  <2>3. ServerOK'
    BY <1>2, <2>2 DEF ServerOK
  <2> QED
    BY <1>2, <2>1, <2>3 DEF TypeOK, ClientOK, PostOK
<1> QED
  BY <1>1, <1>2 DEF Send

\* The next key is a key.
LEMMA AdvanceTyped ==
    ASSUME ShmOK, NEW p \in Procs, Advance(p) \/ UNCHANGED shmKey
    PROVE  shmKey' \in [Procs -> Key]
<1>1. \A n \in Key : (n + 1) % NumKeys \in Key
  BY SyncAssumption DEF Key
<1> QED
  BY <1>1 DEF ShmOK, Advance

LEMMA PushTyped ==
    ASSUME TypeOK, NEW p \in Procs, Push(p)
    PROVE  TypeOK'
<1>1. ShmOK /\ shm \in [Key -> Datum] /\ shmKey \in [Procs -> Key] /\ attempts \in [Procs -> Nat]
      /\ pushing \in [Procs -> [size : Size, data : Datum]]
  BY DEF TypeOK, ShmOK
<1>2. ASSUME Pushed(p)
      PROVE  attempts' \in [Procs -> Nat] /\ pushing' \in [Procs -> [size : Size, data : Datum]]
  BY <1>1, <1>2, Shapes DEF Pushed
<1>3. CASE PushRetry(p)
  <2>1. attempts' \in [Procs -> Nat]
    <3>1. attempts[p] - 1 \in Nat
      BY <1>1, <1>3 DEF PushRetry
    <3> QED
      BY <1>1, <1>3, <3>1 DEF PushRetry
  <2>2. ShmOK'
    BY <1>1, <1>3, <2>1, AdvanceTyped DEF PushRetry, ShmOK
  <2> QED
    BY <1>3, <2>2 DEF TypeOK, PushRetry, ClientOK, PostOK, ServerOK, EngineOK, GhostOK,
       clientVars, serverVars, heapVars, engineVars
<1>4. ASSUME NEW k \in Key \cup {NoKey}, Pushed(p), Send(p, Segment(p, k)),
             Advance(p) \/ UNCHANGED shmKey, shm' \in [Key -> Datum],
             UNCHANGED <<calls, heard, engineVars, notifier, misread, starved>>
      PROVE  TypeOK'
  <2>1. ShmOK'
    BY <1>1, <1>2, <1>4, AdvanceTyped DEF ShmOK
  <2>2. ClientOK' /\ PostOK' /\ ServerOK'
    BY <1>1, <1>4, SegmentTyped, SendTyped
  <2>3. EngineOK' /\ GhostOK'
    BY <1>4 DEF TypeOK, EngineOK, GhostOK, engineVars
  <2> QED
    BY <2>1, <2>2, <2>3 DEF TypeOK
<1>5. CASE PushExhausted(p)
  BY <1>1, <1>4, <1>5 DEF PushExhausted
<1>6. CASE PushShared(p)
  <2>1. shmKey[p] \in Key /\ pushing[p].data \in Datum
    BY <1>1
  <2>2. shm' \in [Key -> Datum]
    BY <1>1, <1>6, <2>1 DEF PushShared
  <2> QED
    BY <1>4, <1>6, <2>1, <2>2 DEF PushShared
<1>7. CASE PushFails(p)
  BY <1>1, <1>4, <1>7 DEF PushFails
<1> QED
  BY <1>3, <1>5, <1>6, <1>7 DEF Push

\* How unparcelling may end.  A parcel that carries the input of c, and is not
\* misread, gives that input or fails, and its segment goes in either case.
Outcomes == [ok : BOOLEAN, data : Datum, released : SUBSET Key, wrong : BOOLEAN]

LEMMA PopSharedEnds ==
    ASSUME ShmOK, NEW size \in Size, NEW k \in Key, NEW o \in IpcIoPopSharedMemory(size, k)
    PROVE  /\ o \in Outcomes /\ o.released = {k} /\ ~o.wrong
           /\ o.ok => o.data = shm[k]
<1>1. shm[k] \in Datum /\ NoData \in Datum
  BY DEF ShmOK, Datum
<1>2. CASE o = [ok |-> size # "huge" /\ shm[k] # NoData, data |-> shm[k], released |-> {k}, wrong |-> FALSE]
  BY <1>1, <1>2 DEF Outcomes
<1>3. CASE o = Failed({k})
  BY <1>1, <1>3 DEF Outcomes, Failed
<1> QED
  BY <1>2, <1>3 DEF IpcIoPopSharedMemory

LEMMA UnParcelEnds ==
    ASSUME ShmOK, NEW parcel \in Parcels, NEW o \in UnParcelDataInfo(parcel)
    PROVE  /\ o \in Outcomes
           /\ \A c \in Clients : Carries(parcel, c) /\ ~o.wrong =>
                 /\ o.released = {parcel.key} \ {NoKey}
                 /\ o.ok => o.data = IF parcel.size = "empty" THEN NoData ELSE Input(c)
<1>1. parcel.size \in Size /\ parcel.data \in Datum /\ parcel.key \in Key \cup {NoKey}
      /\ NoData \in Datum
  BY DEF Parcels, Datum
<1>2. CASE parcel.size = "empty"
  <2>1. o = [ok |-> TRUE, data |-> NoData, released |-> {}, wrong |-> FALSE]
    BY <1>2 DEF UnParcelDataInfo
  <2> QED
    BY <1>1, <1>2, <2>1 DEF Outcomes, Carries
<1>3. CASE parcel.size = "inline"
  <2>1. o \in IpcIoPopMemory(parcel)
    BY <1>3 DEF UnParcelDataInfo
  <2>2. \/ o = [ok |-> TRUE, data |-> parcel.data, released |-> {}, wrong |-> FALSE]
        \/ o = Failed({})
    BY <2>1 DEF IpcIoPopMemory
  <2>3. CASE o = [ok |-> TRUE, data |-> parcel.data, released |-> {}, wrong |-> FALSE]
    BY <1>1, <1>3, <2>3 DEF Outcomes, Carries
  <2>4. CASE o = Failed({})
    BY <1>1, <1>3, <2>4 DEF Outcomes, Carries, Failed
  <2> QED
    BY <2>2, <2>3, <2>4
<1>4. CASE parcel.size \in {"shared", "huge"} /\ parcel.key = NoKey
  <2>1. o \in PopMissing(parcel.size)
    BY <1>4 DEF UnParcelDataInfo
  <2>2. CASE o = Failed({})
    BY <1>1, <1>4, <2>2 DEF Outcomes, Failed
  <2>3. CASE o # Failed({})
    <3>1. PICK k \in Key : \E q \in IpcIoPopSharedMemory(parcel.size, k) : o = [q EXCEPT !.wrong = TRUE]
      BY <2>1, <2>3 DEF PopMissing
    <3>2. PICK q \in IpcIoPopSharedMemory(parcel.size, k) : o = [q EXCEPT !.wrong = TRUE]
      BY <3>1
    <3>3. q \in Outcomes
      BY <1>1, <3>2, PopSharedEnds
    <3> QED
      BY <3>2, <3>3 DEF Outcomes
  <2> QED
    BY <2>2, <2>3
<1>5. CASE parcel.size \in {"shared", "huge"} /\ parcel.key # NoKey
  <2>1. o \in IpcIoPopSharedMemory(parcel.size, parcel.key)
    BY <1>5 DEF UnParcelDataInfo
  <2>2. o \in Outcomes /\ o.released = {parcel.key} /\ (o.ok => o.data = shm[parcel.key])
    BY <1>1, <1>5, <2>1, PopSharedEnds
  <2> QED
    BY <1>5, <2>2 DEF Carries
<1> QED
  BY <1>1, <1>2, <1>3, <1>4, <1>5 DEF Size

LEMMA PoppedTyped ==
    ASSUME TypeOK, NEW o \in Outcomes, Popped(o)
    PROVE  /\ shm' \in [Key -> Datum] /\ misread' \in BOOLEAN
           /\ ~misread' <=> ~misread /\ ~o.wrong
           /\ shm' = [k \in Key |-> IF k \in o.released THEN NoData ELSE shm[k]]
<1>1. \A k \in Key : shm[k] \in Datum /\ NoData \in Datum
  BY DEF TypeOK, ShmOK, Datum
<1>2. misread' = (misread \/ o.wrong) /\ misread \in BOOLEAN /\ o.wrong \in BOOLEAN
  BY DEF Popped, TypeOK, GhostOK, Outcomes
<1> QED
  BY <1>1, <1>2 DEF Popped

\* The message the service reads.
LEMMA MessageTyped ==
    ASSUME TypeOK, MayInvoke
    PROVE  /\ Message \in Messages /\ Message \in ToSet(inbox)
           /\ Message.from \in Clients /\ Message.parcel \in Parcels
           /\ Tail(inbox) \in Seq(Messages)
<1>1. inbox \in Seq(Messages) /\ inbox # << >>
  BY DEF TypeOK, PostOK, MayInvoke
<1>2. Head(inbox) \in Messages /\ Tail(inbox) \in Seq(Messages) /\ Head(inbox) = inbox[1]
      /\ 1 \in DOMAIN inbox
  BY <1>1
<1>3. Head(inbox) \in ToSet(inbox)
  BY <1>1, <1>2, InInbox
<1> QED
  BY <1>2, <1>3 DEF Message, Messages

\* Each step keeps the types: the client's,
LEMMA ClientTyped ==
    ASSUME TypeOK, NEW c \in Clients,
           \/ \E size \in Size \ {"empty"} : SyncExecAlgorithmProxy(c, size)
           \/ CallbackBuff(c) \/ InvokeLost(c) \/ Die(c) \/ DiePushing(c)
    PROVE  TypeOK'
<1> USE DEF shmVars, clientVars, serverVars, heapVars, engineVars
<1>1. ShmOK /\ ClientOK /\ PostOK /\ ServerOK /\ EngineOK /\ GhostOK /\ c \in Procs
  BY DEF TypeOK, Procs
<1>2. CASE \E size \in Size \ {"empty"} : SyncExecAlgorithmProxy(c, size)
  <2>1. PICK size \in Size \ {"empty"} : SyncExecAlgorithmProxy(c, size)
    BY <1>2
  <2> DEFINE x == [size |-> size, data |-> <<c, calls[c] + 1>>]
  <2>2. x \in [size : Size, data : Datum] /\ calls[c] + 1 \in Nat
    BY <1>1 DEF ClientOK, Datum, Data
  <2>3. calls' \in [Clients -> Nat] /\ heard' \in [Clients -> [ret : Ret, data : Datum]]
    BY <1>1, <2>1, <2>2, Shapes DEF SyncExecAlgorithmProxy, ClientSyncProcess, ClientOK
  <2>4. EngineOK' /\ GhostOK'
    BY <1>1, <2>1 DEF SyncExecAlgorithmProxy, EngineOK, GhostOK
  <2>5. CASE size = "inline"
    <3>1. /\ call' = [call EXCEPT ![c] = "sent"]
          /\ inbox' = Append(inbox, [from |-> c, parcel |-> ParcelDataInfo(x)])
          /\ UNCHANGED <<shm, shmKey, attempts, pushing, serverVars, reply, lost, heapVars>>
      BY <2>1, <2>5, SyncAssumption DEF SyncExecAlgorithmProxy, Send
    <3>2. ParcelDataInfo(x) \in Parcels
      BY <2>2 DEF ParcelDataInfo, Parcels
    <3>3. [from |-> c, parcel |-> ParcelDataInfo(x)] \in Messages
      BY <3>2 DEF Messages
    <3>4. inbox' \in Seq(Messages)
      BY <1>1, <3>1, <3>3, AddLast DEF PostOK
    <3>5. PostOK'
      BY <1>1, <3>1, <3>4 DEF PostOK
    <3>6. ClientOK'
      BY <1>1, <2>3, <3>1 DEF ClientOK
    <3>7. ShmOK' /\ ServerOK'
      BY <1>1, <3>1 DEF ShmOK, ServerOK
    <3> QED
      BY <2>4, <3>5, <3>6, <3>7 DEF TypeOK
  <2>6. CASE size # "inline"
    <3>1. /\ call' = [call EXCEPT ![c] = "push"] /\ AcquireShmSegment(c, x)
          /\ UNCHANGED <<shm, shmKey, inbox, reply, lost, serverVars, heapVars>>
      BY <2>1, <2>6 DEF SyncExecAlgorithmProxy
    <3>2. attempts' \in [Procs -> Nat] /\ pushing' \in [Procs -> [size : Size, data : Datum]]
      BY <1>1, <2>2, <3>1, SyncAssumption DEF ShmOK, AcquireShmSegment
    <3>3. ClientOK'
      BY <1>1, <2>3, <3>1 DEF ClientOK
    <3>4. ShmOK' /\ PostOK' /\ ServerOK'
      BY <1>1, <3>1, <3>2 DEF ShmOK, PostOK, ServerOK
    <3> QED
      BY <2>4, <3>3, <3>4 DEF TypeOK
  <2> QED
    BY <2>5, <2>6
<1>3. CASE CallbackBuff(c)
  <2>1. PICK o \in UnParcelDataInfo(reply[c].parcel) :
           /\ Popped(o)
           /\ heard' = [heard EXCEPT ![c] = [ret |-> IF o.ok THEN reply[c].ret ELSE "failure",
                                             data |-> IF o.ok THEN o.data ELSE NoData]]
    BY <1>3 DEF CallbackBuff
  <2>2. reply[c].parcel \in Parcels /\ reply[c].ret \in Ret
    BY <1>1 DEF PostOK
  <2>3. o \in Outcomes
    BY <1>1, <2>1, <2>2, UnParcelEnds
  <2>4. shm' \in [Key -> Datum] /\ misread' \in BOOLEAN
    BY <2>1, <2>3, PoppedTyped
  <2>5. heard' \in [Clients -> [ret : Ret, data : Datum]]
    <3>1. (IF o.ok THEN reply[c].ret ELSE "failure") \in Ret
      BY <2>2 DEF Ret
    <3>2. (IF o.ok THEN o.data ELSE NoData) \in Datum
      BY <2>3 DEF Outcomes, Datum
    <3> QED
      BY <1>1, <2>1, <3>1, <3>2 DEF ClientOK
  <2>6. ClientOK'
    BY <1>1, <1>3, <2>5 DEF CallbackBuff, ClientOK
  <2>7. PostOK'
    BY <1>1, <1>3, Shapes DEF CallbackBuff, PostOK
  <2>8. ShmOK' /\ ServerOK' /\ EngineOK' /\ GhostOK'
    BY <1>1, <1>3, <2>4 DEF CallbackBuff, ShmOK, ServerOK, EngineOK, GhostOK
  <2> QED
    BY <2>6, <2>7, <2>8 DEF TypeOK
<1>4. CASE InvokeLost(c)
  <2>1. PICK i \in DOMAIN inbox : inbox' = RemoveAt(inbox, i)
                                 /\ lost' = lost \cup ({inbox[i].parcel.key} \ {NoKey})
    BY <1>4 DEF InvokeLost
  <2>2. inbox' \in Seq(Messages)
    BY <1>1, <2>1, TakeOut DEF PostOK
  <2>3. lost' \subseteq Key
    <3>1. inbox[i] \in Messages
      BY <1>1 DEF PostOK
    <3>2. inbox[i].parcel.key \in Key \cup {NoKey}
      BY <3>1 DEF Messages, Parcels
    <3> QED
      BY <1>1, <2>1, <3>2 DEF PostOK
  <2>4. ClientOK'
    BY <1>1, <1>4 DEF InvokeLost, ClientOK, Ret, Datum
  <2>5. PostOK'
    BY <1>1, <1>4, <2>2, <2>3 DEF InvokeLost, PostOK
  <2>6. ShmOK' /\ ServerOK' /\ EngineOK' /\ GhostOK'
    BY <1>1, <1>4 DEF InvokeLost, ShmOK, ServerOK, EngineOK, GhostOK
  <2> QED
    BY <2>4, <2>5, <2>6 DEF TypeOK
<1>5. ASSUME Gone(c), calls' = calls
      PROVE  /\ ClientOK' /\ shmKey' \in [Procs -> Key] /\ attempts' \in [Procs -> Nat]
             /\ pushing' \in [Procs -> [size : Size, data : Datum]]
  <2>1. shmKey' \in [Procs -> Key]
    BY <1>1, <1>5, SyncAssumption DEF Gone, ShmOK, Key
  <2>2. attempts' \in [Procs -> Nat] /\ pushing' \in [Procs -> [size : Size, data : Datum]]
    BY <1>1, <1>5, Shapes DEF Gone, Pushed, ShmOK
  <2>3. ClientOK'
    BY <1>1, <1>5, Shapes DEF Gone, ClientOK
  <2> QED
    BY <2>1, <2>2, <2>3
<1>6. CASE Die(c)
  <2>1. lost' \subseteq Key
    <3>1. reply[c].parcel.key \in Key \cup {NoKey}
      BY <1>1 DEF PostOK, Parcels
    <3> QED
      BY <1>1, <1>6, <3>1 DEF Die, PostOK
  <2>2. PostOK'
    BY <1>1, <1>6, <2>1, Shapes DEF Die, PostOK
  <2>3. ShmOK' /\ ClientOK' /\ ServerOK' /\ EngineOK' /\ GhostOK'
    BY <1>1, <1>5, <1>6 DEF Die, ShmOK, ServerOK, EngineOK, GhostOK
  <2> QED
    BY <2>2, <2>3 DEF TypeOK
<1>7. CASE DiePushing(c)
  <2>1. shmKey[c] \in Key /\ pushing[c].data \in Datum
    BY <1>1 DEF ShmOK
  <2>2. shm' \in [Key -> Datum] /\ lost' \subseteq Key
    BY <1>1, <1>7, <2>1 DEF DiePushing, ShmOK, PostOK
  <2>3. ShmOK' /\ ClientOK' /\ PostOK' /\ ServerOK' /\ EngineOK' /\ GhostOK'
    BY <1>1, <1>5, <1>7, <2>2 DEF DiePushing, ShmOK, PostOK, ServerOK, EngineOK, GhostOK
  <2> QED
    BY <2>3 DEF TypeOK
<1> QED
  BY <1>2, <1>3, <1>4, <1>6, <1>7

\* the service's,
LEMMA ServerTyped ==
    ASSUME TypeOK, UnParcelInfoFails \/ InvokeFails \/ InvokeRefused \/ SendRequest \/ ReceiveResponse
    PROVE  TypeOK'
<1> USE DEF shmVars, clientVars, serverVars, heapVars, engineVars
<1>1. ShmOK /\ ClientOK /\ PostOK /\ ServerOK /\ EngineOK /\ GhostOK
  BY DEF TypeOK
<1>2. "failure" \in Ret /\ "success" \in Ret
  BY DEF Ret
<1>3. CASE UnParcelInfoFails
  <2>1. Message.from \in Clients /\ Message.parcel.key \in Key \cup {NoKey} /\ Tail(inbox) \in Seq(Messages)
    BY <1>3, MessageTyped DEF UnParcelInfoFails, Parcels
  <2>2. reply' \in [Clients -> [ret : Ret, parcel : Parcels]]
    BY <1>1, <1>2, <1>3, Shapes DEF UnParcelInfoFails, PostOK
  <2>3. lost' \subseteq Key
    BY <1>1, <1>3, <2>1 DEF UnParcelInfoFails, PostOK
  <2>4. PostOK'
    BY <1>3, <2>1, <2>2, <2>3 DEF UnParcelInfoFails, PostOK
  <2> QED
    BY <1>1, <1>3, <2>4 DEF UnParcelInfoFails, TypeOK, ShmOK, ClientOK, ServerOK, EngineOK, GhostOK
<1>4. ASSUME MayInvoke, NEW o \in UnParcelDataInfo(Message.parcel), Popped(o),
             UNCHANGED <<shmKey, attempts, pushing, clientVars, starved>>
      PROVE  ShmOK' /\ ClientOK' /\ GhostOK' /\ o \in Outcomes
  <2>1. o \in Outcomes
    BY <1>1, <1>4, MessageTyped, UnParcelEnds
  <2>2. shm' \in [Key -> Datum] /\ misread' \in BOOLEAN
    BY <1>4, <2>1, PoppedTyped
  <2> QED
    BY <1>1, <1>4, <2>1, <2>2 DEF ShmOK, ClientOK, GhostOK
<1>5. ASSUME MayInvoke, Answer("failure"), inbox' = Tail(inbox)
      PROVE  PostOK'
  <2>1. reply' \in [Clients -> [ret : Ret, parcel : Parcels]] /\ lost' \subseteq Key
    BY <1>1, <1>2, <1>5, Shapes, ReplyTyped DEF Answer
  <2> QED
    BY <1>5, <2>1, MessageTyped DEF PostOK
<1>6. CASE InvokeFails
  <2>1. ShmOK' /\ ClientOK' /\ GhostOK'
    BY <1>4, <1>6 DEF InvokeFails
  <2>2. PostOK'
    BY <1>5, <1>6 DEF InvokeFails
  <2> QED
    BY <1>1, <1>6, <2>1, <2>2 DEF InvokeFails, TypeOK, ServerOK, EngineOK
<1>7. CASE InvokeRefused
  <2>1. ShmOK' /\ ClientOK' /\ GhostOK'
    BY <1>4, <1>7 DEF InvokeRefused
  <2>2. PostOK'
    BY <1>5, <1>7 DEF InvokeRefused
  <2>3. heap' \subseteq Blocks
    BY <1>1, <1>7 DEF InvokeRefused, ServerOK, Blocks
  <2> QED
    BY <1>1, <1>7, <2>1, <2>2, <2>3 DEF InvokeRefused, TypeOK, ServerOK, EngineOK
<1>8. CASE SendRequest
  <2>1. PICK o \in UnParcelDataInfo(Message.parcel) :
           Popped(o) /\ PushBack(ConvertToRequest(Message.from, o.data))
    BY <1>8 DEF SendRequest
  <2>2. ShmOK' /\ ClientOK' /\ GhostOK' /\ o \in Outcomes
    BY <1>4, <1>8, <2>1 DEF SendRequest
  <2>3. Message.from \in Clients /\ Tail(inbox) \in Seq(Messages)
    BY <1>8, MessageTyped DEF SendRequest
  <2>4. ConvertToRequest(Message.from, o.data) \in Requests
    BY <2>2, <2>3 DEF ConvertToRequest, Requests, Outcomes
  <2>5. queue' \in Seq(Requests) /\ notifier' \in [value : Responses, count : Nat]
    BY <1>1, <2>1, <2>4, AddLast, Shapes DEF PushBack, EngineOK
  <2>6. heap' \subseteq Blocks /\ serving' \in Clients \cup {NoClient} /\ server' = "wait"
    BY <1>1, <1>8, <2>3 DEF SendRequest, ServerOK, Blocks, RequestBlocks
  <2>7. PostOK'
    BY <1>1, <1>8, <2>3 DEF SendRequest, PostOK
  <2> QED
    BY <1>1, <1>8, <2>2, <2>5, <2>6, <2>7 DEF SendRequest, TypeOK, ServerOK, EngineOK
<1>9. CASE ReceiveResponse
  <2> DEFINE r == notifier.value
  <2>1. r \in Responses /\ r.ret \in Ret /\ r.size \in Size /\ r.data \in Datum
    BY <1>1 DEF EngineOK, Responses
  <2>2. GetResult(r) \in [size : Size, data : Datum] /\ GetRetCode(r) = r.ret
    BY <2>1 DEF GetResult, GetRetCode
  <2>3. EngineOK'
    BY <1>1, <1>9, Shapes DEF ReceiveResponse, GetFromFront, EngineOK
  <2>4. CASE r.ret = "success" /\ GetResult(r).size \in {"shared", "huge"}
    <3>1. server' = "push" /\ serving' = serving /\ AcquireShmSegment(Server, GetResult(r))
          /\ Free(Guarded(r)) /\ UNCHANGED <<reply, lost, shm, shmKey, clientVars, inbox, misread, starved>>
      BY <1>9, <2>2, <2>4 DEF ReceiveResponse
    <3>2. attempts' \in [Procs -> Nat] /\ pushing' \in [Procs -> [size : Size, data : Datum]]
      BY <1>1, <2>2, <3>1, SyncAssumption DEF ShmOK, AcquireShmSegment
    <3>3. heap' \subseteq Blocks /\ freedTwice' \in BOOLEAN
      BY <1>1, <3>1, FreeTyped DEF ServerOK
    <3>4. ServerOK'
      BY <1>1, <3>1, <3>3 DEF ServerOK
    <3> QED
      BY <1>1, <2>3, <3>1, <3>2, <3>4 DEF TypeOK, ShmOK, ClientOK, PostOK, GhostOK
  <2>5. CASE ~(r.ret = "success" /\ GetResult(r).size \in {"shared", "huge"})
    <3> DEFINE parcel == IF r.ret = "success" /\ GetResult(r).size = "inline"
                           THEN ParcelDataInfo(GetResult(r)) ELSE EmptyParcel
               freed == Guarded(r) \cup (IF GetResult(r).size = "inline" THEN {"output"} ELSE {})
    <3>1. server' = "idle" /\ serving' = NoClient /\ Reply(serving, r.ret, parcel) /\ Free(freed)
          /\ UNCHANGED <<attempts, pushing, shm, shmKey, clientVars, inbox, misread, starved>>
      BY <1>9, <2>2, <2>5 DEF ReceiveResponse
    <3>2. parcel \in Parcels
      BY <2>2, Shapes DEF ParcelDataInfo, Parcels
    <3> HIDE DEF parcel, freed
    <3>3. reply' \in [Clients -> [ret : Ret, parcel : Parcels]] /\ lost' \subseteq Key
      BY <1>1, <2>1, <3>1, <3>2, ReplyTyped
    <3>4. heap' \subseteq Blocks /\ freedTwice' \in BOOLEAN
      BY <1>1, <3>1, FreeTyped DEF ServerOK
    <3>5. ServerOK'
      BY <1>1, <3>1, <3>4 DEF ServerOK
    <3> QED
      BY <1>1, <2>3, <3>1, <3>3, <3>5 DEF TypeOK, ShmOK, ClientOK, PostOK, GhostOK
  <2> QED
    BY <2>4, <2>5
<1> QED
  BY <1>3, <1>6, <1>7, <1>8, <1>9

\* and the worker's.
LEMMA WorkerTyped ==
    ASSUME TypeOK, WorkerStep
    PROVE  TypeOK'
<1> USE DEF shmVars, clientVars, serverVars, heapVars, engineVars
<1>1. ShmOK /\ ClientOK /\ PostOK /\ ServerOK /\ EngineOK /\ GhostOK
  BY DEF TypeOK
<1>2. CASE PopFront
  <2>1. Head(queue) \in Requests /\ Tail(queue) \in Seq(Requests)
    BY <1>1, <1>2 DEF PopFront, EngineOK
  <2> QED
    BY <1>1, <1>2, <2>1 DEF PopFront, TypeOK, ShmOK, ClientOK, PostOK, ServerOK, EngineOK, GhostOK
<1>3. ASSUME NEW size \in Size, Process(size) PROVE TypeOK'
  <2>1. PICK ret \in {"success", "failure"} : Respond(ret, size)
    BY <1>3 DEF Process
  <2>2. Response(task, ret, size) \in Responses
    <3>1. task.transaction \in Clients \cup {NoClient} /\ task.msg \in Datum /\ NoData \in Datum
      BY <1>1 DEF EngineOK, Requests, Datum
    <3>2. (IF size = "empty" THEN NoData ELSE task.msg) \in Datum /\ ret \in Ret
      BY <3>1 DEF Ret
    <3> QED
      BY <3>1, <3>2 DEF Response, Responses, GetTransactionId, GetMsg
  <2>3. heap' \subseteq Blocks
    BY <1>1, <2>1 DEF Respond, ServerOK, Blocks, Output
  <2> QED
    BY <1>1, <1>3, <2>1, <2>2, <2>3, Shapes
       DEF Process, Respond, TypeOK, ShmOK, ClientOK, PostOK, ServerOK, EngineOK, GhostOK
<1>4. CASE ProcessGivesUp
  BY <1>1, <1>4 DEF ProcessGivesUp, TypeOK, ShmOK, ClientOK, PostOK, ServerOK, EngineOK, GhostOK
<1>5. CASE AddToBack
  BY <1>1, <1>5 DEF AddToBack, TypeOK, ShmOK, ClientOK, PostOK, ServerOK, EngineOK, GhostOK
<1>6. CASE Signal
  <2>1. notifier' \in [value : Responses, count : Nat]
    BY <1>1, <1>6 DEF Signal, EngineOK
  <2> QED
    BY <1>1, <1>6, <2>1, Shapes DEF Signal, TypeOK, ShmOK, ClientOK, PostOK, ServerOK, EngineOK, GhostOK
<1> QED
  BY <1>2, <1>3, <1>4, <1>5, <1>6 DEF WorkerStep

LEMMA TypesKept == TypeOK /\ [Next]_vars => TypeOK'
<1> SUFFICES ASSUME TypeOK, [Next]_vars PROVE TypeOK'
  OBVIOUS
<1>1. \A c \in Clients : c \in Procs
  BY DEF Procs
<1>2. Server \in Procs
  BY DEF Procs
<1>3. CASE UNCHANGED vars
  BY <1>3 DEF vars, TypeOK, ShmOK, ClientOK, PostOK, ServerOK, EngineOK, GhostOK
<1>4. CASE Next
  BY <1>1, <1>2, <1>4, PushTyped, ClientTyped, ServerTyped, WorkerTyped
     DEF Next, ClientStep, ServerStep
<1> QED
  BY <1>3, <1>4

----------------------------------------------------------------------------
(* The IPC task, the worker and the memory of the request. *)

flowVars == <<server, serving, heap, freedTwice, queue, worker, task, response, notifier>>

\* The flow depends on the server's part of the state only.
LEMMA FlowFrame ==
    ASSUME FlowInv, UNCHANGED flowVars
    PROVE  FlowInv'
BY DEF flowVars, FlowInv, Allocated, InQueue, WithWorker, InNotifier, GivenUp, Answered, RequestFollowed

\* A message leaves: one of a client, or the answer of the service.
LEMMA SendFlow ==
    ASSUME TypeOK, FlowInv, NEW p \in Procs, IsPushing(p), NEW parcel, Send(p, parcel),
           UNCHANGED <<engineVars, notifier>>
    PROVE  FlowInv'
<1>1. CASE UNCHANGED <<serverVars, heapVars>>
  BY <1>1, FlowFrame DEF flowVars, serverVars, heapVars, engineVars
<1>2. CASE p = Server /\ server' = "idle" /\ serving' = NoClient /\ Free({"output"})
  <2>1. server = "push"
    BY <1>2 DEF IsPushing
  <2>2. Allocated = {"output"} /\ GivenUp /\ ~freedTwice
    BY <2>1 DEF FlowInv
  <2>3. ~freedTwice' /\ Allocated' = {}
    BY <1>2, <2>2 DEF Free, Allocated
  <2>4. GivenUp'
    BY <2>2 DEF GivenUp, engineVars
  <2> QED
    BY <1>2, <2>3, <2>4 DEF FlowInv
<1> QED
  BY <1>1, <1>2 DEF Send

LEMMA PushFlow ==
    ASSUME TypeOK, FlowInv, NEW p \in Procs, Push(p)
    PROVE  FlowInv'
<1>1. CASE PushRetry(p)
  BY <1>1, FlowFrame DEF PushRetry, flowVars, serverVars, heapVars, engineVars
<1>2. CASE PushExhausted(p)
  BY <1>2, SendFlow DEF PushExhausted
<1>3. CASE PushShared(p)
  BY <1>3, SendFlow DEF PushShared
<1>4. CASE PushFails(p)
  BY <1>4, SendFlow DEF PushFails
<1> QED
  BY <1>1, <1>2, <1>3, <1>4 DEF Push

LEMMA ClientFlow ==
    ASSUME TypeOK, FlowInv, NEW c \in Clients,
           \/ \E size \in Size \ {"empty"} : SyncExecAlgorithmProxy(c, size)
           \/ CallbackBuff(c) \/ InvokeLost(c) \/ Die(c) \/ DiePushing(c)
    PROVE  FlowInv'
<1>1. c # Server
  BY SyncAssumption
<1>2. UNCHANGED flowVars
  BY <1>1 DEF SyncExecAlgorithmProxy, Send, CallbackBuff, InvokeLost, Die, DiePushing,
     flowVars, serverVars, heapVars, engineVars
<1> QED
  BY <1>2, FlowFrame

\* The IPC task reads a message.
LEMMA InvokeFlow ==
    ASSUME TypeOK, FlowInv, UnParcelInfoFails \/ InvokeFails \/ InvokeRefused \/ SendRequest
    PROVE  FlowInv'
<1> USE DEF serverVars, heapVars, engineVars
<1>1. CASE UnParcelInfoFails \/ InvokeFails
  BY <1>1, FlowFrame DEF UnParcelInfoFails, InvokeFails, flowVars
<1>2. CASE InvokeRefused
  <2>1. Allocated' = Allocated /\ server = "idle" /\ server' = "idle"
    BY <1>2 DEF InvokeRefused, MayInvoke, Allocated
  <2>2. GivenUp' /\ ~freedTwice' /\ serving' = NoClient
    BY <1>2, <2>1 DEF InvokeRefused, FlowInv, GivenUp
  <2> QED
    BY <2>1, <2>2 DEF FlowInv
<1>3. CASE SendRequest
  <2>1. PICK o \in UnParcelDataInfo(Message.parcel) :
           Popped(o) /\ PushBack(ConvertToRequest(Message.from, o.data))
    BY <1>3 DEF SendRequest
  <2>2. Message.from \in Clients
    BY <1>3, MessageTyped DEF SendRequest
  <2>3. server = "idle" /\ Allocated = {} /\ GivenUp /\ ~freedTwice
    BY <1>3 DEF SendRequest, MayInvoke, FlowInv
  <2>4. /\ server' = "wait" /\ serving' = Message.from /\ heap' = heap \cup RequestBlocks
        /\ freedTwice' = freedTwice /\ worker' = worker
        /\ queue' = Append(queue, ConvertToRequest(Message.from, o.data)) /\ notifier' = NewNotifier
    BY <1>3, <2>1 DEF SendRequest, PushBack
  <2>5. Len(queue') = 1 /\ Head(queue') = ConvertToRequest(Message.from, o.data)
    BY <2>3, <2>4 DEF GivenUp
  <2>6. InQueue'
    BY <2>3, <2>4, <2>5 DEF GivenUp, InQueue, NewNotifier
  <2>7. Allocated' = RequestBlocks
    BY <2>3, <2>4 DEF Allocated, RequestBlocks
  <2>8. Head(queue').transaction = serving'
    BY <2>4, <2>5 DEF ConvertToRequest
  <2>9. ~WithWorker' /\ ~InNotifier'
    BY <2>6 DEF InQueue, WithWorker, InNotifier
  <2>10. RequestFollowed'
    BY <2>6, <2>7, <2>8, <2>9 DEF RequestFollowed
  <2> QED
    BY <2>2, <2>3, <2>4, <2>6, <2>10 DEF FlowInv
<1> QED
  BY <1>1, <1>2, <1>3

\* The IPC task wakes up when, and only when, the worker is done with the request.
LEMMA ReceiveFlow ==
    ASSUME TypeOK, FlowInv, ReceiveResponse
    PROVE  FlowInv'
<1> DEFINE r == notifier.value
<1>1. server = "wait" /\ notifier.count > 0 /\ notifier.count \in Nat
  BY DEF ReceiveResponse, SemaphoreUp, TypeOK, EngineOK
<1>2. InNotifier /\ Answered(r) /\ ~freedTwice /\ serving \in Clients
  BY <1>1 DEF FlowInv, RequestFollowed, InQueue, WithWorker, InNotifier, GivenUp
<1>3. GivenUp'
  BY <1>2 DEF InNotifier, GivenUp, ReceiveResponse, GetFromFront, NewNotifier, engineVars
<1>4. Allocated = RequestBlocks \cup {"response"} \cup Output(r)
  BY <1>2 DEF Answered
<1>5. GetResult(r).size = r.size /\ GetRetCode(r) = r.ret
  BY DEF GetResult, GetRetCode
<1> HIDE DEF r
<1>6. CASE r.ret = "success" /\ r.size \in {"shared", "huge"}
  <2>1. server' = "push" /\ serving' = serving /\ Free(Guarded(r))
    BY <1>5, <1>6 DEF ReceiveResponse, r
  <2>2. Guarded(r) = RequestBlocks \cup {"response"} /\ Output(r) = {"output"}
    BY <1>5, <1>6 DEF Guarded, Output
  <2>3. ~freedTwice' /\ Allocated' = {"output"}
    BY <1>2, <1>4, <2>1, <2>2 DEF Free, Allocated, RequestBlocks
  <2> QED
    BY <1>2, <1>3, <2>1, <2>3 DEF FlowInv
<1>7. CASE ~(r.ret = "success" /\ r.size \in {"shared", "huge"})
  <2>1. /\ server' = "idle" /\ serving' = NoClient
        /\ Free(Guarded(r) \cup (IF r.size = "inline" THEN {"output"} ELSE {}))
    BY <1>5, <1>7 DEF ReceiveResponse, r
  <2>2. r.size \in Size
    BY DEF TypeOK, EngineOK, Responses, r
  <2>3. Guarded(r) \cup (IF r.size = "inline" THEN {"output"} ELSE {}) = Allocated
    BY <1>4, <1>5, <1>7, <2>2 DEF Guarded, Output, Size
  <2>4. ~freedTwice' /\ Allocated' = {}
    BY <1>2, <2>1, <2>3 DEF Free, Allocated
  <2> QED
    BY <1>3, <2>1, <2>4 DEF FlowInv
<1> QED
  BY <1>6, <1>7

LEMMA WorkerFlow ==
    ASSUME TypeOK, FlowInv, WorkerStep
    PROVE  FlowInv'
<1> USE DEF serverVars, heapVars
<1>1. CASE PopFront
  <2>1. server = "wait" /\ InQueue /\ RequestFollowed /\ ~freedTwice /\ serving \in Clients
    BY <1>1 DEF PopFront, FlowInv, InQueue, WithWorker, InNotifier, GivenUp
  <2>2. Tail(queue) = << >>
    <3>1. queue \in Seq(Requests) /\ Len(queue) = 1
      BY <2>1 DEF InQueue, TypeOK, EngineOK
    <3>2. Tail(queue) \in Seq(Requests) /\ Len(Tail(queue)) = 0
      BY <3>1
    <3> QED
      BY <3>2, EmptySeq
  <2>3. WithWorker' /\ worker' = "process" /\ ~InQueue' /\ ~InNotifier'
    BY <1>1, <2>1, <2>2 DEF PopFront, WithWorker, InQueue, InNotifier
  <2>4. task' = Head(queue) /\ Allocated' = Allocated
    BY <1>1 DEF PopFront, Allocated
  <2>5. RequestFollowed'
    BY <1>1, <2>1, <2>3, <2>4 DEF RequestFollowed, PopFront
  <2> QED
    BY <1>1, <2>1, <2>3, <2>5 DEF FlowInv, PopFront
<1>2. ASSUME NEW size \in Size, Process(size) PROVE FlowInv'
  <2>1. PICK ret \in {"success", "failure"} : Respond(ret, size)
    BY <1>2 DEF Process
  <2>2. server = "wait" /\ WithWorker /\ RequestFollowed /\ ~freedTwice /\ serving \in Clients
        /\ worker = "process"
    BY <1>2 DEF Process, FlowInv, InQueue, WithWorker, InNotifier, GivenUp
  <2>3. WithWorker' /\ worker' = "store" /\ ~InQueue' /\ ~InNotifier'
    BY <1>2, <2>1, <2>2 DEF Process, Respond, WithWorker, InQueue, InNotifier
  <2>4. response'.transaction = serving /\ Output(response') \in {{}, {"output"}}
    BY <2>1, <2>2 DEF Respond, Response, GetTransactionId, RequestFollowed, Output
  <2>5. Allocated' = RequestBlocks \cup {"response"} \cup Output(response')
    BY <2>1, <2>2, <2>4 DEF Respond, RequestFollowed, Allocated, RequestBlocks
  <2>6. Answered(response)'
    BY <1>2, <2>4, <2>5 DEF Answered, Process
  <2>7. RequestFollowed'
    BY <2>3, <2>6 DEF RequestFollowed
  <2> QED
    BY <1>2, <2>2, <2>3, <2>7 DEF FlowInv, Process
<1>3. CASE ProcessGivesUp
  <2>1. server = "wait" /\ WithWorker /\ ~freedTwice /\ serving \in Clients
    BY <1>3 DEF ProcessGivesUp, FlowInv, InQueue, WithWorker, InNotifier, GivenUp
  <2>2. GivenUp' /\ ~InQueue' /\ ~WithWorker' /\ ~InNotifier'
    BY <1>3, <2>1 DEF ProcessGivesUp, InQueue, WithWorker, InNotifier, GivenUp
  <2>3. RequestFollowed'
    BY <2>2 DEF RequestFollowed
  <2> QED
    BY <1>3, <2>1, <2>2, <2>3 DEF FlowInv, ProcessGivesUp
<1>4. CASE AddToBack
  <2>1. server = "wait" /\ WithWorker /\ ~freedTwice /\ serving \in Clients /\ RequestFollowed
        /\ worker = "store"
    BY <1>4 DEF AddToBack, FlowInv, InQueue, WithWorker, InNotifier, GivenUp
  <2>2. notifier'.value = response /\ notifier'.count = notifier.count
    BY <1>4 DEF AddToBack, TypeOK, EngineOK
  <2>3. WithWorker' /\ worker' = "signal" /\ ~InQueue' /\ ~InNotifier'
    BY <1>4, <2>1, <2>2 DEF AddToBack, WithWorker, InQueue, InNotifier
  <2>4. Answered(response)'
    BY <1>4, <2>1 DEF AddToBack, RequestFollowed, Answered, Allocated
  <2>5. RequestFollowed'
    BY <1>4, <2>2, <2>3, <2>4 DEF RequestFollowed, AddToBack
  <2> QED
    BY <1>4, <2>1, <2>3, <2>5 DEF FlowInv, AddToBack
<1>5. CASE Signal
  <2>1. server = "wait" /\ WithWorker /\ ~freedTwice /\ serving \in Clients /\ RequestFollowed
        /\ worker = "signal"
    BY <1>5 DEF Signal, FlowInv, InQueue, WithWorker, InNotifier, GivenUp
  <2>2. notifier'.value = notifier.value /\ notifier'.count = notifier.count + 1
    BY <1>5 DEF Signal, TypeOK, EngineOK
  <2>3. InNotifier' /\ ~InQueue' /\ ~WithWorker'
    BY <1>5, <2>1, <2>2 DEF Signal, WithWorker, InQueue, InNotifier
  <2>4. Answered(notifier.value)'
    BY <1>5, <2>1, <2>2 DEF Signal, RequestFollowed, Answered, Allocated
  <2>5. RequestFollowed'
    BY <2>3, <2>4 DEF RequestFollowed
  <2> QED
    BY <1>5, <2>1, <2>3, <2>5 DEF FlowInv, Signal
<1> QED
  BY <1>1, <1>2, <1>3, <1>4, <1>5 DEF WorkerStep

LEMMA FlowKept == TypeOK /\ FlowInv /\ [Next]_vars => FlowInv'
<1> SUFFICES ASSUME TypeOK, FlowInv, [Next]_vars PROVE FlowInv'
  OBVIOUS
<1>1. (\A c \in Clients : c \in Procs) /\ Server \in Procs
  BY DEF Procs
<1>2. CASE UNCHANGED vars
  BY <1>2, FlowFrame DEF vars, flowVars
<1>3. CASE Next
  BY <1>1, <1>3, PushFlow, ClientFlow, InvokeFlow, ReceiveFlow, WorkerFlow
     DEF Next, ClientStep, ServerStep
<1> QED
  BY <1>2, <1>3

----------------------------------------------------------------------------
(* One message of each client. *)

stageVars == <<inbox, call, serving, reply>>

LEMMA StageFrame ==
    ASSUME StageInv, UNCHANGED stageVars
    PROVE  StageInv'
<1>1. inbox' = inbox /\ call' = call /\ serving' = serving /\ reply' = reply
  BY DEF stageVars
<1> QED
  BY <1>1 DEF StageInv, OnePerClient, Stage, From

\* A client sends a message; it has none on its way.
LEMMA RequestStage ==
    ASSUME TypeOK, StageInv, NEW c \in Clients, call[c] \in {"idle", "push"},
           NEW parcel \in Parcels, inbox' = Append(inbox, [from |-> c, parcel |-> parcel]),
           call' = [call EXCEPT ![c] = "sent"], serving' = serving, reply' = reply
    PROVE  StageInv'
<1> DEFINE m == [from |-> c, parcel |-> parcel]
<1>1. m \in Messages /\ m.from = c
  BY DEF Messages
<1> HIDE DEF m
<1>2. /\ ToSet(inbox') = ToSet(inbox) \cup {m}
      /\ DOMAIN inbox' = DOMAIN inbox \cup {Len(inbox) + 1} /\ Len(inbox) + 1 \notin DOMAIN inbox
      /\ inbox'[Len(inbox) + 1] = m /\ \A i \in DOMAIN inbox : inbox'[i] = inbox[i]
  BY <1>1, AddLast DEF TypeOK, PostOK, m
<1>3. From(c) = {} /\ serving # c /\ reply[c] = NoReply
  BY DEF StageInv, Stage
<1>4. \A i \in DOMAIN inbox : inbox[i].from # c
  BY <1>3, InInbox DEF From, TypeOK, PostOK
<1>5. OnePerClient'
  BY <1>1, <1>2, <1>4 DEF OnePerClient, StageInv
<1>6. ASSUME NEW d \in Clients PROVE Stage(d)'
  <2>1. CASE d = c
    BY <1>3, <2>1 DEF Stage, TypeOK, ClientOK
  <2>2. CASE d # c
    <3>1. From(d)' = From(d) /\ call'[d] = call[d]
      BY <1>1, <1>2, <2>2 DEF From, TypeOK, ClientOK
    <3> QED
      BY <3>1 DEF StageInv, Stage
  <2> QED
    BY <2>1, <2>2
<1> QED
  BY <1>5, <1>6 DEF StageInv

\* The service answers the client it serves.
LEMMA AnswerStage ==
    ASSUME TypeOK, StageInv, serving \in Clients, NEW ret, NEW parcel, Reply(serving, ret, parcel),
           serving' = NoClient, UNCHANGED <<inbox, call>>
    PROVE  StageInv'
<1>1. From(serving) = {} /\ call[serving] \notin {"idle", "push"}
  BY DEF StageInv, Stage
<1>2. OnePerClient'
  BY DEF OnePerClient, StageInv
<1>3. ASSUME NEW d \in Clients PROVE Stage(d)'
  <2>1. From(d)' = From(d) /\ call'[d] = call[d] /\ serving' # d
    BY SyncAssumption DEF From
  <2>2. CASE d = serving
    <3>1. call[d] = "dead" => reply'[d] = reply[d] /\ reply[d] = NoReply
      BY <2>2 DEF Reply, StageInv, Stage
    <3> QED
      BY <1>1, <2>1, <2>2, <3>1 DEF Stage
  <2>3. CASE d # serving
    <3>1. reply'[d] = reply[d]
      BY <2>3 DEF Reply, TypeOK, PostOK
    <3> QED
      BY <2>1, <3>1 DEF StageInv, Stage
  <2> QED
    BY <2>2, <2>3
<1> QED
  BY <1>2, <1>3 DEF StageInv

\* A message is taken out of the inbox: its client is served, answered or told.
LEMMA DroppedStage ==
    ASSUME TypeOK, StageInv, NEW i \in DOMAIN inbox, NEW c \in Clients, inbox[i].from = c,
           \A j, k \in DOMAIN inbox' : inbox'[j].from = inbox'[k].from => j = k,
           ToSet(inbox') = ToSet(inbox) \ {inbox[i]},
           \/ call' = [call EXCEPT ![c] = "idle"] /\ serving' = serving /\ reply' = reply
           \/ call' = call /\ serving' = c /\ serving = NoClient /\ reply' = reply
           \/ /\ call' = call /\ serving' = serving
              /\ \E ret, parcel : Reply(c, ret, parcel)
    PROVE  StageInv'
<1>1. inbox[i] \in From(c) /\ call[c] \notin {"idle", "push"} /\ reply[c] = NoReply /\ serving # c
  BY InInbox DEF From, StageInv, Stage, TypeOK, PostOK
<1>2. From(c)' = {}
  <2>1. \A m \in ToSet(inbox) : m.from = c => m = inbox[i]
    BY DEF StageInv, OnePerClient, ToSet
  <2> QED
    BY <2>1 DEF From
<1>3. ASSUME NEW d \in Clients PROVE Stage(d)'
  <2>1. CASE d = c
    <3>1. call[c] = "dead" => reply'[c] = NoReply
      BY <1>1, <2>1 DEF Reply
    <3>2. serving' = c => reply'[c] = NoReply
      BY <1>1 DEF Reply
    <3>3. call'[c] \in {"idle", "push"} => serving' # c /\ reply'[c] = NoReply
      BY <1>1 DEF TypeOK, ClientOK
    <3>4. call'[c] = "dead" => call[c] = "dead"
      BY DEF TypeOK, ClientOK
    <3> QED
      BY <1>2, <2>1, <3>1, <3>2, <3>3, <3>4 DEF Stage
  <2>2. CASE d # c
    <3>1. From(d)' = From(d)
      BY <2>2 DEF From
    <3>2. call'[d] = call[d] /\ (serving' = d <=> serving = d) /\ reply'[d] = reply[d]
      BY <2>2, SyncAssumption DEF TypeOK, ClientOK, PostOK, Reply
    <3> QED
      BY <3>1, <3>2 DEF StageInv, Stage
  <2> QED
    BY <2>1, <2>2
<1> QED
  BY <1>3 DEF StageInv, OnePerClient

\* The first message, as the service reads it.
LEMMA FirstDropped ==
    ASSUME TypeOK, StageInv, MayInvoke, inbox' = Tail(inbox)
    PROVE  /\ 1 \in DOMAIN inbox /\ Message = inbox[1] /\ Message.from \in Clients
           /\ \A j, k \in DOMAIN inbox' : inbox'[j].from = inbox'[k].from => j = k
           /\ ToSet(inbox') = ToSet(inbox) \ {inbox[1]}
<1>1. inbox \in Seq(Messages) /\ inbox # << >>
  BY DEF TypeOK, PostOK, MayInvoke
<1>2. 1 \in DOMAIN inbox /\ Head(inbox) = inbox[1]
  BY <1>1
<1>3. \A j, k \in DOMAIN inbox : inbox[j].from = inbox[k].from => j = k
  BY DEF StageInv, OnePerClient
<1> QED
  BY <1>1, <1>2, <1>3, TakeFirst, MessageTyped DEF Message

LEMMA PushStage ==
    ASSUME TypeOK, FlowInv, StageInv, NEW p \in Procs, Push(p)
    PROVE  StageInv'
<1>1. ASSUME NEW k \in Key \cup {NoKey}, IsPushing(p), Send(p, Segment(p, k))
      PROVE  StageInv'
  <2>1. Segment(p, k) \in Parcels
    BY SegmentTyped DEF TypeOK
  <2>2. CASE p \in Clients
    <3>1. p # Server
      BY <2>2, SyncAssumption
    <3>2. /\ call[p] = "push" /\ call' = [call EXCEPT ![p] = "sent"]
          /\ inbox' = Append(inbox, [from |-> p, parcel |-> Segment(p, k)])
          /\ serving' = serving /\ reply' = reply
      BY <1>1, <3>1 DEF IsPushing, Send, serverVars
    <3> QED
      BY <2>1, <2>2, <3>2, RequestStage
  <2>3. CASE p = Server
    <3>1. server = "push" /\ p \notin Clients
      BY <1>1, <2>3, SyncAssumption DEF IsPushing
    <3>2. serving \in Clients
      BY <3>1 DEF FlowInv
    <3> QED
      BY <1>1, <2>3, <3>1, <3>2, AnswerStage DEF Send
  <2> QED
    BY <2>2, <2>3 DEF Procs
<1>2. shmKey[p] \in Key
  BY DEF TypeOK, ShmOK
<1>3. CASE PushRetry(p)
  BY <1>3, StageFrame DEF PushRetry, stageVars, clientVars, serverVars
<1> QED
  BY <1>1, <1>2, <1>3 DEF Push, PushExhausted, PushShared, PushFails

LEMMA ClientStage ==
    ASSUME TypeOK, FlowInv, StageInv, NEW c \in Clients,
           \/ \E size \in Size \ {"empty"} : SyncExecAlgorithmProxy(c, size)
           \/ CallbackBuff(c) \/ InvokeLost(c) \/ Die(c) \/ DiePushing(c)
    PROVE  StageInv'
<1> USE DEF serverVars, clientVars
<1>1. c # Server
  BY SyncAssumption
<1>2. ASSUME NEW size \in Size \ {"empty"}, SyncExecAlgorithmProxy(c, size) PROVE StageInv'
  <2> DEFINE x == [size |-> size, data |-> <<c, calls[c] + 1>>]
  <2>1. call[c] = "idle"
    BY <1>2 DEF SyncExecAlgorithmProxy, ClientSyncProcess
  <2>2. CASE size = "inline"
    <3>1. ParcelDataInfo(x) \in Parcels
      <4>1. <<c, calls[c] + 1>> \in Datum
        BY DEF Datum, Data, TypeOK, ClientOK
      <4> QED
        BY <4>1 DEF ParcelDataInfo, Parcels
    <3>2. /\ call' = [call EXCEPT ![c] = "sent"] /\ serving' = serving /\ reply' = reply
          /\ inbox' = Append(inbox, [from |-> c, parcel |-> ParcelDataInfo(x)])
      BY <1>1, <1>2, <2>2 DEF SyncExecAlgorithmProxy, Send
    <3> QED
      BY <2>1, <3>1, <3>2, RequestStage
  <2>3. CASE size # "inline"
    <3>1. call' = [call EXCEPT ![c] = "push"] /\ inbox' = inbox /\ serving' = serving /\ reply' = reply
      BY <1>2, <2>3 DEF SyncExecAlgorithmProxy
    <3>2. \A d \in Clients : From(d)' = From(d) /\ (d # c => call'[d] = call[d])
      BY <3>1 DEF From, TypeOK, ClientOK
    <3> QED
      BY <2>1, <3>1, <3>2 DEF StageInv, Stage, OnePerClient
  <2> QED
    BY <2>2, <2>3
<1>3. CASE CallbackBuff(c)
  <2>1. call[c] = "sent" /\ reply[c] # NoReply /\ inbox' = inbox /\ serving' = serving
        /\ call' = [call EXCEPT ![c] = "idle"] /\ reply' = [reply EXCEPT ![c] = NoReply]
    BY <1>3 DEF CallbackBuff
  <2>2. From(c) = {} /\ serving # c
    BY <2>1 DEF StageInv, Stage
  <2>3. reply'[c] = NoReply /\ \A d \in Clients : From(d)' = From(d)
           /\ (d # c => call'[d] = call[d] /\ reply'[d] = reply[d])
    BY <2>1 DEF From, TypeOK, ClientOK, PostOK
  <2> QED
    BY <2>1, <2>2, <2>3 DEF StageInv, Stage, OnePerClient
<1>4. CASE InvokeLost(c)
  <2>1. PICK i \in DOMAIN inbox : inbox[i].from = c /\ inbox' = RemoveAt(inbox, i)
    BY <1>4 DEF InvokeLost
  <2>2. /\ ToSet(inbox') = ToSet(inbox) \ {inbox[i]}
        /\ \A j, k \in DOMAIN inbox' : inbox'[j].from = inbox'[k].from => j = k
    BY <2>1, TakeOutOne DEF TypeOK, PostOK, StageInv, OnePerClient
  <2>3. call' = [call EXCEPT ![c] = "idle"] /\ serving' = serving /\ reply' = reply
    BY <1>4 DEF InvokeLost
  <2> QED
    BY <2>1, <2>2, <2>3, DroppedStage
<1>5. CASE Die(c) \/ DiePushing(c)
  <2>1. /\ call' = [call EXCEPT ![c] = "dead"] /\ inbox' = inbox /\ serving' = serving
        /\ reply' = [reply EXCEPT ![c] = NoReply] \/ (reply' = reply /\ call[c] = "push")
    BY <1>5 DEF Die, DiePushing, Gone
  <2>2. reply'[c] = NoReply
    BY <2>1 DEF TypeOK, PostOK, StageInv, Stage
  <2>3. \A d \in Clients : From(d)' = From(d) /\ (d # c => call'[d] = call[d] /\ reply'[d] = reply[d])
    BY <2>1 DEF From, TypeOK, ClientOK, PostOK
  <2>4. call'[c] = "dead"
    BY <2>1 DEF TypeOK, ClientOK
  <2> QED
    BY <2>1, <2>2, <2>3, <2>4 DEF StageInv, Stage, OnePerClient
<1> QED
  BY <1>2, <1>3, <1>4, <1>5

LEMMA ServerStage ==
    ASSUME TypeOK, FlowInv, StageInv,
           UnParcelInfoFails \/ InvokeFails \/ InvokeRefused \/ SendRequest \/ ReceiveResponse
    PROVE  StageInv'
<1> USE DEF serverVars, clientVars
<1>1. CASE UnParcelInfoFails
  <2>1. MayInvoke /\ inbox' = Tail(inbox) /\ call' = call /\ serving' = serving
    BY <1>1 DEF UnParcelInfoFails
  <2>2. \/ reply' = reply /\ call[Message.from] = "dead"
        \/ call[Message.from] # "dead"
             /\ reply' = [reply EXCEPT ![Message.from] = [ret |-> "failure", parcel |-> EmptyParcel]]
    BY <1>1 DEF UnParcelInfoFails
  <2>3. Message = inbox[1] /\ 1 \in DOMAIN inbox /\ Message.from \in Clients
    BY <2>1, FirstDropped
  <2>4. PICK c \in Clients : c = Message.from
    BY <2>3
  <2>5. From(c) # {}
    BY <2>3, <2>4, InInbox DEF From, TypeOK, PostOK
  <2>6. \A m \in ToSet(inbox) : m.from = c => m = inbox[1]
    BY <2>3, <2>4 DEF StageInv, OnePerClient, ToSet
  <2>7. From(c)' = {}
    BY <2>1, <2>6, FirstDropped DEF From
  <2>8. ASSUME NEW d \in Clients PROVE Stage(d)'
    <3>1. CASE d = c
      BY <2>4, <2>1, <2>2, <2>5, <2>7, <3>1 DEF StageInv, Stage
    <3>2. CASE d # c
      <4>1. From(d)' = From(d)
        BY <2>1, <2>3, <2>4, <3>2, FirstDropped DEF From
      <4>2. reply'[d] = reply[d]
        BY <2>2, <2>4, <3>2 DEF TypeOK, PostOK
      <4> QED
        BY <2>1, <4>1, <4>2 DEF StageInv, Stage
    <3> QED
      BY <3>1, <3>2
  <2> QED
    BY <2>1, <2>8, FirstDropped DEF StageInv, OnePerClient
<1>2. CASE InvokeFails \/ InvokeRefused
  <2>1. MayInvoke /\ inbox' = Tail(inbox) /\ call' = call /\ serving' = serving /\ Answer("failure")
    BY <1>2 DEF InvokeFails, InvokeRefused
  <2> QED
    BY <2>1, FirstDropped, DroppedStage DEF Answer
<1>3. CASE SendRequest
  <2>1. MayInvoke /\ inbox' = Tail(inbox) /\ call' = call /\ serving' = Message.from /\ reply' = reply
    BY <1>3 DEF SendRequest
  <2>2. serving = NoClient
    BY <2>1 DEF MayInvoke, FlowInv
  <2> QED
    BY <2>1, <2>2, FirstDropped, DroppedStage
<1>4. CASE ReceiveResponse
  <2>1. serving \in Clients /\ call' = call /\ inbox' = inbox
    BY <1>4 DEF ReceiveResponse, FlowInv
  <2>2. CASE serving' = serving /\ reply' = reply
    BY <2>1, <2>2, StageFrame DEF stageVars
  <2>3. CASE serving' = NoClient /\ \E ret, parcel : Reply(serving, ret, parcel)
    BY <2>1, <2>3, AnswerStage
  <2> QED
    BY <1>4, <2>2, <2>3 DEF ReceiveResponse
<1> QED
  BY <1>1, <1>2, <1>3, <1>4

LEMMA StagesKept == TypeOK /\ FlowInv /\ StageInv /\ [Next]_vars => StageInv'
<1> SUFFICES ASSUME TypeOK, FlowInv, StageInv, [Next]_vars PROVE StageInv'
  OBVIOUS
<1>1. (\A c \in Clients : c \in Procs) /\ Server \in Procs
  BY DEF Procs
<1>2. CASE UNCHANGED vars
  BY <1>2, StageFrame DEF vars, stageVars
<1>3. CASE WorkerStep
  <2>1. UNCHANGED stageVars
    BY <1>3 DEF WorkerStep, PopFront, Process, ProcessGivesUp, AddToBack, Signal, stageVars,
       clientVars, serverVars
  <2> QED
    BY <2>1, StageFrame
<1>4. CASE Next
  BY <1>1, <1>3, <1>4, PushStage, ClientStage, ServerStage DEF Next, ClientStep, ServerStep
<1> QED
  BY <1>2, <1>4

----------------------------------------------------------------------------
(* What the messages carry, and the segments. *)

\* Inputs of two clients differ, and are something.
LEMMA InputsDiffer ==
    ASSUME TypeOK
    PROVE  \A c, d \in Clients : /\ Input(c) \in Data /\ Input(c) # NoData
                                 /\ c # d => Input(c) # Input(d)
<1>1. \A c \in Clients : Input(c) \in Data
  BY DEF Input, Data, TypeOK, ClientOK
<1>2. NoData \notin Data
  BY SyncAssumption DEF Data
<1>3. \A c, d \in Clients : c # d => Input(c) # Input(d)
  BY DEF Input
<1> QED
  BY <1>1, <1>2, <1>3

\* The parcels that are on their way have keys.
LEMMA ParcelsTyped ==
    ASSUME PostOK
    PROVE  /\ \A m \in ToSet(inbox) : /\ m \in Messages /\ m.from \in Clients /\ m.parcel \in Parcels
                                      /\ m.parcel.key \in Key \cup {NoKey}
           /\ \A c \in Clients : /\ reply[c].parcel \in Parcels
                                 /\ reply[c].parcel.key \in Key \cup {NoKey}
<1>1. ToSet(inbox) \subseteq Messages
  BY InInbox DEF PostOK
<1> QED
  BY <1>1 DEF PostOK, Messages, Parcels

\* The keys that are on their way are in use, and not lost.
LEMMA KeysUsed ==
    ASSUME TypeOK, MessagesOwn, SegmentsHeld
    PROVE  /\ \A m \in ToSet(inbox) : m.parcel.key # NoKey =>
                 /\ m.parcel.key \in Key \ lost
                 /\ shm[m.parcel.key] = Input(m.from) /\ shm[m.parcel.key] # NoData
           /\ \A c \in Clients : reply[c].parcel.key # NoKey =>
                 /\ reply[c].parcel.key \in Key \ lost
                 /\ shm[reply[c].parcel.key] = Input(c) /\ shm[reply[c].parcel.key] # NoData
           /\ \A k \in lost : k \in Key /\ shm[k] # NoData
<1>1. \A m \in ToSet(inbox) : m.from \in Clients /\ m.parcel.key \in Key \cup {NoKey}
  BY ParcelsTyped DEF TypeOK
<1>2. \A c \in Clients : reply[c].parcel.key \in Key \cup {NoKey} /\ Input(c) # NoData
  BY ParcelsTyped, InputsDiffer DEF TypeOK
<1>3. \A k \in lost : k \in Key /\ shm[k] # NoData
  BY DEF SegmentsHeld, TypeOK, PostOK
<1> QED
  BY <1>1, <1>2, <1>3 DEF MessagesOwn, Carries

\* A segment is removed by the one who reads its message, or lost with it.
Disposed(k) ==
    \/ /\ shm' = [j \in Key |-> IF j \in {k} \ {NoKey} THEN NoData ELSE shm[j]]
       /\ lost' = lost
    \/ shm' = shm /\ lost' = lost \cup ({k} \ {NoKey})

LEMMA DisposedKeepsRest ==
    ASSUME TypeOK, NEW k \in Key \cup {NoKey}, Disposed(k)
    PROVE  \A j \in Key \ {k} : shm'[j] = shm[j] /\ (j \in lost' <=> j \in lost)
BY DEF Disposed, TypeOK, ShmOK

\* A message is gone, and its segment with it: the others keep theirs.
LEMMA MessageGone ==
    ASSUME TypeOK, PostOK', MessagesOwn, SegmentsHeld, NEW k \in Key \cup {NoKey}, Disposed(k),
           calls' = calls, k # NoKey => k \notin lost /\ shm[k] # NoData,
           \A m \in ToSet(inbox') : m \in ToSet(inbox) /\ (m.parcel.key # k \/ k = NoKey),
           \A m \in ToSet(inbox) \ ToSet(inbox') : m.parcel.key \in {k, NoKey},
           \A c \in Clients :
              /\ \/ reply'[c].parcel = reply[c].parcel
                 \/ reply'[c].parcel = EmptyParcel /\ reply[c].parcel.key \in {k, NoKey}
              /\ reply'[c].parcel.key # k \/ k = NoKey
    PROVE  MessagesOwn' /\ SegmentsHeld'
<1>1. \A c \in Clients : Input(c)' = Input(c)
  BY DEF Input
<1>2. ASSUME NEW parcel \in Parcels, NEW c \in Clients, Carries(parcel, c), parcel.key # k \/ k = NoKey
      PROVE  Carries(parcel, c)'
  <2>1. parcel.key \in Key \cup {NoKey}
    BY DEF Parcels
  <2>2. parcel.key # NoKey => shm'[parcel.key] = shm[parcel.key] /\ (parcel.key \in lost' <=> parcel.key \in lost)
    BY <1>2, <2>1, DisposedKeepsRest
  <2> QED
    BY <1>1, <1>2, <2>2 DEF Carries
<1>3. \A m \in ToSet(inbox') : m.parcel \in Parcels /\ m.from \in Clients
  BY ParcelsTyped DEF TypeOK
<1>4. \A c \in Clients : Carries(EmptyParcel, c)'
  BY DEF Carries, EmptyParcel
<1>5. \A c \in Clients : Carries(reply[c].parcel, c)'
  <2>1. ASSUME NEW c \in Clients PROVE Carries(reply[c].parcel, c)'
    <3>1. CASE reply'[c].parcel = reply[c].parcel
      <4>1. PICK parcel \in Parcels : parcel = reply[c].parcel
        BY ParcelsTyped DEF TypeOK
      <4>2. Carries(parcel, c) /\ (parcel.key # k \/ k = NoKey) /\ parcel = reply'[c].parcel
        BY <3>1, <4>1 DEF MessagesOwn
      <4>3. Carries(parcel, c)'
        BY <1>2, <4>2
      <4> QED
        BY <4>2, <4>3
    <3>2. CASE reply'[c].parcel = EmptyParcel
      BY <1>4, <3>2
    <3> QED
      BY <3>1, <3>2
  <2> QED
    BY <2>1
<1>6. MessagesOwn'
  BY <1>2, <1>3, <1>5 DEF MessagesOwn
<1>7. ASSUME NEW j \in Key
      PROVE  (shm'[j] # NoData) <=>
                \/ j \in lost'
                \/ \E m \in ToSet(inbox') : m.parcel.key = j
                \/ \E c \in Clients : reply'[c].parcel.key = j
  <2>1. j # NoKey
    BY SyncAssumption DEF Key
  <2>2. CASE j = k
    <3>1. /\ ~\E m \in ToSet(inbox') : m.parcel.key = j
          /\ ~\E c \in Clients : reply'[c].parcel.key = j
      BY <2>1, <2>2
    <3>2. (shm'[j] # NoData) <=> j \in lost'
      BY <2>1, <2>2 DEF Disposed
    <3> QED
      BY <3>1, <3>2
  <2>3. CASE j # k
    <3>1. shm'[j] = shm[j] /\ (j \in lost' <=> j \in lost)
      BY <2>3, DisposedKeepsRest
    <3>2. (\E m \in ToSet(inbox') : m.parcel.key = j) <=> (\E m \in ToSet(inbox) : m.parcel.key = j)
      BY <2>1, <2>3
    <3>3. (\E c \in Clients : reply'[c].parcel.key = j) <=> (\E c \in Clients : reply[c].parcel.key = j)
      BY <2>1, <2>3 DEF EmptyParcel
    <3>4. (shm[j] # NoData) <=>
             \/ j \in lost
             \/ \E m \in ToSet(inbox) : m.parcel.key = j
             \/ \E c \in Clients : reply[c].parcel.key = j
      BY DEF SegmentsHeld
    <3> QED
      BY <3>1, <3>2, <3>3, <3>4
  <2> QED
    BY <2>2, <2>3
<1> QED
  BY <1>6, <1>7 DEF SegmentsHeld

\* A message of c is on its way, in a segment that nobody had, if in any.
LEMMA MessageCame ==
    ASSUME TypeOK, PostOK', MessagesOwn, SegmentsHeld, NEW c \in Clients, NEW k \in Key \cup {NoKey},
           calls' \in [Clients -> Nat],
           \A d \in Clients : calls'[d] = calls[d] \/ (d = c /\ From(c) = {} /\ reply[c] = NoReply),
           k = NoKey => shm' = shm,
           k # NoKey => shm[k] = NoData /\ shm' = [shm EXCEPT ![k] = Input(c)'],
           NEW parcel \in Parcels, parcel.key = k, Carries(parcel, c)' \/ k \in lost',
           \/ /\ ToSet(inbox') = ToSet(inbox) \cup {[from |-> c, parcel |-> parcel]}
              /\ parcel.size # "empty" /\ reply' = reply /\ lost' = lost
           \/ /\ inbox' = inbox /\ lost' = lost /\ reply[c] = NoReply
              /\ \E ret : reply' = [reply EXCEPT ![c] = [ret |-> ret, parcel |-> parcel]]
           \/ inbox' = inbox /\ lost' = lost \cup ({k} \ {NoKey}) /\ reply' = reply
    PROVE  MessagesOwn' /\ SegmentsHeld'
<1>1. NoKey \notin Key
  BY SyncAssumption DEF Key
<1>2. \A j \in Key \ {k} : shm'[j] = shm[j] /\ (j \in lost' <=> j \in lost)
  BY <1>1 DEF TypeOK, ShmOK
<1>3. k # NoKey => /\ k \notin lost
                   /\ \A m \in ToSet(inbox) : m.parcel.key # k
                   /\ \A d \in Clients : reply[d].parcel.key # k
  BY KeysUsed
<1>4. Carries(EmptyParcel, c)'
  BY DEF Carries, EmptyParcel
<1>5. ASSUME NEW q \in Parcels, NEW d \in Clients, calls'[d] = calls[d], Carries(q, d),
             q.key # k \/ k = NoKey
      PROVE  Carries(q, d)'
  <2>1. q.key \in Key \cup {NoKey} /\ Input(d)' = Input(d)
    BY <1>5 DEF Parcels, Input
  <2>2. q.key # NoKey => shm'[q.key] = shm[q.key] /\ (q.key \in lost' <=> q.key \in lost)
    BY <1>2, <1>5, <2>1
  <2> QED
    BY <1>5, <2>1, <2>2 DEF Carries
<1>6. \A m \in ToSet(inbox) : Carries(m.parcel, m.from)'
  <2>1. ASSUME NEW m \in ToSet(inbox) PROVE Carries(m.parcel, m.from)'
    <3>1. m.parcel \in Parcels /\ m.from \in Clients /\ Carries(m.parcel, m.from)
      BY ParcelsTyped DEF MessagesOwn, TypeOK
    <3>2. calls'[m.from] = calls[m.from]
      BY <3>1 DEF From
    <3> QED
      BY <1>3, <1>5, <3>1, <3>2
  <2> QED
    BY <2>1
<1>7. ASSUME NEW d \in Clients, NEW q \in Parcels, q = reply[d].parcel PROVE Carries(q, d)'
  <2>1. Carries(q, d)
    BY <1>7 DEF MessagesOwn
  <2>2. CASE calls'[d] = calls[d]
    BY <1>3, <1>5, <1>7, <2>1, <2>2
  <2>3. CASE d = c /\ reply[c] = NoReply
    BY <1>4, <1>7, <2>3 DEF NoReply
  <2> QED
    BY <2>2, <2>3
<1>8. \A d \in Clients : reply[d].parcel \in Parcels
  BY ParcelsTyped DEF TypeOK
<1>9. CASE /\ ToSet(inbox') = ToSet(inbox) \cup {[from |-> c, parcel |-> parcel]}
           /\ parcel.size # "empty" /\ reply' = reply /\ lost' = lost
  <2> DEFINE m0 == [from |-> c, parcel |-> parcel]
  <2>1. Carries(parcel, c)'
    BY <1>1, <1>3, <1>9 DEF TypeOK, PostOK
  <2>2. \A m \in ToSet(inbox') : m.parcel.size # "empty" /\ Carries(m.parcel, m.from)'
    BY <1>6, <1>9, <2>1 DEF MessagesOwn
  <2>3. \A d \in Clients : Carries(reply[d].parcel, d)'
    BY <1>7, <1>8, <1>9
  <2>4. MessagesOwn'
    BY <2>2, <2>3 DEF MessagesOwn
  <2>5. m0.parcel.key = k /\ m0 \in ToSet(inbox')
    BY <1>9
  <2>6. ASSUME NEW j \in Key
        PROVE  (shm'[j] # NoData) <=>
                  \/ j \in lost'
                  \/ \E m \in ToSet(inbox') : m.parcel.key = j
                  \/ \E d \in Clients : reply'[d].parcel.key = j
    <3>1. CASE j = k
      <4>1. k # NoKey /\ shm'[k] = Input(c)'
        BY <1>1, <3>1 DEF TypeOK, ShmOK
      <4>2. Input(c)' # NoData
        <5>1. Input(c)' \in Data
          BY DEF Input, Data
        <5> QED
          BY <5>1, SyncAssumption DEF Data
      <4> QED
        BY <2>5, <3>1, <4>1, <4>2
    <3>2. CASE j # k
      <4>1. (\E m \in ToSet(inbox') : m.parcel.key = j) <=> (\E m \in ToSet(inbox) : m.parcel.key = j)
        BY <1>9, <3>2
      <4> QED
        BY <1>2, <1>9, <3>2, <4>1 DEF SegmentsHeld
    <3> QED
      BY <3>1, <3>2
  <2> QED
    BY <2>4, <2>6 DEF SegmentsHeld
<1>10. CASE /\ inbox' = inbox /\ lost' = lost /\ reply[c] = NoReply
            /\ \E ret : reply' = [reply EXCEPT ![c] = [ret |-> ret, parcel |-> parcel]]
  <2>1. Carries(parcel, c)'
    BY <1>1, <1>3, <1>10 DEF TypeOK, PostOK
  <2>2. \A d \in Clients : reply'[d].parcel = IF d = c THEN parcel ELSE reply[d].parcel
    BY <1>10 DEF TypeOK, PostOK
  <2>3. \A d \in Clients : Carries(reply[d].parcel, d)'
    BY <1>7, <1>8, <2>1, <2>2
  <2>4. MessagesOwn'
    BY <1>6, <1>10, <2>3 DEF MessagesOwn
  <2>5. ASSUME NEW j \in Key
        PROVE  (shm'[j] # NoData) <=>
                  \/ j \in lost'
                  \/ \E m \in ToSet(inbox') : m.parcel.key = j
                  \/ \E d \in Clients : reply'[d].parcel.key = j
    <3>1. CASE j = k
      <4>1. k # NoKey /\ shm'[k] = Input(c)'
        BY <1>1, <3>1 DEF TypeOK, ShmOK
      <4>2. Input(c)' # NoData
        <5>1. Input(c)' \in Data
          BY DEF Input, Data
        <5> QED
          BY <5>1, SyncAssumption DEF Data
      <4>3. reply'[c].parcel.key = k
        BY <2>2
      <4> QED
        BY <3>1, <4>1, <4>2, <4>3
    <3>2. CASE j # k
      <4>1. (\E d \in Clients : reply'[d].parcel.key = j) <=> (\E d \in Clients : reply[d].parcel.key = j)
        <5>1. reply[c].parcel.key # j
          BY <1>1, <1>10 DEF NoReply, EmptyParcel
        <5> QED
          BY <2>2, <3>2, <5>1
      <4> QED
        BY <1>2, <1>10, <3>2, <4>1 DEF SegmentsHeld
    <3> QED
      BY <3>1, <3>2
  <2> QED
    BY <2>4, <2>5 DEF SegmentsHeld
<1>11. CASE inbox' = inbox /\ lost' = lost \cup ({k} \ {NoKey}) /\ reply' = reply
  <2>1. \A d \in Clients : Carries(reply[d].parcel, d)'
    BY <1>7, <1>8, <1>11
  <2>2. MessagesOwn'
    BY <1>6, <1>11, <2>1 DEF MessagesOwn
  <2>3. ASSUME NEW j \in Key
        PROVE  (shm'[j] # NoData) <=>
                  \/ j \in lost'
                  \/ \E m \in ToSet(inbox') : m.parcel.key = j
                  \/ \E d \in Clients : reply'[d].parcel.key = j
    <3>1. CASE j = k
      <4>1. k # NoKey /\ shm'[k] = Input(c)' /\ k \in lost'
        BY <1>1, <1>11, <3>1 DEF TypeOK, ShmOK
      <4>2. Input(c)' # NoData
        <5>1. Input(c)' \in Data
          BY DEF Input, Data
        <5> QED
          BY <5>1, SyncAssumption DEF Data
      <4> QED
        BY <3>1, <4>1, <4>2
    <3>2. CASE j # k
      BY <1>2, <1>11, <3>2 DEF SegmentsHeld
    <3> QED
      BY <3>1, <3>2
  <2> QED
    BY <2>2, <2>3 DEF SegmentsHeld
<1> QED
  BY <1>9, <1>10, <1>11

requestVars == <<server, serving, queue, worker, task, response, notifier>>

\* What the request carries does not change while another client begins a call.
LEMMA RequestFrame ==
    ASSUME RequestOwn, UNCHANGED requestVars, server = "wait" => calls'[serving] = calls[serving]
    PROVE  RequestOwn'
<1>1. /\ server' = server /\ serving' = serving /\ queue' = queue /\ worker' = worker
      /\ task' = task /\ response' = response /\ notifier' = notifier
  BY DEF requestVars
<1>2. server = "wait" => Input(serving)' = Input(serving)
  BY <1>1 DEF Input
<1> QED
  BY <1>1, <1>2 DEF RequestOwn, InQueue, WithWorker, InNotifier, ResultOf

LEMMA ContentFrame ==
    ASSUME ContentInv, UNCHANGED requestVars,
           UNCHANGED <<shm, pushing, call, calls, heard, inbox, reply, lost>>
    PROVE  ContentInv'
<1>1. RequestOwn'
  BY RequestFrame DEF ContentInv
<1>2. /\ shm' = shm /\ pushing' = pushing /\ call' = call /\ calls' = calls /\ heard' = heard
      /\ inbox' = inbox /\ reply' = reply /\ lost' = lost /\ server' = server /\ serving' = serving
  BY DEF requestVars
<1>3. PushingOwn' /\ HeardOwn'
  BY <1>2 DEF ContentInv, PushingOwn, HeardOwn, Input
<1>4. MessagesOwn' /\ SegmentsHeld'
  BY <1>2 DEF ContentInv, MessagesOwn, SegmentsHeld, Carries, Input
<1> QED
  BY <1>1, <1>3, <1>4 DEF ContentInv

\* A process puts its message into the post.
LEMMA SendContent ==
    ASSUME TypeOK, TypeOK', FlowInv, StageInv, ContentInv, NEW p \in Procs, IsPushing(p), Pushed(p),
           NEW k \in Key \cup {NoKey}, Send(p, Segment(p, k)),
           k = NoKey => shm' = shm,
           k # NoKey => shm[k] = NoData /\ shm' = [shm EXCEPT ![k] = pushing[p].data],
           UNCHANGED <<calls, heard, engineVars, notifier>>
    PROVE  ContentInv'
<1>1. PICK parcel \in Parcels : parcel = Segment(p, k)
  BY SegmentTyped DEF TypeOK
<1>2. parcel.size = pushing[p].size /\ parcel.key = k
  BY <1>1 DEF Segment
<1>3. calls' = calls /\ \A c : Input(c)' = Input(c)
  BY DEF Input
<1>4. HeardOwn'
  BY <1>3 DEF ContentInv, HeardOwn
<1>5. k \notin lost /\ NoKey \notin Key /\ MessagesOwn /\ SegmentsHeld
  <2>1. NoKey \notin Key /\ lost \subseteq Key
    BY SyncAssumption DEF Key, TypeOK, PostOK
  <2> QED
    BY <2>1 DEF ContentInv, SegmentsHeld
<1>6. PostOK' /\ calls' \in [Clients -> Nat] /\ \A d \in Clients : calls'[d] = calls[d]
  BY <1>3 DEF TypeOK, ClientOK
<1>7. ASSUME NEW c \in Clients, pushing[p].size \in {"shared", "huge"}, pushing[p].data = Input(c)
      PROVE  /\ k # NoKey => shm' = [shm EXCEPT ![k] = Input(c)']
             /\ k # NoKey => shm'[k] = Input(c)'
             /\ lost' = lost \/ k = NoKey => Carries(parcel, c)'
  <2>1. k # NoKey => shm' = [shm EXCEPT ![k] = Input(c)'] /\ shm'[k] = Input(c)'
    BY <1>3, <1>7 DEF TypeOK, ShmOK
  <2> QED
    BY <1>2, <1>5, <1>7, <2>1 DEF Carries
<1>8. CASE p \in Clients
  <2>1. p # Server
    BY <1>8, SyncAssumption
  <2>2. /\ call[p] = "push" /\ call' = [call EXCEPT ![p] = "sent"]
        /\ inbox' = Append(inbox, [from |-> p, parcel |-> parcel])
        /\ UNCHANGED <<serverVars, reply, lost>>
    BY <1>1, <2>1 DEF IsPushing, Send
  <2>3. pushing[p].size \in {"shared", "huge"} /\ pushing[p].data = Input(p)
    BY <1>8, <2>2 DEF ContentInv, PushingOwn
  <2>4. ToSet(inbox') = ToSet(inbox) \cup {[from |-> p, parcel |-> parcel]}
    <3>1. [from |-> p, parcel |-> parcel] \in Messages
      BY <1>8 DEF Messages
    <3> QED
      BY <2>2, <3>1, AddLast DEF TypeOK, PostOK
  <2>5. MessagesOwn' /\ SegmentsHeld'
    BY <1>2, <1>5, <1>6, <1>7, <1>8, <2>2, <2>3, <2>4, MessageCame
  <2>6. RequestOwn'
    BY <1>3, <2>2, RequestFrame DEF ContentInv, requestVars, serverVars, engineVars
  <2>7. PushingOwn'
    <3>1. \A c \in Clients : call'[c] = "push" => c # p /\ call[c] = "push" /\ pushing'[c] = pushing[c]
      BY <1>8, <2>2 DEF Pushed, TypeOK, ClientOK, ShmOK, Procs
    <3>2. pushing'[Server] = pushing[Server] /\ server' = server /\ serving' = serving
      BY <2>1, <2>2 DEF Pushed, serverVars, TypeOK, ShmOK, Procs
    <3> QED
      BY <1>3, <3>1, <3>2 DEF PushingOwn, ContentInv, Input
  <2> QED
    BY <1>4, <2>5, <2>6, <2>7 DEF ContentInv
<1>9. CASE p = Server
  <2>1. server = "push" /\ p \notin Clients
    BY <1>9, SyncAssumption DEF IsPushing
  <2>2. /\ server' = "idle" /\ Reply(serving, "success", parcel) /\ UNCHANGED <<call, inbox>>
    BY <1>1, <2>1 DEF Send
  <2>3. PICK c \in Clients : c = serving
    BY <2>1 DEF FlowInv
  <2>4. pushing[p].size \in {"shared", "huge"} /\ pushing[p].data = Input(c)
    BY <1>9, <2>1, <2>3 DEF ContentInv, PushingOwn, Input
  <2>5. reply[c] = NoReply
    BY <2>3 DEF StageInv, Stage
  <2>6. MessagesOwn' /\ SegmentsHeld'
    <3>1. CASE call[c] = "dead"
      <4>1. inbox' = inbox /\ lost' = lost \cup ({k} \ {NoKey}) /\ reply' = reply
        BY <1>2, <2>2, <2>3, <3>1 DEF Reply
      <4>2. Carries(parcel, c)' \/ k \in lost'
        BY <1>7, <2>4, <4>1
      <4> QED
        BY <1>2, <1>5, <1>6, <1>7, <2>4, <4>1, <4>2, MessageCame
    <3>2. CASE call[c] # "dead"
      <4>1. /\ inbox' = inbox /\ lost' = lost
            /\ reply' = [reply EXCEPT ![c] = [ret |-> "success", parcel |-> parcel]]
        BY <2>2, <2>3, <3>2 DEF Reply
      <4> QED
        BY <1>2, <1>5, <1>6, <1>7, <2>4, <2>5, <4>1, MessageCame
    <3> QED
      BY <3>1, <3>2
  <2>7. PushingOwn'
    <3>1. \A d \in Clients : call'[d] = call[d] /\ pushing'[d] = pushing[d]
      BY <1>9, <2>1, <2>2 DEF Pushed, TypeOK, ShmOK, Procs
    <3> QED
      BY <1>3, <2>2, <3>1 DEF PushingOwn, ContentInv
  <2>8. RequestOwn'
    BY <2>2 DEF RequestOwn
  <2> QED
    BY <1>4, <2>6, <2>7, <2>8 DEF ContentInv
<1> QED
  BY <1>8, <1>9 DEF Procs

LEMMA PushContent ==
    ASSUME TypeOK, TypeOK', FlowInv, StageInv, ContentInv, NEW p \in Procs, Push(p)
    PROVE  ContentInv'
<1>1. shmKey[p] \in Key /\ NoKey \notin Key
  BY SyncAssumption DEF TypeOK, ShmOK, Key
<1>2. CASE PushRetry(p)
  BY <1>2, ContentFrame DEF PushRetry, requestVars, serverVars, engineVars, clientVars
<1>3. CASE PushExhausted(p)
  BY <1>3, SendContent DEF PushExhausted
<1>4. CASE PushShared(p)
  BY <1>1, <1>4, SendContent DEF PushShared, KeyTaken
<1>5. CASE PushFails(p)
  BY <1>5, SendContent DEF PushFails
<1> QED
  BY <1>2, <1>3, <1>4, <1>5 DEF Push

\* No two messages on their way have the same segment.
LEMMA OneOwner ==
    ASSUME TypeOK, StageInv, MessagesOwn, SegmentsHeld
    PROVE  /\ \A m, n \in ToSet(inbox) :
                 m.parcel.key # NoKey /\ m.parcel.key = n.parcel.key => m = n
           /\ \A m \in ToSet(inbox), c \in Clients :
                 reply[c].parcel.key # NoKey => m.parcel.key # reply[c].parcel.key
           /\ \A c, d \in Clients :
                 reply[c].parcel.key # NoKey /\ reply[c].parcel.key = reply[d].parcel.key => c = d
<1>1. \A m \in ToSet(inbox) : m.from \in Clients
  BY ParcelsTyped DEF TypeOK
<1>2. \A m, n \in ToSet(inbox) : m.from = n.from => m = n
  BY DEF StageInv, OnePerClient, ToSet
<1>3. \A m, n \in ToSet(inbox) : m.parcel.key # NoKey /\ m.parcel.key = n.parcel.key => m.from = n.from
  BY <1>1, KeysUsed, InputsDiffer
<1>4. ASSUME NEW m \in ToSet(inbox), NEW c \in Clients, reply[c].parcel.key # NoKey,
             m.parcel.key = reply[c].parcel.key
      PROVE  FALSE
  <2>1. m.from = c
    BY <1>1, <1>4, KeysUsed, InputsDiffer
  <2>2. reply[c] = NoReply
    BY <2>1 DEF StageInv, Stage, From
  <2> QED
    BY <1>4, <2>2 DEF NoReply, EmptyParcel
<1>5. \A c, d \in Clients :
         reply[c].parcel.key # NoKey /\ reply[c].parcel.key = reply[d].parcel.key => c = d
  BY KeysUsed, InputsDiffer
<1> QED
  BY <1>2, <1>3, <1>4, <1>5

\* A request is taken out of the inbox and may be answered without a result.
LEMMA RequestGone ==
    ASSUME TypeOK, PostOK', StageInv, MessagesOwn, SegmentsHeld, NEW m \in ToSet(inbox),
           ToSet(inbox') = ToSet(inbox) \ {m}, Disposed(m.parcel.key), calls' = calls,
           \/ reply' = reply
           \/ \E ret : reply' = [reply EXCEPT ![m.from] = [ret |-> ret, parcel |-> EmptyParcel]]
    PROVE  MessagesOwn' /\ SegmentsHeld'
<1>1. m.from \in Clients /\ m.parcel.key \in Key \cup {NoKey}
  BY ParcelsTyped DEF TypeOK
<1>2. m.parcel.key # NoKey => m.parcel.key \notin lost /\ shm[m.parcel.key] # NoData
  BY KeysUsed
<1>3. reply[m.from].parcel.key = NoKey
  BY <1>1 DEF StageInv, Stage, From, NoReply, EmptyParcel
<1>4. \A n \in ToSet(inbox') : n \in ToSet(inbox) /\ (n.parcel.key # m.parcel.key \/ m.parcel.key = NoKey)
  BY OneOwner
<1>5. ASSUME NEW d \in Clients
      PROVE  /\ \/ reply'[d].parcel = reply[d].parcel
                \/ reply'[d].parcel = EmptyParcel /\ reply[d].parcel.key \in {m.parcel.key, NoKey}
             /\ reply'[d].parcel.key # m.parcel.key \/ m.parcel.key = NoKey
  <2>1. reply[d].parcel.key # m.parcel.key \/ m.parcel.key = NoKey
    BY OneOwner
  <2>2. \/ reply'[d] = reply[d]
        \/ d = m.from /\ reply'[d].parcel = EmptyParcel
    <3>1. CASE reply' = reply
      BY <3>1
    <3>2. ASSUME NEW ret, reply' = [reply EXCEPT ![m.from] = [ret |-> ret, parcel |-> EmptyParcel]]
          PROVE  reply'[d] = reply[d] \/ (d = m.from /\ reply'[d].parcel = EmptyParcel)
      <4>1. DOMAIN reply = Clients
        BY DEF TypeOK, PostOK
      <4>2. d = m.from => reply'[d] = [ret |-> ret, parcel |-> EmptyParcel]
        BY <3>2, <4>1, Zenon
      <4>3. d # m.from => reply'[d] = reply[d]
        BY <3>2, <4>1, Zenon
      <4> QED
        BY <4>2, <4>3
    <3> QED
      BY <3>1, <3>2
  <2>3. EmptyParcel.key = NoKey
    BY DEF EmptyParcel
  <2> QED
    BY <1>3, <2>1, <2>2, <2>3
<1>6. \A n \in ToSet(inbox) \ ToSet(inbox') : n.parcel.key \in {m.parcel.key, NoKey}
  OBVIOUS
<1> QED
  BY <1>1, <1>2, <1>4, <1>5, <1>6, MessageGone

\* A reply is taken, or lost with the client.
LEMMA ReplyGone ==
    ASSUME TypeOK, PostOK', StageInv, MessagesOwn, SegmentsHeld, NEW c \in Clients,
           inbox' = inbox, reply' = [reply EXCEPT ![c] = NoReply], calls' = calls,
           Disposed(reply[c].parcel.key)
    PROVE  MessagesOwn' /\ SegmentsHeld'
<1>1. PICK k \in Key \cup {NoKey} : k = reply[c].parcel.key
  BY ParcelsTyped DEF TypeOK
<1>2. k # NoKey => k \notin lost /\ shm[k] # NoData
  BY <1>1, KeysUsed
<1>3. \A m \in ToSet(inbox') : m \in ToSet(inbox) /\ (m.parcel.key # k \/ k = NoKey)
  BY <1>1, OneOwner
<1>4. ASSUME NEW d \in Clients
      PROVE  /\ \/ reply'[d].parcel = reply[d].parcel
                \/ reply'[d].parcel = EmptyParcel /\ reply[d].parcel.key \in {k, NoKey}
             /\ reply'[d].parcel.key # k \/ k = NoKey
  <2>1. NoReply.parcel = EmptyParcel /\ EmptyParcel.key = NoKey
    BY DEF NoReply, EmptyParcel
  <2>2. CASE d = c
    <3>1. reply'[d] = NoReply
      BY <2>2 DEF TypeOK, PostOK
    <3> QED
      BY <1>1, <2>1, <2>2, <3>1
  <2>3. CASE d # c
    <3>1. reply'[d] = reply[d]
      BY <2>3 DEF TypeOK, PostOK
    <3>2. reply[d].parcel.key # k \/ k = NoKey
      BY <1>1, <2>3, OneOwner
    <3> QED
      BY <3>1, <3>2
  <2> QED
    BY <2>2, <2>3
<1>5. ToSet(inbox) \ ToSet(inbox') = {} /\ Disposed(k)
  BY <1>1
<1> QED
  BY <1>2, <1>3, <1>4, <1>5, MessageGone

\* What is being pushed stays what it is.
LEMMA PushingFrame ==
    ASSUME PushingOwn,
           \A c \in Clients : call'[c] = "push" =>
              call[c] = "push" /\ pushing'[c] = pushing[c] /\ calls'[c] = calls[c],
           server' = "push" =>
              /\ server = "push" /\ serving' = serving /\ pushing'[Server] = pushing[Server]
              /\ calls'[serving] = calls[serving]
    PROVE  PushingOwn'
<1>1. \A c \in Clients : call'[c] = "push" =>
         pushing'[c].size \in {"shared", "huge"} /\ pushing'[c].data = <<c, calls'[c]>>
  BY DEF PushingOwn, Input
<1>2. server' = "push" =>
         pushing'[Server].size \in {"shared", "huge"} /\ pushing'[Server].data = <<serving', calls'[serving']>>
  BY DEF PushingOwn, Input
<1> QED
  BY <1>1, <1>2 DEF PushingOwn, Input

\* The client's steps: a call begins,
LEMMA CallContent ==
    ASSUME TypeOK, TypeOK', FlowInv, StageInv, ContentInv, NEW c \in Clients,
           NEW size \in Size \ {"empty"}, SyncExecAlgorithmProxy(c, size)
    PROVE  ContentInv'
<1> USE DEF shmVars, clientVars, serverVars, heapVars, engineVars
<1> DEFINE x == [size |-> size, data |-> <<c, calls[c] + 1>>]
<1>1. /\ call[c] = "idle" /\ calls' = [calls EXCEPT ![c] = @ + 1]
      /\ heard' = [heard EXCEPT ![c] = NotHeard]
      /\ UNCHANGED <<shm, requestVars>>
  BY SyncAssumption DEF SyncExecAlgorithmProxy, ClientSyncProcess, Send, requestVars
<1>2. From(c) = {} /\ serving # c /\ reply[c] = NoReply
  BY <1>1 DEF StageInv, Stage
<1>3. /\ calls' \in [Clients -> Nat] /\ PostOK' /\ calls'[c] = calls[c] + 1
      /\ \A d \in Clients : d # c => calls'[d] = calls[d]
  BY <1>1 DEF TypeOK, ClientOK
<1>4. Input(c)' = <<c, calls[c] + 1>>
  BY <1>3 DEF Input
<1>5. HeardOwn'
  <2>1. ASSUME NEW d \in Clients, heard'[d].ret = "success"
        PROVE  heard'[d].data \in {NoData, <<d, calls'[d]>>}
    <3>1. heard'[c] = NotHeard
      BY <1>1 DEF TypeOK, ClientOK
    <3>2. d # c
      BY <2>1, <3>1 DEF NotHeard
    <3>3. heard'[d] = heard[d]
      BY <1>1, <3>2 DEF TypeOK, ClientOK
    <3> QED
      BY <1>3, <2>1, <3>2, <3>3 DEF ContentInv, HeardOwn, Input
  <2> QED
    BY <2>1 DEF HeardOwn, Input
<1>6. RequestOwn'
  <2>1. server = "wait" => calls'[serving] = calls[serving]
    BY <1>2, <1>3 DEF FlowInv
  <2> QED
    BY <1>1, <2>1, RequestFrame DEF ContentInv
<1>7. server' = server /\ serving' = serving /\ (server = "push" => serving \in Clients \ {c})
  BY <1>1, <1>2 DEF requestVars, FlowInv
<1>8. MessagesOwn /\ SegmentsHeld /\ PushingOwn
  BY DEF ContentInv
<1>9. CASE size = "inline"
  <2>1. PICK parcel \in Parcels : parcel = ParcelDataInfo(x)
    BY <1>3 DEF ParcelDataInfo, Parcels, TypeOK, ClientOK, Datum, Data
  <2>2. parcel.size = "inline" /\ parcel.data = Input(c)' /\ parcel.key = NoKey
    BY <1>4, <1>9, <2>1 DEF ParcelDataInfo
  <2>3. /\ call' = [call EXCEPT ![c] = "sent"] /\ UNCHANGED <<pushing, reply, lost>>
        /\ inbox' = Append(inbox, [from |-> c, parcel |-> parcel])
    BY <1>9, <2>1, SyncAssumption DEF SyncExecAlgorithmProxy, Send
  <2>4. ToSet(inbox') = ToSet(inbox) \cup {[from |-> c, parcel |-> parcel]}
    <3>1. [from |-> c, parcel |-> parcel] \in Messages
      BY DEF Messages
    <3> QED
      BY <2>3, <3>1, AddLast DEF TypeOK, PostOK
  <2>5. Carries(parcel, c)'
    BY <2>2 DEF Carries
  <2>6. MessagesOwn' /\ SegmentsHeld'
    BY <1>1, <1>2, <1>3, <1>8, <2>2, <2>3, <2>4, <2>5, MessageCame
  <2>7. PushingOwn'
    <3>1. \A d \in Clients : call'[d] = "push" => d # c /\ call[d] = "push"
      BY <2>3 DEF TypeOK, ClientOK
    <3> QED
      BY <1>3, <1>7, <1>8, <2>3, <3>1, PushingFrame
  <2> QED
    BY <1>5, <1>6, <2>6, <2>7 DEF ContentInv
<1>10. CASE size # "inline"
  <2>1. /\ call' = [call EXCEPT ![c] = "push"] /\ pushing' = [pushing EXCEPT ![c] = x]
        /\ UNCHANGED <<inbox, reply, lost>>
    BY <1>10 DEF SyncExecAlgorithmProxy, AcquireShmSegment
  <2>2. EmptyParcel \in Parcels /\ EmptyParcel.key = NoKey /\ Carries(EmptyParcel, c)'
    BY Shapes DEF EmptyParcel, Carries
  <2>3. lost' = lost \cup ({NoKey} \ {NoKey})
    BY <2>1
  <2>4. MessagesOwn' /\ SegmentsHeld'
    BY <1>1, <1>2, <1>3, <1>8, <2>1, <2>2, <2>3, MessageCame
  <2>5. PushingOwn'
    <3>1. pushing'[c].size \in {"shared", "huge"} /\ pushing'[c].data = <<c, calls'[c]>>
      <4>1. pushing'[c] = x /\ size \in {"shared", "huge"}
        BY <1>10, <2>1 DEF TypeOK, ShmOK, Procs, Size
      <4> QED
        BY <1>3, <4>1
    <3>2. ASSUME NEW d \in Clients, d # c, call'[d] = "push"
          PROVE  pushing'[d].size \in {"shared", "huge"} /\ pushing'[d].data = <<d, calls'[d]>>
      <4>1. call[d] = "push" /\ pushing'[d] = pushing[d] /\ calls'[d] = calls[d]
        BY <1>3, <2>1, <3>2 DEF TypeOK, ClientOK, ShmOK, Procs
      <4> QED
        BY <1>8, <4>1 DEF PushingOwn, Input
    <3>3. ASSUME server' = "push"
          PROVE  /\ pushing'[Server].size \in {"shared", "huge"}
                 /\ pushing'[Server].data = <<serving', calls'[serving']>>
      <4>1. pushing'[Server] = pushing[Server] /\ serving' = serving /\ calls'[serving] = calls[serving]
        BY <1>3, <1>7, <2>1, <3>3, SyncAssumption DEF TypeOK, ShmOK, Procs
      <4> QED
        BY <1>7, <1>8, <3>3, <4>1 DEF PushingOwn, Input
    <3> QED
      BY <3>1, <3>2, <3>3 DEF PushingOwn, Input
  <2> QED
    BY <1>5, <1>6, <2>4, <2>5 DEF ContentInv
<1> QED
  BY <1>9, <1>10

\* Other steps leave the clients' inputs and what is pushed alone.
LEMMA PushingKept ==
    ASSUME TypeOK, PushingOwn, calls' = calls,
           \/ pushing' = pushing
           \/ \E c \in Clients : call'[c] # "push" /\ pushing' = [pushing EXCEPT ![c] = Empty],
           \A d \in Clients : call'[d] = "push" => call[d] = "push",
           server' = "push" => server = "push" /\ serving' = serving
    PROVE  PushingOwn'
<1>1. pushing \in [Procs -> [size : Size, data : Datum]] /\ Server \notin Clients
  BY SyncAssumption DEF TypeOK, ShmOK
<1>2. ASSUME NEW c \in Clients, call'[c] # "push", pushing' = [pushing EXCEPT ![c] = Empty]
      PROVE  /\ \A d \in Clients : call'[d] = "push" => pushing'[d] = pushing[d]
             /\ pushing'[Server] = pushing[Server]
  BY <1>1, <1>2
<1>3. /\ \A d \in Clients : call'[d] = "push" => pushing'[d] = pushing[d]
      /\ pushing'[Server] = pushing[Server]
  BY <1>2
<1> QED
  BY <1>3, PushingFrame

\* What was heard stays true until the next call.
LEMMA HeardKept ==
    ASSUME TypeOK, HeardOwn, calls' = calls,
           \/ heard' = heard
           \/ \E c \in Clients : \E h : /\ heard' = [heard EXCEPT ![c] = h]
                                        /\ h.ret = "success" => h.data \in {NoData, Input(c)}
    PROVE  HeardOwn'
<1>1. heard \in [Clients -> [ret : Ret, data : Datum]] /\ \A d : Input(d)' = Input(d)
  BY DEF TypeOK, ClientOK, Input
<1>2. ASSUME NEW c \in Clients, NEW h, heard' = [heard EXCEPT ![c] = h],
             h.ret = "success" => h.data \in {NoData, Input(c)}
      PROVE  \A d \in Clients : heard'[d].ret = "success" => heard'[d].data \in {NoData, Input(d)}
  <2>1. heard'[c] = h /\ \A d \in Clients : d # c => heard'[d] = heard[d]
    BY <1>1, <1>2
  <2> QED
    BY <1>2, <2>1 DEF HeardOwn
<1> QED
  BY <1>1, <1>2 DEF HeardOwn

\* an answer is read,
LEMMA CallbackContent ==
    ASSUME TypeOK, TypeOK', FlowInv, StageInv, ContentInv, NEW c \in Clients, CallbackBuff(c), ~misread'
    PROVE  ContentInv'
<1> USE DEF serverVars, heapVars, engineVars
<1>1. PICK o \in UnParcelDataInfo(reply[c].parcel) :
         /\ Popped(o)
         /\ heard' = [heard EXCEPT ![c] = [ret |-> IF o.ok THEN reply[c].ret ELSE "failure",
                                           data |-> IF o.ok THEN o.data ELSE NoData]]
  BY DEF CallbackBuff
<1>2. /\ call' = [call EXCEPT ![c] = "idle"] /\ reply' = [reply EXCEPT ![c] = NoReply]
      /\ UNCHANGED <<pushing, calls, inbox, lost, requestVars>>
  BY DEF CallbackBuff, requestVars
<1>3. reply[c].parcel \in Parcels /\ ShmOK /\ Carries(reply[c].parcel, c)
  BY ParcelsTyped DEF TypeOK, ContentInv, MessagesOwn
<1>4. o \in Outcomes
  BY <1>1, <1>3, UnParcelEnds
<1>5. ~o.wrong /\ shm' = [k \in Key |-> IF k \in o.released THEN NoData ELSE shm[k]]
  BY <1>1, <1>4, PoppedTyped
<1>6. /\ o.released = {reply[c].parcel.key} \ {NoKey}
      /\ o.ok => o.data = IF reply[c].parcel.size = "empty" THEN NoData ELSE Input(c)
  BY <1>1, <1>3, <1>5, UnParcelEnds
<1>7. Disposed(reply[c].parcel.key)
  BY <1>2, <1>5, <1>6 DEF Disposed
<1>8. MessagesOwn' /\ SegmentsHeld'
  BY <1>2, <1>7, ReplyGone DEF ContentInv, TypeOK
<1>9. HeardOwn'
  <2> DEFINE h == [ret |-> IF o.ok THEN reply[c].ret ELSE "failure",
                   data |-> IF o.ok THEN o.data ELSE NoData]
  <2>1. h.ret = "success" => h.data \in {NoData, Input(c)}
    BY <1>6
  <2>2. heard' = [heard EXCEPT ![c] = h]
    BY <1>1
  <2> HIDE DEF h
  <2> QED
    BY <1>2, <2>1, <2>2, HeardKept DEF ContentInv
<1>10. PushingOwn' /\ RequestOwn'
  <2>1. \A d \in Clients : call'[d] = "push" => call[d] = "push"
    BY <1>2 DEF TypeOK, ClientOK
  <2>2. PushingOwn'
    BY <1>2, <2>1, PushingKept DEF ContentInv, requestVars
  <2>3. RequestOwn'
    BY <1>2, RequestFrame DEF ContentInv
  <2> QED
    BY <2>2, <2>3
<1> QED
  BY <1>8, <1>9, <1>10 DEF ContentInv

\* a message is lost, or the client dies.
LEMMA LossContent ==
    ASSUME TypeOK, TypeOK', FlowInv, StageInv, ContentInv, NEW c \in Clients,
           InvokeLost(c) \/ Die(c) \/ DiePushing(c)
    PROVE  ContentInv'
<1> USE DEF shmVars, serverVars, heapVars, engineVars
<1>1. UNCHANGED <<calls, requestVars>>
  BY DEF InvokeLost, Die, DiePushing, requestVars
<1>2. /\ call'[c] # "push"
      /\ \A d \in Clients : call'[d] = "push" => call[d] = "push"
      /\ pushing' = pushing \/ pushing' = [pushing EXCEPT ![c] = Empty]
  <2>1. CASE InvokeLost(c)
    BY <2>1 DEF InvokeLost, TypeOK, ClientOK
  <2>2. CASE Gone(c)
    BY <2>2 DEF Gone, Pushed, TypeOK, ClientOK
  <2> QED
    BY <2>1, <2>2 DEF Die, DiePushing
<1>3. PushingOwn' /\ RequestOwn'
  <2>1. PushingOwn'
    <3>1. PushingOwn /\ calls' = calls /\ server' = server /\ serving' = serving
      BY <1>1 DEF ContentInv, requestVars
    <3> QED
      BY <1>2, <3>1, PushingKept
  <2>2. RequestOwn'
    BY <1>1, RequestFrame DEF ContentInv
  <2> QED
    BY <2>1, <2>2
<1>4. HeardOwn'
  <2> DEFINE h == [ret |-> "failure", data |-> NoData]
  <2>1. h.ret # "success" /\ NotHeard.ret # "success"
    BY DEF NotHeard
  <2>2. heard' = [heard EXCEPT ![c] = h] \/ heard' = [heard EXCEPT ![c] = NotHeard]
    BY DEF InvokeLost, Die, DiePushing, Gone
  <2> HIDE DEF h
  <2> QED
    BY <1>1, <2>1, <2>2, HeardKept DEF ContentInv
<1>5. MessagesOwn /\ SegmentsHeld /\ PostOK' /\ calls' = calls
  BY <1>1 DEF ContentInv, TypeOK
<1>6. CASE InvokeLost(c)
  <2>1. PICK i \in DOMAIN inbox : /\ inbox[i].from = c /\ inbox' = RemoveAt(inbox, i)
                                  /\ lost' = lost \cup ({inbox[i].parcel.key} \ {NoKey})
    BY <1>6 DEF InvokeLost
  <2>2. inbox \in Seq(Messages) /\ \A j, k \in DOMAIN inbox : inbox[j].from = inbox[k].from => j = k
    BY DEF TypeOK, PostOK, StageInv, OnePerClient
  <2>3. inbox[i] \in ToSet(inbox) /\ ToSet(inbox') = ToSet(inbox) \ {inbox[i]}
    BY <2>1, <2>2, TakeOutOne, InInbox
  <2>4. shm' = shm /\ reply' = reply
    BY <1>6 DEF InvokeLost
  <2>5. Disposed(inbox[i].parcel.key)
    BY <2>1, <2>4 DEF Disposed
  <2> QED
    BY <1>3, <1>4, <1>5, <2>3, <2>4, <2>5, RequestGone DEF ContentInv
<1>7. CASE Die(c)
  <2>1. /\ shm' = shm /\ inbox' = inbox /\ reply' = [reply EXCEPT ![c] = NoReply]
        /\ lost' = lost \cup ({reply[c].parcel.key} \ {NoKey})
    BY <1>7 DEF Die
  <2>2. Disposed(reply[c].parcel.key)
    BY <2>1 DEF Disposed
  <2> QED
    BY <1>3, <1>4, <1>5, <2>1, <2>2, ReplyGone DEF ContentInv
<1>8. CASE DiePushing(c)
  <2>1. PICK k \in Key : k = shmKey[c]
    BY DEF TypeOK, ShmOK, Procs
  <2>2. /\ call[c] = "push" /\ shm[k] = NoData /\ shm' = [shm EXCEPT ![k] = pushing[c].data]
        /\ lost' = lost \cup {k} /\ UNCHANGED <<inbox, reply>>
    BY <1>8, <2>1 DEF DiePushing, KeyTaken
  <2>3. k # NoKey /\ pushing[c].data = Input(c)'
    BY <1>5, <2>2, SyncAssumption DEF Key, ContentInv, PushingOwn, Input
  <2>4. PICK parcel \in Parcels : parcel = [size |-> "shared", data |-> NoData, key |-> k]
    BY DEF Parcels, Size, Datum
  <2>5. parcel.key = k
    BY <2>4
  <2>6. calls' \in [Clients -> Nat] /\ \A d \in Clients : calls'[d] = calls[d]
    BY <1>5 DEF TypeOK, ClientOK
  <2>7. lost' = lost \cup ({k} \ {NoKey}) /\ k \in lost'
    BY <2>2, <2>3
  <2>8. MessagesOwn' /\ SegmentsHeld'
    BY <1>5, <2>2, <2>3, <2>5, <2>6, <2>7, MessageCame
  <2> QED
    BY <1>3, <1>4, <2>8 DEF ContentInv
<1> QED
  BY <1>6, <1>7, <1>8

\* The messages and the segments stay as they are.
LEMMA PostFrame ==
    ASSUME MessagesOwn, SegmentsHeld, UNCHANGED <<shm, calls, inbox, reply, lost>>
    PROVE  MessagesOwn' /\ SegmentsHeld'
BY DEF MessagesOwn, SegmentsHeld, Carries, Input

\* The service's steps: the first message is unparcelled, to give the input of
\* its sender or nothing, and may be answered without a result,
LEMMA MessagePopped ==
    ASSUME TypeOK, TypeOK', StageInv, ContentInv, MayInvoke, NEW o \in UnParcelDataInfo(Message.parcel),
           Popped(o), ~misread', inbox' = Tail(inbox), calls' = calls,
           (reply' = reply /\ lost' = lost) \/ Answer("failure")
    PROVE  MessagesOwn' /\ SegmentsHeld' /\ (o.ok => o.data = Input(Message.from))
<1>1. PICK m \in ToSet(inbox) : m = Message
  BY MessageTyped
<1>2. m.from \in Clients /\ m.parcel \in Parcels /\ m.parcel.size # "empty" /\ Carries(m.parcel, m.from)
  BY ParcelsTyped DEF TypeOK, ContentInv, MessagesOwn
<1>3. o \in UnParcelDataInfo(m.parcel) /\ ShmOK
  BY <1>1 DEF TypeOK
<1>4. o \in Outcomes
  BY <1>2, <1>3, UnParcelEnds
<1>5. ~o.wrong /\ shm' = [k \in Key |-> IF k \in o.released THEN NoData ELSE shm[k]]
  BY <1>4, PoppedTyped
<1>6. o.released = {m.parcel.key} \ {NoKey} /\ (o.ok => o.data = Input(m.from))
  BY <1>2, <1>3, <1>5, UnParcelEnds
<1>7. /\ lost' = lost
      /\ \/ reply' = reply
         \/ \E ret : reply' = [reply EXCEPT ![m.from] = [ret |-> ret, parcel |-> EmptyParcel]]
  BY <1>1 DEF Answer, Reply, EmptyParcel
<1>8. Disposed(m.parcel.key)
  BY <1>5, <1>6, <1>7 DEF Disposed
<1>9. ToSet(inbox') = ToSet(inbox) \ {m}
  BY <1>1, FirstDropped
<1>10. MessagesOwn' /\ SegmentsHeld'
  BY <1>7, <1>8, <1>9, RequestGone DEF ContentInv, TypeOK
<1> QED
  BY <1>1, <1>6, <1>10

LEMMA InvokeContent ==
    ASSUME TypeOK, TypeOK', FlowInv, StageInv, ContentInv, ~misread',
           UnParcelInfoFails \/ InvokeFails \/ InvokeRefused \/ SendRequest
    PROVE  ContentInv'
<1> USE DEF shmVars, clientVars, serverVars, heapVars, engineVars
<1>1. /\ MayInvoke /\ server = "idle" /\ GivenUp /\ inbox' = Tail(inbox)
      /\ UNCHANGED <<pushing, call, calls, heard>> /\ server' # "push"
  BY DEF UnParcelInfoFails, InvokeFails, InvokeRefused, SendRequest, MayInvoke, FlowInv
<1>2. PushingOwn' /\ HeardOwn'
  BY <1>1, PushingKept, HeardKept DEF ContentInv
<1>3. CASE UnParcelInfoFails
  <2>1. PICK m \in ToSet(inbox) : m = Message
    BY <1>1, MessageTyped
  <2>2. /\ shm' = shm /\ lost' = lost \cup ({m.parcel.key} \ {NoKey})
        /\ \/ reply' = reply
           \/ \E ret : reply' = [reply EXCEPT ![m.from] = [ret |-> ret, parcel |-> EmptyParcel]]
    BY <1>3, <2>1 DEF UnParcelInfoFails
  <2>3. Disposed(m.parcel.key) /\ ToSet(inbox') = ToSet(inbox) \ {m}
    BY <1>1, <2>1, <2>2, FirstDropped DEF Disposed
  <2>4. MessagesOwn' /\ SegmentsHeld'
    BY <1>1, <2>2, <2>3, RequestGone DEF ContentInv, TypeOK
  <2>5. RequestOwn'
    BY <1>1, <1>3 DEF UnParcelInfoFails, RequestOwn
  <2> QED
    BY <1>2, <2>4, <2>5 DEF ContentInv
<1>4. CASE InvokeFails \/ InvokeRefused
  <2>1. PICK o \in UnParcelDataInfo(Message.parcel) : Popped(o)
    BY <1>4 DEF InvokeFails, InvokeRefused
  <2>2. Answer("failure") /\ server' = server
    BY <1>4 DEF InvokeFails, InvokeRefused
  <2>3. MessagesOwn' /\ SegmentsHeld'
    BY <1>1, <2>1, <2>2, MessagePopped
  <2>4. RequestOwn'
    BY <1>1, <2>2 DEF RequestOwn
  <2> QED
    BY <1>2, <2>3, <2>4 DEF ContentInv
<1>5. CASE SendRequest
  <2>1. PICK o \in UnParcelDataInfo(Message.parcel) :
           /\ o.ok /\ Popped(o) /\ PushBack(ConvertToRequest(Message.from, o.data))
    BY <1>5 DEF SendRequest
  <2>2. PICK c \in Clients : c = Message.from
    BY <1>1, MessageTyped
  <2>3. reply' = reply /\ lost' = lost /\ serving' = c
    BY <1>5, <2>2 DEF SendRequest
  <2>4. MessagesOwn' /\ SegmentsHeld' /\ o.data = Input(c)
    BY <1>1, <2>1, <2>2, <2>3, MessagePopped
  <2>5. queue' = Append(queue, [transaction |-> c, msg |-> o.data]) /\ queue = << >>
    BY <1>1, <2>1, <2>2 DEF PushBack, ConvertToRequest, GivenUp
  <2>6. Head(queue').msg = o.data /\ Len(queue') = 1
    BY <2>5
  <2>7. ~WithWorker' /\ ~InNotifier'
    <3>1. queue' # << >>
      BY <2>6
    <3> QED
      BY <3>1 DEF WithWorker, InNotifier
  <2>8. Input(c)' = Input(c)
    BY <1>1 DEF Input
  <2>9. RequestOwn'
    BY <2>3, <2>4, <2>6, <2>7, <2>8 DEF RequestOwn, Input
  <2> QED
    BY <1>2, <2>4, <2>9 DEF ContentInv
<1> QED
  BY <1>3, <1>4, <1>5

\* and the response is answered.
LEMMA ReceiveContent ==
    ASSUME TypeOK, TypeOK', FlowInv, StageInv, ContentInv, ReceiveResponse
    PROVE  ContentInv'
<1> USE DEF clientVars, engineVars
<1> DEFINE r == notifier.value
<1>1. server = "wait" /\ notifier.count > 0 /\ notifier.count \in Nat
  BY DEF ReceiveResponse, SemaphoreUp, TypeOK, EngineOK
<1>2. InNotifier /\ serving \in Clients
  BY <1>1 DEF FlowInv, InQueue, WithWorker, InNotifier, GivenUp
<1>3. PICK c \in Clients : c = serving
  BY <1>2
<1>4. r \in Responses /\ r.data = IF r.size = "empty" THEN NoData ELSE Input(c)
  BY <1>1, <1>2, <1>3 DEF ContentInv, RequestOwn, ResultOf, Input, TypeOK, EngineOK
<1>5. GetResult(r) = [size |-> r.size, data |-> r.data] /\ GetRetCode(r) = r.ret
  BY DEF GetResult, GetRetCode
<1>6. reply[c] = NoReply
  BY <1>3 DEF StageInv, Stage
<1>7. UNCHANGED <<shm, calls, call, heard, inbox>> /\ server' # "wait" /\ \A d : Input(d)' = Input(d)
  BY DEF ReceiveResponse, Input
<1>8. HeardOwn' /\ RequestOwn'
  <2>1. HeardOwn'
    BY <1>7, HeardKept DEF ContentInv
  <2>2. RequestOwn'
    BY <1>7 DEF RequestOwn
  <2> QED
    BY <2>1, <2>2
<1>9. MessagesOwn /\ SegmentsHeld /\ PushingOwn /\ PostOK'
  BY DEF ContentInv, TypeOK
<1> HIDE DEF r
<1>10. CASE r.ret = "success" /\ r.size \in {"shared", "huge"}
  <2>1. /\ server' = "push" /\ serving' = serving /\ UNCHANGED <<reply, lost>>
        /\ pushing' = [pushing EXCEPT ![Server] = [size |-> r.size, data |-> r.data]]
    BY <1>5, <1>10 DEF ReceiveResponse, AcquireShmSegment, r
  <2>2. MessagesOwn' /\ SegmentsHeld'
    BY <1>7, <1>9, <2>1, PostFrame
  <2>3. PushingOwn'
    <3>1. \A d \in Clients : pushing'[d] = pushing[d]
      BY <2>1, SyncAssumption DEF TypeOK, ShmOK, Procs
    <3>2. pushing'[Server] = [size |-> r.size, data |-> r.data] /\ r.data = Input(c)
      BY <1>4, <1>10, <2>1 DEF TypeOK, ShmOK, Procs
    <3> QED
      BY <1>3, <1>7, <1>9, <1>10, <2>1, <3>1, <3>2 DEF PushingOwn, Input
  <2> QED
    BY <1>8, <2>2, <2>3 DEF ContentInv
<1>11. CASE ~(r.ret = "success" /\ r.size \in {"shared", "huge"})
  <2> DEFINE answer == IF r.ret = "success" /\ r.size = "inline"
                       THEN ParcelDataInfo([size |-> r.size, data |-> r.data]) ELSE EmptyParcel
  <2>1. PICK parcel \in Parcels : parcel = answer
    <3>1. [size |-> r.size, data |-> r.data, key |-> NoKey] \in Parcels
      BY <1>4 DEF Responses, Parcels
    <3> QED
      BY <3>1, Shapes DEF ParcelDataInfo
  <2>2. server' = "idle" /\ Reply(c, r.ret, parcel) /\ pushing' = pushing
    BY <1>3, <1>5, <1>11, <2>1 DEF ReceiveResponse, r
  <2>3. /\ parcel.key = NoKey
        /\ \/ parcel.size = "inline" /\ parcel.data = Input(c)
           \/ parcel.size = "empty" /\ parcel.data = NoData
    BY <1>4, <2>1 DEF ParcelDataInfo, EmptyParcel
  <2> HIDE DEF answer
  <2>4. Carries(parcel, c)'
    BY <1>7, <2>3 DEF Carries
  <2>5. /\ lost' = lost
        /\ \/ reply' = reply
           \/ \E ret : reply' = [reply EXCEPT ![c] = [ret |-> ret, parcel |-> parcel]]
    BY <2>2, <2>3 DEF Reply
  <2>6. MessagesOwn' /\ SegmentsHeld'
    <3>1. CASE reply' = reply
      BY <1>7, <1>9, <2>5, <3>1, PostFrame
    <3>2. CASE \E ret : reply' = [reply EXCEPT ![c] = [ret |-> ret, parcel |-> parcel]]
      <4>1. calls' \in [Clients -> Nat] /\ \A d \in Clients : calls'[d] = calls[d]
        BY <1>7 DEF TypeOK, ClientOK
      <4> QED
        BY <1>6, <1>7, <1>9, <2>3, <2>4, <2>5, <3>2, <4>1, MessageCame
    <3> QED
      BY <2>5, <3>1, <3>2
  <2>7. PushingOwn'
    BY <1>7, <1>9, <2>2, PushingKept
  <2> QED
    BY <1>8, <2>6, <2>7 DEF ContentInv
<1> QED
  BY <1>10, <1>11

\* The worker hands on the input, and then its result.
LEMMA WorkerContent ==
    ASSUME TypeOK, FlowInv, ContentInv, WorkerStep
    PROVE  ContentInv'
<1> USE DEF shmVars, clientVars, serverVars, heapVars
<1>1. /\ UNCHANGED <<shm, pushing, call, calls, heard, inbox, reply, lost, server, serving>>
      /\ \A d : Input(d)' = Input(d)
  BY DEF WorkerStep, PopFront, Process, ProcessGivesUp, AddToBack, Signal, Input
<1>2. MessagesOwn' /\ SegmentsHeld' /\ PushingOwn' /\ HeardOwn'
  BY <1>1, PostFrame, PushingKept, HeardKept DEF ContentInv
<1>3. server = "wait" /\ serving \in Clients
  BY DEF WorkerStep, PopFront, Process, ProcessGivesUp, AddToBack, Signal, FlowInv, GivenUp
<1>4. PICK c \in Clients : c = serving
  BY <1>3
<1>5. /\ InQueue => Head(queue).msg = Input(c)
      /\ WithWorker /\ worker = "process" => task.msg = Input(c)
      /\ WithWorker /\ worker # "process" => ResultOf(response, c)
  BY <1>3, <1>4 DEF ContentInv, RequestOwn, Input, ResultOf
<1>6. SUFFICES
        /\ InQueue' => Head(queue').msg = Input(c)
        /\ WithWorker' /\ worker' = "process" => task'.msg = Input(c)
        /\ WithWorker' /\ worker' # "process" => ResultOf(response', c)
        /\ InNotifier' => ResultOf(notifier'.value, c)
  BY <1>1, <1>2, <1>4 DEF ContentInv, RequestOwn, Input, ResultOf
<1>7. CASE PopFront
  <2>1. InQueue
    BY <1>3, <1>7 DEF PopFront, FlowInv, InQueue, WithWorker, InNotifier, GivenUp
  <2>2. worker' = "process" /\ task' = Head(queue)
    BY <1>7 DEF PopFront
  <2> QED
    BY <1>5, <2>1, <2>2 DEF InQueue, InNotifier
<1>8. ASSUME NEW size \in Size, Process(size)
      PROVE  /\ worker' = "store" /\ ResultOf(response', c)
  <2>1. PICK ret \in {"success", "failure"} : Respond(ret, size)
    BY <1>8 DEF Process
  <2>2. WithWorker /\ worker = "process"
    BY <1>3, <1>8 DEF Process, FlowInv, InQueue, WithWorker, InNotifier, GivenUp
  <2>3. worker' = "store" /\ response' = Response(task, ret, size) /\ task.msg = Input(c)
    BY <1>5, <2>1, <2>2 DEF Respond
  <2>4. response'.size = size /\ response'.data = IF size = "empty" THEN NoData ELSE Input(c)
    BY <2>3 DEF Response, GetMsg
  <2> QED
    BY <2>3, <2>4 DEF ResultOf
<1>9. CASE ProcessGivesUp
  <2>1. WithWorker
    BY <1>3, <1>9 DEF ProcessGivesUp, FlowInv, InQueue, WithWorker, InNotifier, GivenUp
  <2>2. GivenUp'
    BY <1>9, <2>1 DEF ProcessGivesUp, WithWorker, GivenUp
  <2> QED
    BY <2>2 DEF InQueue, WithWorker, InNotifier, GivenUp
<1>10. CASE AddToBack
  <2>1. WithWorker /\ worker = "store" /\ worker' = "signal" /\ response' = response
    BY <1>3, <1>10 DEF AddToBack, FlowInv, InQueue, WithWorker, InNotifier, GivenUp
  <2> QED
    BY <1>5, <2>1 DEF InQueue, InNotifier
<1>11. CASE Signal
  <2>1. WithWorker /\ worker = "signal" /\ RequestFollowed
    BY <1>3, <1>11 DEF Signal, FlowInv, InQueue, WithWorker, InNotifier, GivenUp
  <2>2. notifier.value = response /\ ResultOf(response, c)
    BY <1>5, <2>1 DEF RequestFollowed
  <2>3. notifier'.value = notifier.value /\ notifier'.count = notifier.count + 1
        /\ worker' = "idle" /\ notifier.count = 0
    BY <1>11, <2>1 DEF Signal, TypeOK, EngineOK, WithWorker
  <2> QED
    BY <2>2, <2>3 DEF InQueue, WithWorker
<1>12. CASE \E size \in Size : Process(size)
  BY <1>8, <1>12 DEF InQueue, InNotifier
<1> QED
  BY <1>7, <1>9, <1>10, <1>11, <1>12 DEF WorkerStep

\* Every step keeps what the messages carry, until a segment is misread.
LEMMA ContentKept ==
    TypeOK /\ FlowInv /\ StageInv /\ (~misread => ContentInv) /\ [Next]_vars => (~misread' => ContentInv')
<1> SUFFICES ASSUME TypeOK, FlowInv, StageInv, ~misread => ContentInv, [Next]_vars, ~misread'
             PROVE  ContentInv'
  OBVIOUS
<1>1. TypeOK'
  BY TypesKept
<1>2. CASE UNCHANGED vars
  BY <1>2, ContentFrame DEF vars, requestVars
<1>3. CASE Next
  <2>1. ~misread
    <3>1. \A o : Popped(o) => (~misread' => ~misread)
      BY DEF Popped
    <3> QED
      BY <1>3, <3>1
      DEF Next, ClientStep, ServerStep, WorkerStep, Push, SyncExecAlgorithmProxy, CallbackBuff, InvokeLost,
          Die, DiePushing, PushRetry, PushExhausted, PushShared, PushFails, UnParcelInfoFails, InvokeFails,
          InvokeRefused, SendRequest, ReceiveResponse, PopFront, Process, ProcessGivesUp, AddToBack, Signal
  <2>2. ContentInv /\ (\A c \in Clients : c \in Procs) /\ Server \in Procs
    BY <2>1 DEF Procs
  <2> QED
    BY <1>1, <1>3, <2>2, PushContent, CallContent, CallbackContent, LossContent, InvokeContent,
       ReceiveContent, WorkerContent
    DEF Next, ClientStep, ServerStep
<1> QED
  BY <1>2, <1>3

----------------------------------------------------------------------------
(* The inductive invariant *)

\* It holds when nothing has been sent,
LEMMA InvInitially == Init => SyncInv
<1> SUFFICES ASSUME Init PROVE SyncInv
  OBVIOUS
<1>1. 0 \in Key /\ NoData \in Datum /\ 0 \in Nat
  BY SyncAssumption DEF Key, Datum
<1>2. ShmOK
  BY <1>1, Shapes DEF Init, ShmOK
<1>3. ClientOK
  BY <1>1, Shapes DEF Init, ClientOK
<1>4. inbox = << >> /\ inbox \in Seq(Messages) /\ queue \in Seq(Requests) /\ ToSet(inbox) = {}
  BY DEF Init, ToSet
<1>5. PostOK /\ ServerOK /\ EngineOK /\ GhostOK
  <2>1. PostOK
    BY <1>4, Shapes DEF Init, PostOK
  <2>2. ServerOK
    BY DEF Init, ServerOK
  <2>3. EngineOK
    BY <1>4, Shapes DEF Init, EngineOK
  <2>4. GhostOK
    BY DEF Init, GhostOK
  <2> QED
    BY <2>1, <2>2, <2>3, <2>4
<1>6. FlowInv
  BY DEF Init, FlowInv, Allocated, GivenUp, NewNotifier
<1>7. StageInv
  BY <1>4, SyncAssumption DEF Init, StageInv, OnePerClient, Stage, From
<1>8. \A c \in Clients : reply[c].parcel = EmptyParcel
  BY DEF Init, NoReply
<1>9. MessagesOwn
  BY <1>4, <1>8 DEF MessagesOwn, Carries, EmptyParcel
<1>10. SegmentsHeld
  <2>1. NoKey \notin Key /\ EmptyParcel.key = NoKey
    BY SyncAssumption DEF Key, EmptyParcel
  <2> QED
    BY <1>4, <1>8, <2>1 DEF SegmentsHeld, Init
<1>11. PushingOwn /\ RequestOwn /\ HeardOwn
  BY DEF Init, PushingOwn, RequestOwn, HeardOwn, NotHeard
<1> QED
  BY <1>2, <1>3, <1>5, <1>6, <1>7, <1>9, <1>10, <1>11 DEF SyncInv, TypeOK, ContentInv

\* and in every state.
THEOREM SyncInvariant == Spec => []SyncInv
<1>1. SyncInv /\ [Next]_vars => SyncInv'
  BY TypesKept, FlowKept, StagesKept, ContentKept DEF SyncInv
<1> QED
  BY <1>1, InvInitially, PTL DEF Spec

\* The memory of a request is owned by one side at a time, for any clients,
\* capacities and faults: the worker never works on a freed request, nothing is
\* freed twice, and the IPC task leaves nothing behind.
THEOREM MemoryKept == Spec => []MemoryOwned
<1>1. SyncInv => MemoryOwned
  <2> SUFFICES ASSUME SyncInv PROVE MemoryOwned
    OBVIOUS
  <2>1. FlowInv
    BY DEF SyncInv
  <2>2. ASSUME worker # "idle" PROVE server = "wait" /\ RequestBlocks \subseteq heap
    <3>1. server = "wait" /\ WithWorker /\ RequestFollowed
      BY <2>1, <2>2 DEF FlowInv, InQueue, WithWorker, InNotifier, GivenUp
    <3>2. RequestBlocks \subseteq Allocated
      BY <3>1 DEF RequestFollowed, Answered
    <3> QED
      BY <3>1, <3>2 DEF Allocated
  <2>3. server = "idle" => heap \subseteq {"unowned"}
    BY <2>1 DEF FlowInv, Allocated
  <2> QED
    BY <2>1, <2>2, <2>3 DEF MemoryOwned, FlowInv
<1> QED
  BY <1>1, SyncInvariant, PTL

\* A client that hears success hears of its own input, whatever segments the
\* others create and remove, until a missing segment id has been misread; and
\* the IPC task never takes the response of another transaction.
THEOREM AnswersOwn == Spec => []AnswerIntact
<1>1. SyncInv => AnswerIntact
  <2> SUFFICES ASSUME SyncInv PROVE AnswerIntact
    OBVIOUS
  <2>1. ASSUME server = "wait", SemaphoreUp PROVE notifier.value.transaction = serving
    <3>1. notifier.count > 0 /\ notifier.count \in Nat
      BY <2>1 DEF SemaphoreUp, SyncInv, TypeOK, EngineOK
    <3>2. InNotifier /\ RequestFollowed
      BY <2>1, <3>1 DEF SyncInv, FlowInv, InQueue, WithWorker, InNotifier, GivenUp
    <3> QED
      BY <3>2 DEF RequestFollowed, Answered
  <2>2. ~misread => HeardOwn
    BY DEF SyncInv, ContentInv
  <2> QED
    BY <2>1, <2>2 DEF AnswerIntact, HeardOwn, Input
<1> QED
  BY <1>1, SyncInvariant, PTL

\* Two sets of which one numbers the other have as many elements.
LEMMA SameNumber ==
    ASSUME NEW S, NEW T, IsFiniteSet(T), NEW f \in [S -> T],
           \A x, y \in S : f[x] = f[y] => x = y, \A t \in T : \E x \in S : f[x] = t
    PROVE  IsFiniteSet(S) /\ Cardinality(S) = Cardinality(T)
<1>1. f \in Injection(S, T) /\ f \in Surjection(S, T)
  BY DEF Injection, IsInjective, Surjection
<1> QED
  BY <1>1, FS_Injection

\* The sizes of three sets without common elements add up.
LEMMA ThreeParts ==
    ASSUME NEW A, NEW B, NEW C, IsFiniteSet(A), IsFiniteSet(B), IsFiniteSet(C),
           A \cap B = {}, (A \cup B) \cap C = {}
    PROVE  Cardinality((A \cup B) \cup C) = Cardinality(A) + Cardinality(B) + Cardinality(C)
<1>1. Cardinality({}) = 0
  BY FS_EmptySet
<1>2. /\ Cardinality(A) \in Nat /\ Cardinality(B) \in Nat /\ Cardinality(C) \in Nat
  BY FS_CardinalityType
<1>3. IsFiniteSet(A \cup B) /\ Cardinality(A \cup B) = Cardinality(A) + Cardinality(B) - 0
  BY <1>1, FS_Union
<1>4. Cardinality((A \cup B) \cup C) = Cardinality(A \cup B) + Cardinality(C) - 0
  BY <1>1, <1>3, FS_Union
<1> QED
  BY <1>2, <1>3, <1>4

\* Every segment has one message on its way, and that message finds its own
\* data in it, or is lost with a dead process or an unread message: as many
\* segments as messages and losses, whatever fails, until one is misread.
THEOREM SegmentsKept == Spec => []SegmentsAccounted
<1>1. SyncInv => SegmentsAccounted
  <2> SUFFICES ASSUME SyncInv, ~misread PROVE SegmentsAccounted
    BY DEF SegmentsAccounted
  <2> DEFINE requests == {i \in DOMAIN inbox : inbox[i].parcel.key # NoKey}
             replies == {c \in Clients : reply[c].parcel.key # NoKey}
             requestKeys == {k \in Key : \E i \in DOMAIN inbox : inbox[i].parcel.key = k}
             replyKeys == {k \in Key : \E c \in Clients : reply[c].parcel.key = k}
             used == {k \in Key : shm[k] # NoData}
  <2>1. TypeOK /\ StageInv /\ MessagesOwn /\ SegmentsHeld
    BY DEF SyncInv, ContentInv
  <2>2. NoKey \notin Key /\ inbox \in Seq(Messages)
    BY <2>1, SyncAssumption DEF Key, TypeOK, PostOK
  <2>3. ToSet(inbox) = {inbox[i] : i \in DOMAIN inbox}
    BY DEF ToSet
  <2>4. \A i \in requests :
           /\ inbox[i].parcel.key \in Key \ lost /\ inbox[i].from \in Clients
           /\ shm[inbox[i].parcel.key] = Input(inbox[i].from)
    BY <2>1, <2>3, KeysUsed, ParcelsTyped DEF TypeOK
  <2>5. \A c \in replies : reply[c].parcel.key \in Key \ lost /\ shm[reply[c].parcel.key] = Input(c)
    BY <2>1, KeysUsed
  <2>6. used = (lost \cup requestKeys) \cup replyKeys
    <3>1. \A k \in lost : k \in Key
      BY <2>1 DEF TypeOK, PostOK
    <3>2. \A k \in Key : (k \in requestKeys) <=> (\E m \in ToSet(inbox) : m.parcel.key = k)
      BY <2>3
    <3> QED
      BY <2>1, <3>1, <3>2 DEF SegmentsHeld
  <2>7. lost \cap requestKeys = {} /\ (lost \cup requestKeys) \cap replyKeys = {}
    <3>1. \A k \in requestKeys : k \notin lost
      BY <2>2, <2>4
    <3>2. \A k \in replyKeys : k \notin lost
      BY <2>2, <2>5
    <3>3. \A k \in replyKeys : k \notin requestKeys
      BY <2>1, <2>2, <2>3, OneOwner
    <3> QED
      BY <3>1, <3>2, <3>3
  <2>8. IsFiniteSet(lost) /\ IsFiniteSet(requestKeys) /\ IsFiniteSet(replyKeys)
    <3>1. IsFiniteSet(Key)
      BY SyncAssumption, FS_Interval DEF Key
    <3>2. lost \in SUBSET Key /\ requestKeys \in SUBSET Key /\ replyKeys \in SUBSET Key
      BY <2>1 DEF TypeOK, PostOK
    <3> QED
      BY <3>1, <3>2, FS_Subset
  <2>9. Cardinality(requests) = Cardinality(requestKeys) /\ IsFiniteSet(requests)
    <3>1. PICK f \in [requests -> requestKeys] : \A i \in requests : f[i] = inbox[i].parcel.key
      <4> DEFINE g == [i \in requests |-> inbox[i].parcel.key]
      <4>1. g \in [requests -> requestKeys] /\ \A i \in requests : g[i] = inbox[i].parcel.key
        BY <2>4
      <4> HIDE DEF g
      <4> QED
        BY <4>1
    <3>2. \A i, j \in requests : inbox[i].parcel.key = inbox[j].parcel.key => i = j
      <4>1. \A i, j \in requests : inbox[i].parcel.key = inbox[j].parcel.key => inbox[i] = inbox[j]
        BY <2>1, <2>3, OneOwner
      <4> QED
        BY <2>1, <4>1 DEF StageInv, OnePerClient
    <3>3. \A k \in requestKeys : \E i \in requests : inbox[i].parcel.key = k
      BY <2>2
    <3> HIDE DEF requests, requestKeys
    <3>4. \A i, j \in requests : f[i] = f[j] => i = j
      BY <3>1, <3>2
    <3>5. \A k \in requestKeys : \E i \in requests : f[i] = k
      BY <3>1, <3>3
    <3>6. f \in [requests -> requestKeys] /\ IsFiniteSet(requestKeys)
      BY <2>8, <3>1
    <3> QED
      BY <3>4, <3>5, <3>6, SameNumber, Zenon
  <2>10. Cardinality(replies) = Cardinality(replyKeys) /\ IsFiniteSet(replies)
    <3>1. PICK f \in [replies -> replyKeys] : \A c \in replies : f[c] = reply[c].parcel.key
      <4> DEFINE g == [c \in replies |-> reply[c].parcel.key]
      <4>1. g \in [replies -> replyKeys] /\ \A c \in replies : g[c] = reply[c].parcel.key
        BY <2>5
      <4> HIDE DEF g
      <4> QED
        BY <4>1
    <3>2. \A c, d \in replies : reply[c].parcel.key = reply[d].parcel.key => c = d
      BY <2>1, OneOwner
    <3>3. \A k \in replyKeys : \E c \in replies : reply[c].parcel.key = k
      BY <2>2
    <3> HIDE DEF replies, replyKeys
    <3>4. \A c, d \in replies : f[c] = f[d] => c = d
      BY <3>1, <3>2
    <3>5. \A k \in replyKeys : \E c \in replies : f[c] = k
      BY <3>1, <3>3
    <3>6. f \in [replies -> replyKeys] /\ IsFiniteSet(replyKeys)
      BY <2>8, <3>1
    <3> QED
      BY <3>4, <3>5, <3>6, SameNumber, Zenon
  <2>11. Cardinality(used) = Cardinality(requests) + Cardinality(replies) + Cardinality(lost)
    <3> HIDE DEF used, requests, replies, requestKeys, replyKeys
    <3>1. Cardinality(used) = Cardinality(lost) + Cardinality(requestKeys) + Cardinality(replyKeys)
      BY <2>6, <2>7, <2>8, ThreeParts
    <3>2. /\ Cardinality(lost) \in Nat /\ Cardinality(requestKeys) \in Nat /\ Cardinality(replyKeys) \in Nat
      BY <2>8, FS_CardinalityType
    <3> QED
      BY <2>9, <2>10, <3>1, <3>2
  <2> QED
    BY <2>4, <2>5, <2>11 DEF SegmentsAccounted, Input
<1> QED
  BY <1>1, SyncInvariant, PTL
=============================================================================
