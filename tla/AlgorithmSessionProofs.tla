----------------------- MODULE AlgorithmSessionProofs -----------------------
(***************************************************************************)
(* For any SDKs, handles, sizes and failures: an SDK in use keeps a handle *)
(* of its own that its plugin knows and the device has not got back, its   *)
(* adapter stays up, and a result it reports was inferred over its input.  *)
(***************************************************************************)
EXTENDS AlgorithmSession, FiniteSetTheorems, TLAPS

-----------------------------------------------------------------------------
(* The length of a slice. *)

\* What Min picks of two numbers.
LEMMA SmallerOfTwo ==
    ASSUME NEW m \in Int, NEW n \in Int
    PROVE  /\ Min({m, n}) \in {m, n}
           /\ Min({m, n}) <= m /\ Min({m, n}) <= n
<1>1. \E x \in {m, n} : \A y \in {m, n} : x <= y
  <2>1. CASE m <= n
    BY <2>1
  <2>2. CASE n < m
    BY <2>2
  <2> QED
    BY <2>1, <2>2
<1>2. Min({m, n}) \in {m, n} /\ \A y \in {m, n} : Min({m, n}) <= y
  BY <1>1, Zenon DEF Min
<1> QED
  BY <1>2

\* A slice is never empty, a request before the last leaves some of the image,
\* and the request of a KWS SDK is its last.
LEMMA SliceAdvances ==
    ASSUME TypeOK, CallsFit, NEW s \in Sdks, call[s] # Idle
    PROVE  /\ call[s].offset \in Nat /\ call[s].size \in Nat /\ SliceOf(s) \in Nat
           /\ SliceOf(s) > 0
           /\ ~Last(s) => call[s].offset + SliceOf(s) < call[s].size /\ s \notin kws
<1>1. /\ call[s].offset \in Nat /\ call[s].size \in Nat /\ call[s].offset < call[s].size
      /\ s \in kws => call[s].size = InputSize /\ call[s].offset = 0
  BY DEF TypeOK, CallsFit
<1>2. CASE s \in kws
  <2>1. SliceOf(s) = InputSize
    BY <1>2 DEF SliceOf
  <2> QED
    BY <1>1, <1>2, <2>1, SessionAssumption DEF Last
<1>3. CASE s \notin kws
  <2>1. SliceOf(s) = Min({call[s].size - call[s].offset, SliceSize})
    BY <1>3 DEF SliceOf
  <2>2. SliceOf(s) \in {call[s].size - call[s].offset, SliceSize}
    <3>1. call[s].size - call[s].offset \in Int /\ SliceSize \in Int
      BY <1>1, SessionAssumption
    <3> QED
      BY <2>1, <3>1, SmallerOfTwo, Zenon
  <2> QED
    BY <1>1, <1>3, <2>2, SessionAssumption DEF Last
<1> QED
  BY <1>2, <1>3

-----------------------------------------------------------------------------
(* Counting the users of a plugin. *)

\* Two SDKs with an engine of one algorithm are two references.
LEMMA TwoUsers ==
    ASSUME TypeOK, RefsCover, NEW s \in recorded, NEW t \in recorded, Algo(s) = Algo(t),
           refCount[Algo(s)] = 1
    PROVE  s = t
<1>1. Algo(s) \in Algorithms
  BY DEF Algo, Algorithms
<1>2. IsFiniteSet(Users(Algo(s))) /\ Cardinality(Users(Algo(s))) <= 1
  <2>1. Users(Algo(s)) \subseteq recorded
    BY DEF Users
  <2> QED
    BY <1>1, <2>1, FS_Subset DEF RefsCover
<1>3. {s, t} \subseteq Users(Algo(s))
  BY DEF Users
<1>4. Cardinality({s, t}) <= 1
  BY <1>2, <1>3, FS_Subset, FS_CardinalityType
<1>5. IsFiniteSet({s}) /\ Cardinality({s}) = 1
  BY FS_Singleton
<1>6. SUFFICES ASSUME s # t PROVE FALSE
  OBVIOUS
<1>7. Cardinality({s} \cup {t}) = 2
  BY <1>5, <1>6, FS_AddElement
<1>8. {s} \cup {t} = {s, t}
  OBVIOUS
<1> QED
  BY <1>4, <1>7, <1>8

\* The reference a load adds covers the SDK it is recorded for.
LEMMA LoadCovered ==
    ASSUME TypeOK, RefsCover, NEW s \in Sdks, Recorded(s), kws' = kws
    PROVE  RefsCover'
<1>1. Algo(s) \in Algorithms /\ \A t : Algo(t)' = Algo(t)
  BY DEF Algo, Algorithms
<1>2. IsFiniteSet(recorded')
  BY FS_AddElement DEF Recorded, RefsCover
<1>3. ASSUME NEW a \in Algorithms
      PROVE  Cardinality(Users(a)') <= refCount'[a]
  <2>1. Users(a) \subseteq recorded
    BY DEF Users
  <2>2. IsFiniteSet(Users(a)) /\ Cardinality(Users(a)) \in Nat /\ Cardinality(Users(a)) <= refCount[a]
    BY <2>1, FS_Subset, FS_CardinalityType DEF RefsCover
  <2>3. refCount[a] \in Nat /\ refCount'[a] = IF a = Algo(s) THEN refCount[a] + 1 ELSE refCount[a]
    BY DEF TypeOK, Recorded
  <2>4. CASE a = Algo(s)
    <3>1. Users(a)' = Users(a) \cup {s}
      BY <1>1, <2>4 DEF Users, Recorded
    <3>2. Cardinality(Users(a) \cup {s}) \in {Cardinality(Users(a)), Cardinality(Users(a)) + 1}
      BY <2>2, FS_AddElement, Zenon
    <3>3. refCount'[a] = refCount[a] + 1
      BY <2>3, <2>4
    <3> QED
      BY <2>2, <2>3, <3>1, <3>2, <3>3
  <2>5. CASE a # Algo(s)
    <3>1. Users(a)' = Users(a)
      BY <1>1, <2>5 DEF Users, Recorded
    <3> QED
      BY <2>2, <2>3, <2>5, <3>1
  <2> QED
    BY <2>4, <2>5
<1> QED
  BY <1>2, <1>3 DEF RefsCover

\* An SDK that is no longer recorded takes at most one reference with it.
LEMMA UnloadCovered ==
    ASSUME TypeOK, RefsCover, NEW s \in recorded, kws' = kws, recorded' = recorded \ {s},
           refCount' \in {refCount, [refCount EXCEPT ![Algo(s)] = @ - 1]}
    PROVE  RefsCover' /\ refCount' \in [Algorithms -> Nat]
<1>1. Algo(s) \in Algorithms /\ \A t : Algo(t)' = Algo(t)
  BY DEF Algo, Algorithms
<1>2. IsFiniteSet(recorded')
  BY FS_RemoveElement DEF RefsCover
<1>3. ASSUME NEW a \in Algorithms
      PROVE  Cardinality(Users(a)') <= refCount'[a] /\ refCount'[a] \in Nat
  <2>1. Users(a) \subseteq recorded
    BY DEF Users
  <2>2. IsFiniteSet(Users(a)) /\ Cardinality(Users(a)) \in Nat /\ Cardinality(Users(a)) <= refCount[a]
    BY <2>1, FS_Subset, FS_CardinalityType DEF RefsCover
  <2>3. /\ refCount[a] \in Nat
        /\ refCount'[a] = refCount[a] \/ (a = Algo(s) /\ refCount'[a] = refCount[a] - 1)
    BY DEF TypeOK
  <2>4. CASE a = Algo(s)
    <3>1. Users(a)' = Users(a) \ {s} /\ s \in Users(a)
      BY <1>1, <2>4 DEF Users
    <3>2. Cardinality(Users(a) \ {s}) = Cardinality(Users(a)) - 1
      BY <2>2, <3>1, FS_RemoveElement
    <3>3. Cardinality(Users(a) \ {s}) \in Nat
      BY <2>2, FS_RemoveElement, FS_CardinalityType
    <3> QED
      BY <2>2, <2>3, <3>1, <3>2, <3>3
  <2>5. CASE a # Algo(s)
    <3>1. Users(a)' = Users(a)
      BY <1>1, <2>5 DEF Users
    <3> QED
      BY <2>2, <2>3, <2>5, <3>1
  <2> QED
    BY <2>4, <2>5
<1>4. DOMAIN refCount' = Algorithms /\ refCount' = [a \in Algorithms |-> refCount'[a]]
  BY DEF TypeOK
<1> QED
  BY <1>2, <1>3, <1>4 DEF RefsCover


-----------------------------------------------------------------------------
(* Create, and the ways in which it fails. *)

\* What every outcome of Create does: the handle is new to the device, the plugin
\* may or may not keep it, and an SDK that gets it is known to its plugin.
Attempted(s, h) ==
    /\ kws' = kws /\ call' = call /\ heard' = heard /\ broken' = broken
    /\ handle[s] = None /\ call[s] = Idle /\ AdapterInit(Algo(s), h)
    /\ handles' \in {handles, [handles EXCEPT ![Algo(s)] = @ \cup {h}]}
    /\ (recorded' = recorded /\ refCount' = refCount) \/ Recorded(s)
    /\ \/ handle' = handle
       \/ handle' = [handle EXCEPT ![s] = h] /\ h \in handles'[Algo(s)]

LEMMA CreateAttempts ==
    ASSUME TypeOK, NEW s \in Sdks, NEW h \in Handles,
           Create(s, h) \/ BuildConfigFails(s, h) \/ EncodeFails(s, h) \/ DecodeFails(s, h)
    PROVE  Attempted(s, h)
<1> USE DEF Attempted
<1>1. Algo(s) \in Algorithms
  BY DEF Algo, Algorithms
<1>2. CASE Create(s, h)
  BY <1>1, <1>2 DEF TypeOK, Create, MayCreate, HandlePrepared
<1>3. CASE BuildConfigFails(s, h)
  BY <1>3 DEF BuildConfigFails, MayCreate
<1>4. CASE EncodeFails(s, h)
  BY <1>4 DEF EncodeFails, MayCreate, HandlePrepared
<1>5. CASE DecodeFails(s, h)
  BY <1>5 DEF DecodeFails, MayCreate, HandlePrepared
<1> QED
  BY <1>2, <1>3, <1>4, <1>5

\* Every outcome of Create keeps the invariant: the new handle is no one else's.
LEMMA CreateKeeps ==
    ASSUME SessionInv, NEW s \in Sdks, NEW h \in Handles, Attempted(s, h)
    PROVE  SessionInv'
<1>0. TypeOK /\ CallsFit
  BY DEF SessionInv
<1>1. Algo(s) \in Algorithms /\ \A t : Algo(t)' = Algo(t) /\ Algo(t) \in Algorithms
  BY DEF Attempted, Algo, Algorithms
<1>2. /\ h \notin live /\ live' = live \cup {h} /\ up' = [up EXCEPT ![Algo(s)] = TRUE]
      /\ input' = [input EXCEPT ![h] = [i \in 0 .. InputSize - 1 |-> Stale]]
  BY DEF Attempted, AdapterInit
<1>3. \A t \in Sdks \ {s} : handle'[t] = handle[t] /\ (t \in recorded' <=> t \in recorded)
  BY <1>0 DEF Attempted, TypeOK, Recorded
<1>4. (handle[s] = None /\ handle'[s] = None) \/ (handle'[s] = h /\ h \in handles'[Algo(s)])
  BY <1>0 DEF Attempted, TypeOK
<1>5. \A a \in Algorithms : handles'[a] = handles[a] \/ (a = Algo(s) /\ handles'[a] = handles[a] \cup {h})
  <2>1. CASE handles' = handles
    BY <2>1
  <2>2. CASE handles' = [handles EXCEPT ![Algo(s)] = @ \cup {h}]
    BY <1>0, <1>1, <2>2 DEF TypeOK
  <2> QED
    BY <2>1, <2>2 DEF Attempted
<1>6. TypeOK'
  <2>1. refCount' \in [Algorithms -> Nat] /\ recorded' \subseteq Sdks
    <3>1. CASE recorded' = recorded /\ refCount' = refCount
      BY <1>0, <3>1 DEF TypeOK
    <3>2. CASE Recorded(s)
      <4>1. refCount \in [Algorithms -> Nat] /\ recorded \subseteq Sdks
        BY <1>0 DEF TypeOK
      <4> QED
        BY <1>1, <3>2, <4>1 DEF Recorded
    <3> QED
      BY <3>1, <3>2 DEF Attempted
  <2>2. up' \in [Algorithms -> BOOLEAN]
    BY <1>0, <1>2, Zenon DEF TypeOK
  <2>3. handles' \in [Algorithms -> SUBSET Handles]
    <3>1. CASE handles' = handles
      BY <1>0, <3>1 DEF TypeOK
    <3>2. CASE handles' = [handles EXCEPT ![Algo(s)] = @ \cup {h}]
      BY <1>0, <3>2 DEF TypeOK
    <3> QED
      BY <3>1, <3>2 DEF Attempted
  <2>4. input' \in [Handles -> [0 .. InputSize - 1 -> Sdks \cup {Stale}]]
    BY <1>0, <1>2 DEF TypeOK
  <2>5. handle' \in [Sdks -> Handles \cup {None}]
    BY <1>0 DEF TypeOK, Attempted
  <2>6. kws' = kws /\ call' = call /\ heard' = heard /\ broken' = broken
    BY DEF Attempted
  <2> QED
    BY <1>0, <1>2, <2>1, <2>2, <2>3, <2>4, <2>5, <2>6 DEF TypeOK
<1>7. RefsCover'
  <2>1. CASE recorded' = recorded /\ refCount' = refCount
    BY <1>1, <2>1 DEF SessionInv, RefsCover, Users
  <2>2. CASE Recorded(s)
    BY <1>0, <2>2, LoadCovered DEF SessionInv, Attempted
  <2> QED
    BY <2>1, <2>2 DEF Attempted
<1>8. CallsFit'
  BY <1>0 DEF CallsFit, Attempted
<1>9. \A t \in Sdks : InUse(t)' =>
         (t # s /\ InUse(t)) \/ (t = s /\ handle'[s] = h /\ h \in handles'[Algo(s)])
  BY <1>3, <1>4, SessionAssumption DEF InUse
<1>10. AdapterUp'
  <2>1. ASSUME NEW t \in Sdks, InUse(t)' PROVE up'[Algo(t)]
    <3>1. CASE Algo(t) = Algo(s)
      BY <1>0, <1>1, <1>2, <3>1 DEF TypeOK
    <3>2. CASE Algo(t) # Algo(s)
      <4>1. InUse(t)
        BY <1>9, <2>1, <3>2
      <4> QED
        BY <1>0, <1>1, <1>2, <3>2, <4>1 DEF TypeOK, SessionInv, AdapterUp
    <3> QED
      BY <3>1, <3>2
  <2> QED
    BY <1>1, <2>1 DEF AdapterUp
<1>11. (Sound' <=> Sound) /\ ResultOfOwnInput'
  BY DEF Sound, ResultOfOwnInput, SessionInv, Attempted
<1>12. ASSUME Sound
       PROVE  HandleServed' /\ HandlesGivenOut' /\ SlicesStored'
  <2>1. HandlesGivenOut /\ SlicesStored
    BY <1>12 DEF SessionInv
  <2>2. \A t \in Sdks : InUse(t) =>
           /\ handle[t] \in handles[Algo(t)] \cap live
           /\ \A r \in Sdks \ {t} : InUse(r) => handle[r] # handle[t]
    BY <1>12 DEF SessionInv, HandleServed, Sound
  <2>3. HandlesGivenOut'
    BY <1>1, <1>2, <1>5, <2>1 DEF HandlesGivenOut, Algorithms
  <2>4. HandleServed'
    BY <1>1, <1>2, <1>3, <1>5, <1>9, <2>2 DEF HandleServed
  <2>5. \A t \in Sdks : call[t].offset > 0 => t # s
    BY DEF Attempted, Idle
  <2>6. ASSUME NEW t \in Sdks, call[t].offset > 0
        PROVE  InUse(t)' /\ input'[handle'[t]] = input[handle[t]]
    <3>1. InUse(t) /\ handle'[t] = handle[t] /\ t # s /\ handle[t] \in live
      BY <1>3, <2>1, <2>2, <2>5, <2>6 DEF SlicesStored
    <3> QED
      BY <1>0, <1>2, <1>3, <3>1 DEF InUse, TypeOK
  <2>7. SlicesStored'
    BY <2>1, <2>6 DEF SlicesStored, Attempted
  <2> QED
    BY <2>3, <2>4, <2>7
<1>13. ~Sound => HandleServed'
  BY <1>11 DEF HandleServed, Sound
<1> QED
  BY <1>6, <1>7, <1>8, <1>10, <1>11, <1>12, <1>13 DEF SessionInv

-----------------------------------------------------------------------------
(* SyncExecute. *)

Cells == [0 .. InputSize - 1 -> Sdks \cup {Stale}]

\* The call of one SDK leaves what another has written where it is.
LEMMA OthersKept ==
    ASSUME TypeOK, NEW s \in Sdks
    PROVE  /\ Forget(s) \in [Handles -> Cells]
           /\ \A t \in Sdks \ {s}, h \in Handles, i \in 0 .. InputSize - 1 :
                 input[h][i] = t => Forget(s)[h][i] = t
           /\ handle[s] \in Handles =>
                 /\ Stored(s) \in Cells /\ Settled(s) \in [Handles -> Cells]
                 /\ \A h \in Handles \ {handle[s]} : Settled(s)[h] = Forget(s)[h]
<1>1. \A h \in Handles, i \in 0 .. InputSize - 1 : input[h][i] \in Sdks \cup {Stale}
  <2>1. input \in [Handles -> [0 .. InputSize - 1 -> Sdks \cup {Stale}]]
    BY DEF TypeOK
  <2> QED
    BY <2>1
<1>2. /\ Forget(s) \in [Handles -> Cells]
      /\ \A t \in Sdks \ {s}, h \in Handles, i \in 0 .. InputSize - 1 :
            input[h][i] = t => Forget(s)[h][i] = t
  BY <1>1 DEF Forget, Cells
<1>3. ASSUME handle[s] \in Handles
      PROVE  /\ Stored(s) \in Cells /\ Settled(s) \in [Handles -> Cells]
             /\ \A h \in Handles \ {handle[s]} : Settled(s)[h] = Forget(s)[h]
  <2>1. Stored(s) \in Cells
    <3>1. \A i \in 0 .. InputSize - 1 :
             (IF i >= call[s].offset /\ i < call[s].offset + SliceOf(s)
                THEN s ELSE input[handle[s]][i]) \in Sdks \cup {Stale}
      BY <1>1, <1>3
    <3> QED
      BY <3>1, Zenon DEF Stored, Cells
  <2>2. [i \in 0 .. InputSize - 1 |-> IF Stored(s)[i] = s THEN Stale ELSE Stored(s)[i]] \in Cells
    BY <2>1 DEF Cells
  <2> QED
    BY <1>2, <1>3, <2>1, <2>2, Zenon DEF Settled
<1> QED
  BY <1>2, <1>3

\* A step of a call changes nothing that serves the others.
LEMMA CallFrame ==
    ASSUME SessionInv, UNCHANGED <<kws, handle, recorded, refCount, handles, up, live, broken>>,
           TypeOK', CallsFit', Sound => ResultOfOwnInput' /\ SlicesStored'
    PROVE  SessionInv'
<1>1. /\ kws' = kws /\ handle' = handle /\ recorded' = recorded /\ refCount' = refCount
      /\ handles' = handles /\ up' = up /\ live' = live /\ broken' = broken
  OBVIOUS
<1>2. \A t : Algo(t)' = Algo(t) /\ InUse(t)' = InUse(t)
  BY <1>1 DEF Algo, InUse
<1>3. RefsCover'
  BY <1>1, <1>2 DEF SessionInv, RefsCover, Users
<1>4. AdapterUp' /\ HandleServed'
  BY <1>1, <1>2 DEF SessionInv, AdapterUp, HandleServed
<1>5. (Sound' <=> Sound) /\ (Sound => HandlesGivenOut')
  BY <1>1 DEF SessionInv, HandlesGivenOut, Sound
<1>6. ~Sound => ResultOfOwnInput'
  BY <1>5 DEF Sound, ResultOfOwnInput
<1> QED
  BY <1>3, <1>4, <1>5, <1>6 DEF SessionInv

\* SyncExecute is called.
LEMMA BeginKeeps ==
    ASSUME SessionInv, NEW s \in Sdks, NEW size \in 1 .. MaxSize, Begin(s, size)
    PROVE  SessionInv'
<1>1. TypeOK /\ CallsFit /\ ResultOfOwnInput
  BY DEF SessionInv
<1>2. /\ call' = [call EXCEPT ![s] = [size |-> size, offset |-> 0]]
      /\ heard' = [heard EXCEPT ![s] = Nothing]
      /\ UNCHANGED <<kws, handle, recorded, refCount, handles, up, live, input, broken>>
      /\ s \in kws => size = InputSize
      /\ size \in Nat /\ size > 0
  BY SessionAssumption DEF Begin
<1>3. TypeOK'
  <2>1. call' \in [Sdks -> [size : Nat, offset : Nat]]
    BY <1>1, <1>2 DEF TypeOK
  <2>2. Nothing \in [ret : {"none", "result", "success without result", "failure"},
                     cells : SUBSET (Sdks \cup {Stale})]
    BY DEF Nothing
  <2>3. heard' \in [Sdks -> [ret : {"none", "result", "success without result", "failure"},
                             cells : SUBSET (Sdks \cup {Stale})]]
    BY <1>1, <1>2, <2>2 DEF TypeOK
  <2> QED
    BY <1>1, <1>2, <2>1, <2>3 DEF TypeOK
<1>4. \A t \in Sdks : /\ t # s => call'[t] = call[t] /\ heard'[t] = heard[t]
                      /\ t = s => /\ call'[t].size = size /\ call'[t].offset = 0
                                  /\ heard'[t].ret = "none"
  BY <1>1, <1>2 DEF TypeOK, Nothing
<1>5. CallsFit'
  BY <1>1, <1>2, <1>4 DEF CallsFit
<1>6. Sound => SlicesStored'
  <2>1. ASSUME Sound, NEW t \in Sdks, call'[t].offset > 0
        PROVE  /\ InUse(t)'
               /\ \A i \in 0 .. InputSize - 1 : i < call'[t].offset => input'[handle'[t]][i] = t
    <3>1. call'[t] = call[t]
      BY <1>4, <2>1
    <3>2. SlicesStored
      BY <2>1 DEF SessionInv
    <3> QED
      BY <1>2, <2>1, <3>1, <3>2 DEF SlicesStored, InUse
  <2> QED
    BY <2>1 DEF SlicesStored
<1>7. ResultOfOwnInput'
  BY <1>1, <1>2, <1>4 DEF ResultOfOwnInput
<1> QED
  BY <1>2, <1>3, <1>5, <1>6, <1>7, CallFrame

\* Arithmetic cited where the provers meet it among sets and strings.
LEMMA PositiveIsNotZero ==
    ASSUME NEW n \in Nat, n > 0
    PROVE  n # 0
OBVIOUS

\* What the end of a call leaves: nothing it wrote is told apart any more.
LEMMA EndKeeps ==
    ASSUME SessionInv, NEW s \in Sdks, NEW ret \in {"result", "success without result", "failure"},
           NEW cells \in SUBSET (Sdks \cup {Stale}), End(s, ret, cells),
           UNCHANGED <<kws, handle, recorded, refCount, handles, up, live, broken>>,
           input' = Forget(s) \/ (Served(s) /\ input' = Settled(s)),
           Sound /\ ret = "result" => cells = {s}
    PROVE  SessionInv'
<1>1. TypeOK /\ CallsFit /\ ResultOfOwnInput
  BY DEF SessionInv
<1>2. /\ call' = [call EXCEPT ![s] = Idle]
      /\ heard' = [heard EXCEPT ![s] = [ret |-> ret, cells |-> cells]]
  BY DEF End
<1>3. Served(s) => s \in recorded /\ handle[s] \in Handles /\ InUse(s)
  BY <1>1, SessionAssumption DEF TypeOK, Served, Algo, Algorithms, InUse
<1>4. TypeOK'
  <2>1. call' \in [Sdks -> [size : Nat, offset : Nat]]
    BY <1>1, <1>2 DEF TypeOK, Idle
  <2>2. heard' \in [Sdks -> [ret : {"none", "result", "success without result", "failure"},
                             cells : SUBSET (Sdks \cup {Stale})]]
    BY <1>1, <1>2 DEF TypeOK
  <2>3. input' \in [Handles -> [0 .. InputSize - 1 -> Sdks \cup {Stale}]]
    BY <1>1, <1>3, OthersKept DEF Cells
  <2> QED
    BY <1>1, <2>1, <2>2, <2>3 DEF TypeOK
<1>5. \A t \in Sdks : /\ t # s => call'[t] = call[t] /\ heard'[t] = heard[t]
                      /\ t = s => /\ call'[t] = Idle /\ call'[t].offset = 0
                                  /\ heard'[t].ret = ret /\ heard'[t].cells = cells
  BY <1>1, <1>2 DEF TypeOK, Idle
<1>6. CallsFit'
  BY <1>1, <1>5 DEF CallsFit
<1>7. Sound => ResultOfOwnInput'
  BY <1>1, <1>5 DEF ResultOfOwnInput, Sound
<1>8. ASSUME Sound, NEW t \in Sdks, call'[t].offset > 0
      PROVE  /\ InUse(t)'
             /\ \A i \in 0 .. InputSize - 1 : i < call'[t].offset => input'[handle'[t]][i] = t
  <2>1. t # s /\ call'[t] = call[t]
    <3>1. call'[t].offset # 0
      <4>1. call'[t].offset \in Nat
        BY <1>4 DEF TypeOK
      <4> QED
        BY <1>8, <4>1, PositiveIsNotZero, Zenon
    <3> QED
      BY <1>5, <3>1, Zenon
  <2>2. InUse(t) /\ \A i \in 0 .. InputSize - 1 : i < call[t].offset => input[handle[t]][i] = t
    BY <1>8, <2>1 DEF SessionInv, SlicesStored
  <2>3. handle[t] \in Handles
    BY <1>1, <2>2 DEF TypeOK, InUse
  <2>4. \A i \in 0 .. InputSize - 1 : input[handle[t]][i] = t => Forget(s)[handle[t]][i] = t
    <3>1. TypeOK /\ t \in Sdks \ {s}
      BY <1>1, <2>1
    <3>2. \A h \in Handles, i \in 0 .. InputSize - 1 : input[h][i] = t => Forget(s)[h][i] = t
      BY <3>1, OthersKept, Zenon
    <3> QED
      BY <2>3, <3>2, Zenon
  <2>5. input'[handle[t]] = Forget(s)[handle[t]]
    <3>1. CASE input' = Forget(s)
      BY <3>1
    <3>2. CASE Served(s) /\ input' = Settled(s)
      <4>1. handle[t] # handle[s]
        BY <1>3, <1>8, <2>1, <2>2, <3>2 DEF SessionInv, HandleServed, Sound
      <4> QED
        BY <1>1, <1>3, <2>3, <3>2, <4>1, OthersKept
    <3> QED
      BY <3>1, <3>2
  <2> QED
    BY <2>1, <2>2, <2>4, <2>5 DEF InUse
<1>9. Sound => SlicesStored'
  BY <1>8 DEF SlicesStored
<1> QED
  BY <1>4, <1>6, <1>7, <1>9, CallFrame

\* A slice that completes the input leaves no cell that the call has not written.
LEMMA WholeInput ==
    ASSUME SessionInv, NEW s \in Sdks, call[s] # Idle, Served(s), Completes(s), Sound
    PROVE  {Stored(s)[i] : i \in 0 .. InputSize - 1} = {s}
<1>1. call[s].offset \in Nat /\ SliceOf(s) \in Nat /\ call[s].offset + SliceOf(s) = InputSize
  BY SliceAdvances DEF SessionInv, Completes
<1>2. \A i \in 0 .. InputSize - 1 : i < call[s].offset => input[handle[s]][i] = s
  BY <1>1 DEF SessionInv, SlicesStored
<1>3. \A i \in 0 .. InputSize - 1 : Stored(s)[i] = s
  BY <1>1, <1>2, SessionAssumption DEF Stored
<1>4. 0 \in 0 .. InputSize - 1
  BY SessionAssumption
<1> QED
  BY <1>3, <1>4

\* A request that does not end the call.
LEMMA MiddleSliceKeeps ==
    ASSUME SessionInv, NEW s \in Sdks, call[s] # Idle, Served(s), ~Last(s),
           call' = [call EXCEPT ![s].offset = @ + SliceOf(s)],
           input' = [input EXCEPT ![handle[s]] = Stored(s)],
           UNCHANGED <<kws, handle, heard, recorded, refCount, handles, up, live, broken>>
    PROVE  SessionInv'
<1>1. TypeOK /\ CallsFit /\ ResultOfOwnInput
  BY DEF SessionInv
<1>2. handle[s] \in Handles /\ InUse(s)
  BY <1>1, SessionAssumption DEF TypeOK, Served, Algo, Algorithms, InUse
<1>3. /\ call[s].offset \in Nat /\ SliceOf(s) \in Nat /\ call[s].size \in Nat /\ SliceOf(s) > 0
      /\ call[s].offset + SliceOf(s) < call[s].size /\ s \notin kws
  BY <1>1, SliceAdvances
<1>4. \A t \in Sdks : /\ t # s => call'[t] = call[t]
                      /\ t = s => /\ call'[t].offset = call[s].offset + SliceOf(s)
                                  /\ call'[t].size = call[s].size
  BY <1>1 DEF TypeOK
<1>5. TypeOK'
  <2>1. call' \in [Sdks -> [size : Nat, offset : Nat]]
    <3>1. call \in [Sdks -> [size : Nat, offset : Nat]]
      BY <1>1 DEF TypeOK
    <3>2. call[s].offset + SliceOf(s) \in Nat
      BY <1>3
    <3> QED
      BY <3>1, <3>2
  <2>2. input' \in [Handles -> [0 .. InputSize - 1 -> Sdks \cup {Stale}]]
    <3>1. input \in [Handles -> [0 .. InputSize - 1 -> Sdks \cup {Stale}]]
      BY <1>1 DEF TypeOK
    <3>2. Stored(s) \in [0 .. InputSize - 1 -> Sdks \cup {Stale}]
      BY <1>1, <1>2, OthersKept DEF Cells
    <3> QED
      BY <3>1, <3>2
  <2> QED
    BY <1>1, <2>1, <2>2 DEF TypeOK
<1>6. CallsFit'
  BY <1>1, <1>3, <1>4 DEF CallsFit
<1>7. ResultOfOwnInput'
  BY <1>1 DEF ResultOfOwnInput
<1>8. ASSUME Sound, NEW t \in Sdks, call'[t].offset > 0
      PROVE  /\ InUse(t)'
             /\ \A i \in 0 .. InputSize - 1 : i < call'[t].offset => input'[handle'[t]][i] = t
  <2>1. SlicesStored
    BY <1>8 DEF SessionInv
  <2>2. CASE t = s
    <3>1. input'[handle[s]] = Stored(s)
      BY <1>1, <1>2 DEF TypeOK
    <3>2. \A i \in 0 .. InputSize - 1 : i < call[s].offset => input[handle[s]][i] = s
      BY <1>3, <2>1 DEF SlicesStored
    <3>3. \A i \in 0 .. InputSize - 1 : i < call[s].offset + SliceOf(s) => Stored(s)[i] = s
      BY <1>3, <3>2, SessionAssumption DEF Stored
    <3> QED
      BY <1>2, <1>4, <2>2, <3>1, <3>3 DEF InUse
  <2>3. CASE t # s
    <3>1. call'[t] = call[t] /\ InUse(t)
      BY <1>4, <1>8, <2>1, <2>3 DEF SlicesStored
    <3>2. handle[t] # handle[s] /\ handle[t] \in Handles
      BY <1>1, <1>2, <1>8, <2>3, <3>1 DEF SessionInv, HandleServed, Sound, TypeOK, InUse
    <3>3. input'[handle[t]] = input[handle[t]]
      BY <1>1, <3>2 DEF TypeOK
    <3> QED
      BY <1>8, <2>1, <3>1, <3>3 DEF SlicesStored, InUse
  <2> QED
    BY <2>2, <2>3
<1>9. Sound => SlicesStored'
  BY <1>8 DEF SlicesStored
<1> QED
  BY <1>5, <1>6, <1>7, <1>9, CallFrame

\* A request, however it ends.
LEMMA RequestKeeps ==
    ASSUME SessionInv, NEW s \in Sdks, Slice(s) \/ SliceFails(s) \/ MakeInferenceFails(s)
    PROVE  SessionInv'
<1>1. CASE SliceFails(s)
  BY <1>1, EndKeeps DEF SliceFails
<1>2. CASE MakeInferenceFails(s)
  BY <1>2, EndKeeps DEF MakeInferenceFails
<1>3. CASE Slice(s) /\ ~Last(s)
  BY <1>3, MiddleSliceKeeps DEF Slice
<1>4. CASE Slice(s) /\ Last(s) /\ ~Completes(s)
  BY <1>4, EndKeeps DEF Slice
<1>5. CASE Slice(s) /\ Last(s) /\ Completes(s)
  <2>1. /\ call[s] # Idle /\ Served(s) /\ input' = Settled(s)
        /\ End(s, "result", {Stored(s)[i] : i \in 0 .. InputSize - 1})
        /\ UNCHANGED <<kws, handle, recorded, refCount, handles, up, live, broken>>
    BY <1>5 DEF Slice
  <2>2. handle[s] \in Handles
    BY <2>1 DEF SessionInv, TypeOK, Served, Algo, Algorithms
  <2>3. {Stored(s)[i] : i \in 0 .. InputSize - 1} \in SUBSET (Sdks \cup {Stale})
    <3>1. Stored(s) \in [0 .. InputSize - 1 -> Sdks \cup {Stale}]
      BY <2>2, OthersKept DEF SessionInv, Cells
    <3> QED
      BY <3>1
  <2>4. Sound => {Stored(s)[i] : i \in 0 .. InputSize - 1} = {s}
    BY <1>5, <2>1, WholeInput
  <2> QED
    BY <2>1, <2>3, <2>4, EndKeeps
<1> QED
  BY <1>1, <1>2, <1>3, <1>4, <1>5

-----------------------------------------------------------------------------
(* Destroy, and the death of an SDK. *)

\* A release shuts the adapter down and empties the plugin's table only when no
\* other SDK of the algorithm has an engine.
LEMMA StopEngineKeeps ==
    ASSUME SessionInv, NEW s \in Sdks, MayDestroy(s), StopEngine(s),
           handle' \in {handle, [handle EXCEPT ![s] = None]},
           UNCHANGED <<kws, call, heard>>
    PROVE  SessionInv'
<1> DEFINE a == Algo(s)
           h == handle[s]
<1>1. TypeOK /\ RefsCover /\ CallsFit /\ AdapterUp /\ ResultOfOwnInput
  BY DEF SessionInv
<1>2. a \in Algorithms /\ \A t : Algo(t)' = Algo(t) /\ Algo(t) \in Algorithms
  BY DEF Algo, Algorithms
<1>3. /\ s \in recorded /\ recorded' = recorded \ {s}
      /\ refCount' = [refCount EXCEPT ![a] = @ - 1]
      /\ handles' = [handles EXCEPT ![a] = IF FullUnload(a) THEN {} ELSE @ \ {h}]
      /\ live' = live \ (IF FullUnload(a) THEN handles[a] \cup {h} ELSE {h})
      /\ up' = [up EXCEPT ![a] = ~FullUnload(a)]
      /\ input' = input /\ broken' = broken
      /\ h \in Handles /\ call[s] = Idle /\ InUse(s)
  BY <1>1 DEF StopEngine, ReleaseAccepts, ReleaseAllHandles, MayDestroy, InUse, TypeOK
<1>4. RefsCover' /\ refCount' \in [Algorithms -> Nat]
  BY <1>1, <1>3, UnloadCovered
<1>5. TypeOK'
  <2>1. handles' \in [Algorithms -> SUBSET Handles]
    BY <1>1, <1>3 DEF TypeOK
  <2>2. up' \in [Algorithms -> BOOLEAN]
    BY <1>1, <1>3, Zenon DEF TypeOK
  <2>3. handle' \in [Sdks -> Handles \cup {None}]
    BY <1>1 DEF TypeOK
  <2>4. live' \subseteq Handles /\ recorded' \subseteq Sdks
    BY <1>1, <1>3 DEF TypeOK
  <2> QED
    BY <1>1, <1>3, <1>4, <2>1, <2>2, <2>3, <2>4 DEF TypeOK
<1>6. \A t \in Sdks : InUse(t)' => t # s /\ InUse(t)
  BY <1>1, <1>3 DEF InUse, TypeOK
<1>7. \A t \in Sdks \ {s} : handle'[t] = handle[t] /\ (t \in recorded' <=> t \in recorded)
  BY <1>1, <1>3 DEF TypeOK
<1>8. \A t \in Sdks \ {s} : InUse(t) /\ Algo(t) = a => ~FullUnload(a)
  BY <1>1, <1>3, TwoUsers DEF FullUnload, InUse
<1>9. AdapterUp'
  <2>1. ASSUME NEW t \in Sdks, InUse(t)' PROVE up'[Algo(t)]
    <3>1. t # s /\ InUse(t)
      BY <1>6, <2>1
    <3>2. up[Algo(t)]
      BY <1>1, <3>1 DEF AdapterUp
    <3>3. CASE Algo(t) = a
      <4>1. ~FullUnload(a)
        BY <1>8, <3>1, <3>3
      <4> QED
        BY <1>1, <1>2, <1>3, <3>3, <4>1, Zenon DEF TypeOK
    <3>4. CASE Algo(t) # a
      BY <1>1, <1>2, <1>3, <3>2, <3>4 DEF TypeOK
    <3> QED
      BY <3>3, <3>4
  <2> QED
    BY <1>2, <2>1 DEF AdapterUp
<1>10. CallsFit' /\ ResultOfOwnInput' /\ (Sound' <=> Sound)
  BY <1>1, <1>3 DEF CallsFit, ResultOfOwnInput, Sound
<1>11. ASSUME Sound
       PROVE  HandleServed' /\ HandlesGivenOut' /\ SlicesStored'
  <2>1. HandlesGivenOut /\ SlicesStored
    BY <1>11 DEF SessionInv
  <2>2. \A t \in Sdks : InUse(t) =>
           /\ handle[t] \in handles[Algo(t)] \cap live
           /\ \A r \in Sdks \ {t} : InUse(r) => handle[r] # handle[t]
    BY <1>11 DEF SessionInv, HandleServed, Sound
  <2>3. h \in handles[a]
    BY <1>3, <2>2
  <2>4. \A b \in Algorithms \ {a} : handles'[b] = handles[b] /\ handles[b] \cap handles[a] = {}
    <3>1. \A b \in Algorithms \ {a} : handles'[b] = handles[b]
      BY <1>1, <1>3 DEF TypeOK
    <3>2. \A b \in Algorithms \ {a} : (b = "KWS" /\ a = "IC") \/ (b = "IC" /\ a = "KWS")
      BY <1>2 DEF Algorithms
    <3>3. \A b \in Algorithms \ {a} : handles[b] \cap handles[a] = {}
      BY <2>1, <3>2 DEF HandlesGivenOut
    <3> QED
      BY <3>1, <3>3
  <2>5. handles'[a] = IF FullUnload(a) THEN {} ELSE handles[a] \ {h}
    BY <1>1, <1>2, <1>3 DEF TypeOK
  <2>6. HandlesGivenOut'
    <3>1. \A b \in Algorithms : handles'[b] \subseteq live' /\ handles'[b] \subseteq handles[b]
      BY <1>2, <1>3, <2>1, <2>3, <2>4, <2>5 DEF HandlesGivenOut
    <3> QED
      BY <2>1, <3>1 DEF HandlesGivenOut, Algorithms
  <2>7. ASSUME NEW t \in Sdks, InUse(t)'
        PROVE  /\ handle'[t] = handle[t] /\ handle[t] \in handles'[Algo(t)] \cap live'
               /\ \A r \in Sdks \ {t} : InUse(r)' => handle'[r] # handle'[t]
    <3>1. /\ t # s /\ InUse(t) /\ handle'[t] = handle[t] /\ handle[t] # h
          /\ handle[t] \in handles[Algo(t)] \cap live
      BY <1>3, <1>6, <1>7, <2>2, <2>7
    <3>2. handle[t] \in handles'[Algo(t)]
      BY <1>2, <1>8, <2>4, <2>5, <3>1
    <3>3. handle[t] \in live'
      BY <3>2, <1>2, <2>6 DEF HandlesGivenOut
    <3>4. \A r \in Sdks \ {t} : InUse(r)' => handle'[r] # handle'[t]
      BY <1>6, <1>7, <2>2, <3>1
    <3> QED
      BY <3>1, <3>2, <3>3, <3>4
  <2>8. HandleServed'
    BY <1>2, <2>7 DEF HandleServed
  <2>9. ASSUME NEW t \in Sdks, call[t].offset > 0
        PROVE  InUse(t)' /\ handle'[t] = handle[t]
    <3>1. t # s
      BY <1>3, <2>9 DEF Idle
    <3>2. InUse(t)
      BY <2>1, <2>9 DEF SlicesStored
    <3> QED
      BY <1>7, <3>1, <3>2 DEF InUse
  <2>10. SlicesStored'
    BY <1>3, <2>1, <2>9 DEF SlicesStored
  <2> QED
    BY <2>6, <2>8, <2>10
<1>12. ~Sound => HandleServed'
  BY <1>10 DEF HandleServed, Sound
<1> QED
  BY <1>4, <1>5, <1>9, <1>10, <1>11, <1>12 DEF SessionInv

\* After a Deinit that failed, the references still cover the users.
LEMMA DeinitFailsKeeps ==
    ASSUME SessionInv, NEW s \in Sdks, DeinitFails(s)
    PROVE  SessionInv'
<1>1. TypeOK /\ RefsCover /\ CallsFit /\ AdapterUp
  BY DEF SessionInv
<1>2. Algo(s) \in Algorithms /\ \A t : Algo(t)' = Algo(t) /\ InUse(t)' = InUse(t)
  BY DEF DeinitFails, Algo, Algorithms, InUse
<1>3. TypeOK'
  <2>1. handles' \in [Algorithms -> SUBSET Handles] /\ live' \subseteq Handles
    BY <1>1 DEF TypeOK, DeinitFails
  <2>2. broken' \in [Algorithms -> BOOLEAN]
    BY <1>1, Zenon DEF TypeOK, DeinitFails
  <2> QED
    BY <1>1, <2>1, <2>2 DEF TypeOK, DeinitFails
<1>4. RefsCover' /\ CallsFit' /\ AdapterUp'
  BY <1>1, <1>2 DEF RefsCover, Users, CallsFit, AdapterUp, DeinitFails
<1>5. ~Sound' /\ HandleServed' /\ ResultOfOwnInput'
  <2>1. broken'[Algo(s)]
    BY <1>1, <1>2 DEF TypeOK, DeinitFails
  <2> QED
    BY <1>2, <2>1 DEF Sound, HandleServed, ResultOfOwnInput
<1> QED
  BY <1>3, <1>4, <1>5 DEF SessionInv

\* A process that dies takes nothing away from the others.
LEMMA DieKeeps ==
    ASSUME SessionInv, NEW s \in Sdks, Die(s)
    PROVE  SessionInv'
<1>1. TypeOK /\ RefsCover /\ CallsFit /\ AdapterUp /\ ResultOfOwnInput
  BY DEF SessionInv
<1>2. /\ recorded' = recorded \ {s} /\ input' = Forget(s) /\ kws' = kws /\ refCount' = refCount
      /\ handles' = handles /\ up' = up /\ live' = live /\ broken' = broken
  BY DEF Die
<1>3. \A t : Algo(t)' = Algo(t)
  BY <1>2 DEF Algo
<1>4. \A t \in Sdks : /\ t # s => /\ handle'[t] = handle[t] /\ call'[t] = call[t]
                                  /\ heard'[t] = heard[t]
                      /\ t = s => /\ handle'[t] = None /\ call'[t] = Idle
                                  /\ call'[t].offset = 0 /\ heard'[t].ret = "none"
  BY <1>1 DEF TypeOK, Die, Idle, Nothing
<1>5. \A t \in Sdks : (t # s => (InUse(t)' <=> InUse(t))) /\ (t = s => ~InUse(t)')
  BY <1>2, <1>4 DEF InUse
<1>6. TypeOK'
  <2>1. handle' \in [Sdks -> Handles \cup {None}]
    BY <1>1 DEF TypeOK, Die
  <2>2. call' \in [Sdks -> [size : Nat, offset : Nat]]
    BY <1>1 DEF TypeOK, Die, Idle
  <2>3. heard' \in [Sdks -> [ret : {"none", "result", "success without result", "failure"},
                             cells : SUBSET (Sdks \cup {Stale})]]
    BY <1>1 DEF TypeOK, Die, Nothing
  <2>4. input' \in [Handles -> [0 .. InputSize - 1 -> Sdks \cup {Stale}]]
    BY <1>1, <1>2, OthersKept DEF Cells
  <2> QED
    BY <1>1, <1>2, <2>1, <2>2, <2>3, <2>4 DEF TypeOK
<1>7. RefsCover'
  <2>1. CASE s \in recorded
    BY <1>1, <1>2, <2>1, UnloadCovered
  <2>2. CASE s \notin recorded
    <3>1. recorded' = recorded
      BY <1>2, <2>2
    <3> QED
      BY <1>1, <1>2, <1>3, <3>1 DEF RefsCover, Users
  <2> QED
    BY <2>1, <2>2
<1>8. CallsFit' /\ AdapterUp' /\ ResultOfOwnInput'
  BY <1>1, <1>2, <1>3, <1>4, <1>5 DEF CallsFit, AdapterUp, ResultOfOwnInput
<1>9. HandleServed' /\ (Sound' <=> Sound) /\ (Sound => HandlesGivenOut')
  BY <1>2, <1>3, <1>4, <1>5 DEF SessionInv, HandleServed, Sound, HandlesGivenOut
<1>10. ASSUME Sound, NEW t \in Sdks, call'[t].offset > 0
       PROVE  /\ InUse(t)'
              /\ \A i \in 0 .. InputSize - 1 : i < call'[t].offset => input'[handle'[t]][i] = t
  <2>1. t # s /\ call'[t] = call[t] /\ handle'[t] = handle[t]
    BY <1>4, <1>10
  <2>2. InUse(t) /\ \A i \in 0 .. InputSize - 1 : i < call[t].offset => input[handle[t]][i] = t
    BY <1>10, <2>1 DEF SessionInv, SlicesStored
  <2>3. handle[t] \in Handles
    BY <1>1, <2>2 DEF TypeOK, InUse
  <2>4. \A i \in 0 .. InputSize - 1 : input[handle[t]][i] = t => Forget(s)[handle[t]][i] = t
    BY <1>1, <2>1, <2>3, OthersKept
  <2> QED
    BY <1>2, <1>5, <2>1, <2>2, <2>4
<1>11. Sound => SlicesStored'
  BY <1>10 DEF SlicesStored
<1> QED
  BY <1>6, <1>7, <1>8, <1>9, <1>11 DEF SessionInv

-----------------------------------------------------------------------------
(* The theorems. *)

LEMMA InvInitially == Init => SessionInv
<1> SUFFICES ASSUME Init PROVE SessionInv
  OBVIOUS
<1>1. TypeOK
  <2>1. heard \in [Sdks -> [ret : {"none", "result", "success without result", "failure"},
                            cells : SUBSET (Sdks \cup {Stale})]]
    BY DEF Init, Nothing
  <2>2. up \in [Algorithms -> BOOLEAN] /\ broken \in [Algorithms -> BOOLEAN]
    BY Zenon DEF Init
  <2>3. call \in [Sdks -> [size : Nat, offset : Nat]]
    BY DEF Init, Idle
  <2> QED
    BY <2>1, <2>2, <2>3 DEF Init, TypeOK
<1>2. RefsCover
  <2>1. \A a \in Algorithms : Users(a) = {}
    BY DEF Init, Users
  <2> QED
    <3>1. IsFiniteSet(recorded) /\ Cardinality({}) = 0
      BY FS_EmptySet DEF Init
    <3>2. \A a \in Algorithms : refCount[a] = 0
      BY DEF Init
    <3> QED
      BY <2>1, <3>1, <3>2 DEF RefsCover
<1>3. CallsFit /\ AdapterUp /\ HandleServed /\ ResultOfOwnInput
  BY DEF Init, CallsFit, AdapterUp, HandleServed, InUse, ResultOfOwnInput, Nothing
<1>4. HandlesGivenOut /\ SlicesStored
  BY DEF Init, HandlesGivenOut, SlicesStored, Algorithms, Idle
<1> QED
  BY <1>1, <1>2, <1>3, <1>4 DEF SessionInv

LEMMA InvKept == SessionInv /\ [Next]_vars => SessionInv'
<1> SUFFICES ASSUME SessionInv, [Next]_vars PROVE SessionInv'
  OBVIOUS
<1>1. CASE Next
  <2>1. PICK s \in Sdks :
           \/ \E h \in Handles :
                 Create(s, h) \/ BuildConfigFails(s, h) \/ EncodeFails(s, h) \/ DecodeFails(s, h)
           \/ \E size \in 1 .. MaxSize : Begin(s, size)
           \/ Slice(s) \/ SliceFails(s) \/ MakeInferenceFails(s)
           \/ Destroy(s) \/ ClientDestroyFails(s) \/ DeinitFails(s) \/ Die(s)
    BY <1>1 DEF Next
  <2>2. CASE \E h \in Handles :
                Create(s, h) \/ BuildConfigFails(s, h) \/ EncodeFails(s, h) \/ DecodeFails(s, h)
    BY <2>2, CreateAttempts, CreateKeeps DEF SessionInv
  <2>3. CASE \E size \in 1 .. MaxSize : Begin(s, size)
    BY <2>3, BeginKeeps
  <2>4. CASE Slice(s) \/ SliceFails(s) \/ MakeInferenceFails(s)
    BY <2>4, RequestKeeps
  <2>5. CASE Destroy(s)
    BY <2>5, StopEngineKeeps DEF Destroy
  <2>6. CASE ClientDestroyFails(s)
    <3>1. handle' \in {handle, [handle EXCEPT ![s] = None]}
      BY <2>6 DEF ClientDestroyFails, SessionInv, TypeOK
    <3> QED
      BY <2>6, <3>1, StopEngineKeeps DEF ClientDestroyFails
  <2>7. CASE DeinitFails(s)
    BY <2>7, DeinitFailsKeeps
  <2>8. CASE Die(s)
    BY <2>8, DieKeeps
  <2> QED
    BY <2>1, <2>2, <2>3, <2>4, <2>5, <2>6, <2>7, <2>8
<1>2. CASE UNCHANGED vars
  <2>1. \A t : Algo(t)' = Algo(t) /\ InUse(t)' = InUse(t)
    BY <1>2 DEF vars, Algo, InUse
  <2>2. TypeOK' /\ CallsFit' /\ (Sound => ResultOfOwnInput' /\ SlicesStored')
    BY <1>2, <2>1 DEF vars, SessionInv, TypeOK, CallsFit, ResultOfOwnInput, SlicesStored
  <2> QED
    BY <1>2, <2>2, CallFrame DEF vars
<1> QED
  BY <1>1, <1>2

\* StartEngine and StopEngine of the other SDKs, and whatever of them fails,
\* never take the handle of an SDK in use, as long as no Deinit has failed.
THEOREM HandlesKept == Spec => []HandleServed
<1>1. SessionInv => HandleServed
  BY DEF SessionInv
<1> QED
  BY <1>1, InvInitially, InvKept, PTL DEF Spec

\* Release shuts the adapter down for the last user only, whatever fails.
THEOREM AdapterKept == Spec => []AdapterUp
<1>1. SessionInv => AdapterUp
  BY DEF SessionInv
<1> QED
  BY <1>1, InvInitially, InvKept, PTL DEF Spec

\* SyncProcess never infers over a cell that the call it answers has not sent.
THEOREM ResultsOwn == Spec => []ResultOfOwnInput
<1>1. SessionInv => ResultOfOwnInput
  BY DEF SessionInv
<1> QED
  BY <1>1, InvInitially, InvKept, PTL DEF Spec
=============================================================================
