---------------------------- MODULE PlatformProofs ----------------------------
(***************************************************************************)
(* The platform layer.  For a queue of any size, with one pushing and one  *)
(* popping thread: the ring loses nothing, shares no node, and is a FIFO.  *)
(* For any finite number of threads and of guards they take: a writer is   *)
(* alone with the lock, and its counters say who holds it and who wants    *)
(* it.  For any owners, Thread objects and pthreads, whatever fails and    *)
(* whoever ends by itself: a Thread is in the pool once and has one owner, *)
(* and no pthread uses a worker that is deleted or a Thread that is idle.  *)
(***************************************************************************)
EXTENDS Queue, RwLock, WorkerThread, SequenceTheorems, FiniteSetTheorems, TLAPS

-------------------------------------------------------------------------------
(* The queue. *)

\* Two divisions with the same value leave the same remainder.
LEMMA DivUnique ==
  ASSUME NEW n \in Nat, n > 0, NEW a \in Int, NEW b \in Int,
         NEW r \in 0 .. (n - 1), NEW s \in 0 .. (n - 1),
         n * a + r = n * b + s
  PROVE  r = s
<1>1. n * (a - b) = s - r
  OBVIOUS
<1>2. CASE a - b >= 1
  <2>1. n * (a - b) >= n
    BY <1>2
  <2> QED BY <1>1, <2>1
<1>3. CASE a - b <= -1
  <2>1. n * (b - a) >= n
    BY <1>3
  <2>2. n * (a - b) = -(n * (b - a))
    OBVIOUS
  <2> QED BY <1>1, <2>1, <2>2
<1>4. CASE a = b
  BY <1>4
<1> QED BY <1>2, <1>3, <1>4

\* The counter's quotient and remainder by totalNum_, as PushBack and PopFront use them.
LEMMA ModRange ==
  ASSUME NEW x \in Nat, NEW n \in Nat, n > 0
  PROVE  /\ x % n \in 0 .. (n - 1)
         /\ x \div n \in Int
         /\ x = n * (x \div n) + (x % n)
OBVIOUS

\* A position below the modulus is its own remainder.
LEMMA ModSmall ==
  ASSUME NEW n \in Nat, n > 0, NEW x \in 0 .. (n - 1)
  PROVE  x % n = x
<1>1. n * (x \div n) + (x % n) = n * 0 + x
  BY ModRange
<1> QED BY <1>1, ModRange, DivUnique

\* The slot after a counter's increment is the next slot of the ring.
LEMMA ModSucc ==
  ASSUME NEW x \in Nat, NEW n \in Nat, n > 0
  PROVE  (x + 1) % n = IF x % n = n - 1 THEN 0 ELSE (x % n) + 1
<1> DEFINE q == x \div n
           r == x % n
<1>1. q \in Int /\ r \in 0 .. (n - 1) /\ x = n * q + r
  BY ModRange
<1>2. /\ (x + 1) \div n \in Int
      /\ (x + 1) % n \in 0 .. (n - 1)
      /\ x + 1 = n * ((x + 1) \div n) + ((x + 1) % n)
  BY ModRange
<1>3. CASE r = n - 1
  <2>1. n * (q + 1) = n * q + n
    BY <1>1
  <2>2. x + 1 = n * (q + 1) + 0
    BY <1>1, <1>3, <2>1
  <2>3. q + 1 \in Int /\ 0 \in 0 .. (n - 1)
    BY <1>1
  <2>4. n * ((x + 1) \div n) + ((x + 1) % n) = n * (q + 1) + 0
    BY <1>2, <2>2
  <2>5. (x + 1) % n = 0
    BY <1>2, <2>3, <2>4, DivUnique
  <2> QED BY <1>3, <2>5
<1>4. CASE r # n - 1
  <2>1. r + 1 \in 0 .. (n - 1)
    BY <1>1, <1>4
  <2>2. n * ((x + 1) \div n) + ((x + 1) % n) = n * q + (r + 1)
    BY <1>1, <1>2
  <2> HIDE DEF q, r
  <2>3. (x + 1) % n = r + 1
    BY <1>1, <1>2, <2>1, <2>2, DivUnique
  <2> QED BY <1>4, <2>3 DEF r
<1> QED BY <1>3, <1>4

\* pushPos_++ and popPos_++ move to the next slot also where size_t wraps,
\* since totalNum_ divides the counter's range.
LEMMA CounterSucc ==
  ASSUME NEW x \in Size_t
  PROVE  /\ (x + 1) % SizeMod \in Size_t
         /\ ((x + 1) % SizeMod) % TotalNum = Wrap(x % TotalNum, 1)
<1> USE QueueAssumption
<1>1. x \in Nat /\ x % TotalNum \in 0 .. (TotalNum - 1)
  BY ModRange DEF Size_t
<1>2. (x + 1) % TotalNum = Wrap(x % TotalNum, 1)
  <2>0. TotalNum \in Nat /\ TotalNum > 0
    OBVIOUS
  <2>1. (x + 1) % TotalNum = IF x % TotalNum = TotalNum - 1 THEN 0 ELSE (x % TotalNum) + 1
    BY <1>1, <2>0, ModSucc, Zenon
  <2>2. ASSUME NEW r \in 0 .. (TotalNum - 1)
        PROVE  Wrap(r, 1) = IF r = TotalNum - 1 THEN 0 ELSE r + 1
    BY DEF Wrap
  <2> QED BY <1>1, <2>1, <2>2
<1>3. CASE x + 1 < SizeMod
  <2>1. (x + 1) % SizeMod = x + 1
    BY <1>3, ModSmall DEF Size_t
  <2> QED BY <1>1, <1>2, <1>3, <2>1 DEF Size_t
<1>4. CASE x + 1 = SizeMod
  <2>1. x % SizeMod = x
    BY ModSmall DEF Size_t
  <2>2. (x + 1) % SizeMod = 0
    BY <1>1, <1>4, <2>1, ModSucc
  <2>3. 0 % TotalNum = 0
    BY ModSmall
  <2>4. Wrap(x % TotalNum, 1) = 0
    BY <1>2, <1>4
  <2> QED BY <2>2, <2>3, <2>4 DEF Size_t
<1> QED BY <1>3, <1>4 DEF Size_t

\* A count of slots stays far from the top of size_t.
LEMMA CountSmall ==
  ASSUME NEW x \in 0 .. TotalNum
  PROVE  x % SizeMod = x
BY QueueAssumption, ModSmall

\* The positions and the front of the window are slots of the ring.
LEMMA PlaceInSlots ==
  ASSUME QueueTypeOK
  PROVE  /\ pushPos % TotalNum \in Slots
         /\ popPos % TotalNum \in Slots
         /\ FrontSlot \in Slots
<1> USE QueueAssumption
<1>1. pushPos \in Nat /\ popPos \in Nat
  BY DEF QueueTypeOK, Size_t
<1>2. pushPos % TotalNum \in Slots /\ popPos % TotalNum \in Slots
  BY <1>1, ModRange DEF Slots
<1> QED BY <1>2 DEF FrontSlot, QueueTypeOK

\* The constructor establishes the ring invariant.
LEMMA InitRing == QueueInit => RingInv
<1> SUFFICES ASSUME QueueInit PROVE RingInv
  OBVIOUS
<1> USE QueueAssumption DEF QueueInit
<1>1. 0 % TotalNum = 0
  BY ModSmall
<1>2. QueueTypeOK
  BY DEF QueueTypeOK, Size_t, Slots, PushPc, PopPc
<1>3. Occupied = 0 /\ FrontSlot = 0 /\ PushHolds = 0 /\ PopHolds = 0
  BY <1>1 DEF Occupied, FrontSlot, PushHolds, PopHolds
<1>4. CapacityConserved
  BY <1>3 DEF CapacityConserved
<1>5. PushPlace /\ PopPlace
  BY <1>1, <1>3 DEF PushPlace, PopPlace, Wrap
<1>6. FilledExact
  BY <1>3 DEF FilledExact, Dist, Slots
<1> QED BY <1>2, <1>4, <1>5, <1>6 DEF RingInv, Promise

\* PushBack's test of writeAbleCount_ keeps the ring invariant.
LEMMA PushCheckRing ==
  ASSUME RingInv, NEW m \in Msg, PushCheck(m)
  PROVE  RingInv'
<1> USE QueueAssumption DEF RingInv, PushCheck, ringVars, popVars
<1>1. QueueTypeOK'
  BY DEF QueueTypeOK, PushPc
<1>2. FrontSlot' = FrontSlot /\ Occupied' = Occupied /\ PopHolds' = PopHolds /\ PushHolds' = 0 /\ PushHolds = 0
  BY DEF FrontSlot, Occupied, PopHolds, PushHolds
<1>3. CapacityConserved'
  BY <1>2 DEF CapacityConserved
<1>4. PushPlace' /\ PopPlace'
  BY <1>2 DEF PushPlace, PopPlace, Wrap
<1>5. FilledExact'
  BY <1>2 DEF FilledExact, Dist
<1>6. Promise'
  BY DEF Promise, QueueTypeOK
<1> QED BY <1>1, <1>3, <1>4, <1>5, <1>6

\* PushBack's writeAbleCount_-- keeps the ring invariant.
LEMMA PushReserveRing ==
  ASSUME RingInv, PushReserve
  PROVE  RingInv'
<1> USE QueueAssumption DEF RingInv, PushReserve, popVars
<1>1. writeAble' = writeAble - 1
  BY CountSmall DEF QueueTypeOK, Promise
<1>2. QueueTypeOK'
  BY <1>1 DEF QueueTypeOK, PushPc, Promise
<1>3. FrontSlot' = FrontSlot /\ Occupied' = Occupied /\ PopHolds' = PopHolds /\ PushHolds' = 1 /\ PushHolds = 0
  BY DEF FrontSlot, Occupied, PopHolds, PushHolds
<1>4. CapacityConserved'
  BY <1>1, <1>3 DEF CapacityConserved, QueueTypeOK, Occupied, PopHolds
<1>5. PushPlace' /\ PopPlace'
  BY <1>3 DEF PushPlace, PopPlace, Wrap
<1>6. FilledExact'
  BY <1>3 DEF FilledExact, Dist
<1>7. Promise'
  BY DEF Promise, QueueTypeOK
<1> QED BY <1>2, <1>4, <1>5, <1>6, <1>7

\* PushBack's pushPos_++ keeps the ring invariant.
LEMMA PushClaimRing ==
  ASSUME RingInv, PushClaim
  PROVE  RingInv'
<1> USE QueueAssumption DEF RingInv, PushClaim, popVars
<1>1. pushPos' \in Size_t /\ pushPos' % TotalNum = Wrap(pushPos % TotalNum, 1)
  BY CounterSucc DEF QueueTypeOK
<1>2. QueueTypeOK'
  BY <1>1, PlaceInSlots DEF QueueTypeOK, PushPc
<1>3. FrontSlot' = FrontSlot /\ Occupied' = Occupied /\ PopHolds' = PopHolds /\ PushHolds' = 1 /\ PushHolds = 1
  BY DEF FrontSlot, Occupied, PopHolds, PushHolds
<1>4. CapacityConserved'
  BY <1>3 DEF CapacityConserved
<1>5. PushPlace'
  BY <1>1, <1>3 DEF PushPlace, Wrap
<1>6. PopPlace'
  BY DEF PopPlace, Wrap
<1>7. FilledExact'
  BY <1>3 DEF FilledExact, Dist
<1>8. Promise'
  BY DEF Promise, QueueTypeOK
<1> QED BY <1>2, <1>4, <1>5, <1>6, <1>7, <1>8

\* PushBack's store of the message keeps the ring invariant.
LEMMA PushStoreRing ==
  ASSUME RingInv, PushStore
  PROVE  RingInv'
<1> USE QueueAssumption DEF RingInv, PushStore, popVars
<1>2. QueueTypeOK'
  BY DEF QueueTypeOK, PushPc
<1>3. FrontSlot' = FrontSlot /\ Occupied' = Occupied /\ PopHolds' = PopHolds /\ PushHolds' = 1 /\ PushHolds = 1
  BY DEF FrontSlot, Occupied, PopHolds, PushHolds
<1>4. CapacityConserved'
  BY <1>3 DEF CapacityConserved
<1>5. PushPlace' /\ PopPlace'
  BY <1>3 DEF PushPlace, PopPlace, Wrap
<1>7. FilledExact'
  BY <1>3 DEF FilledExact, Dist
<1>8. Promise'
  BY DEF Promise, QueueTypeOK
<1> QED BY <1>2, <1>4, <1>5, <1>7, <1>8

\* PushBack's empty = false keeps the ring invariant.
LEMMA PushMarkRing ==
  ASSUME RingInv, PushMark
  PROVE  RingInv'
<1> USE QueueAssumption DEF RingInv, PushMark, popVars
<1>2. QueueTypeOK'
  BY DEF QueueTypeOK, PushPc
<1>3. FrontSlot' = FrontSlot /\ Occupied' = Occupied /\ PopHolds' = PopHolds /\ PushHolds' = 1 /\ PushHolds = 1
  BY DEF FrontSlot, Occupied, PopHolds, PushHolds
<1>4. CapacityConserved'
  BY <1>3 DEF CapacityConserved
<1>5. PushPlace' /\ PopPlace'
  BY <1>3 DEF PushPlace, PopPlace, Wrap
<1>7. FilledExact'
  <2>1. \A s \in Slots : s \in filled' <=> s \in filled \/ s = pushAt
    OBVIOUS
  <2> QED BY <1>3, <2>1 DEF FilledExact, Dist
<1>8. Promise'
  BY DEF Promise, QueueTypeOK
<1> QED BY <1>2, <1>4, <1>5, <1>7, <1>8

\* PushBack's readAbleCount_++ keeps the ring invariant.
LEMMA PushPublishRing ==
  ASSUME RingInv, PushPublish
  PROVE  RingInv'
<1> USE QueueAssumption DEF RingInv, PushPublish, popVars
<1>0. PlaceInSlots!2
  BY PlaceInSlots
<1>1. readAble < TotalNum
  BY DEF QueueTypeOK, CapacityConserved, Occupied, PushHolds, PopHolds
<1>2. readAble' = readAble + 1
  BY <1>1, CountSmall DEF QueueTypeOK
<1>3. QueueTypeOK'
  BY <1>1, <1>2 DEF QueueTypeOK, PushPc
<1>4. /\ FrontSlot' = FrontSlot /\ Occupied' = Occupied + 1 /\ PopHolds' = PopHolds
      /\ PushHolds' = 0 /\ PushHolds = 1
      /\ Occupied \in 0 .. TotalNum /\ PopHolds \in 0 .. 1
  BY <1>2 DEF FrontSlot, Occupied, PopHolds, PushHolds, QueueTypeOK, CapacityConserved
<1>5. CapacityConserved' /\ Occupied < TotalNum
  BY <1>4 DEF CapacityConserved, QueueTypeOK
<1>6. PushPlace'
  <2>1. Wrap(Wrap(FrontSlot, Occupied), 1) = Wrap(FrontSlot, Occupied + 1)
    BY <1>0, <1>4, <1>5 DEF Wrap, Slots
  <2> QED BY <1>4, <2>1 DEF PushPlace, Wrap
<1>7. PopPlace'
  BY DEF PopPlace, Wrap
<1>8. FilledExact'
  <2>1. ASSUME NEW s \in Slots
        PROVE  Dist(FrontSlot, s) < Occupied + 1 <=> Dist(FrontSlot, s) < Occupied \/ s = Wrap(FrontSlot, Occupied)
    BY <1>0, <1>4, <1>5 DEF Wrap, Slots, Dist
  <2>2. pushAt = Wrap(FrontSlot, Occupied)
    BY DEF PushPlace
  <2> QED BY <1>4, <2>1, <2>2 DEF FilledExact, Dist
<1>9. Promise'
  BY <1>2 DEF Promise, QueueTypeOK
<1> QED BY <1>3, <1>5, <1>6, <1>7, <1>8, <1>9

\* PopFront's test of readAbleCount_ keeps the ring invariant.
LEMMA PopCheckRing ==
  ASSUME RingInv, PopCheck
  PROVE  RingInv'
<1> USE QueueAssumption DEF RingInv, PopCheck, ringVars, pushVars
<1>1. QueueTypeOK'
  BY DEF QueueTypeOK, PopPc
<1>2. FrontSlot' = FrontSlot /\ Occupied' = Occupied /\ PushHolds' = PushHolds /\ PopHolds' = PopHolds
  BY DEF FrontSlot, Occupied, PopHolds, PushHolds
<1>3. CapacityConserved'
  BY <1>2 DEF CapacityConserved
<1>4. PushPlace' /\ PopPlace'
  BY <1>2 DEF PushPlace, PopPlace, Wrap
<1>5. FilledExact'
  BY <1>2 DEF FilledExact, Dist
<1>6. Promise'
  BY DEF Promise, QueueTypeOK
<1> QED BY <1>1, <1>3, <1>4, <1>5, <1>6

\* PopFront's readAbleCount_-- keeps the ring invariant.
LEMMA PopTakeRing ==
  ASSUME RingInv, PopTake
  PROVE  RingInv'
<1> USE QueueAssumption DEF RingInv, PopTake, pushVars
<1>1. readAble' = readAble - 1
  BY CountSmall DEF QueueTypeOK, Promise
<1>2. QueueTypeOK'
  BY <1>1 DEF QueueTypeOK, PopPc, Promise
<1>3. FrontSlot' = FrontSlot /\ Occupied' = Occupied /\ PushHolds' = PushHolds /\ PopHolds' = PopHolds
  BY <1>1 DEF FrontSlot, Occupied, PopHolds, PushHolds, QueueTypeOK
<1>4. CapacityConserved'
  BY <1>3 DEF CapacityConserved
<1>5. PushPlace' /\ PopPlace'
  BY <1>3 DEF PushPlace, PopPlace, Wrap
<1>6. FilledExact'
  BY <1>3 DEF FilledExact, Dist
<1>7. Promise'
  BY DEF Promise, QueueTypeOK
<1> QED BY <1>2, <1>4, <1>5, <1>6, <1>7

\* The task that readAbleCount_ promised is in the slot PopFront looks at.
LEMMA RingLocated == RingInv => NeverNodeInvalid
<1> SUFFICES ASSUME RingInv, popPc = "locate" PROVE (popPos % TotalNum) \in filled
  BY DEF NeverNodeInvalid
<1> USE QueueAssumption DEF RingInv
<1>1. FrontSlot = popPos % TotalNum /\ FrontSlot \in Slots /\ Occupied > 0
  BY PlaceInSlots DEF FrontSlot, Occupied, QueueTypeOK
<1>2. Dist(FrontSlot, FrontSlot) < Occupied
  BY <1>1 DEF Dist, Slots, QueueTypeOK, Occupied
<1> QED BY <1>1, <1>2 DEF FilledExact

\* PopFront's test of the node's empty flag keeps the ring invariant.
LEMMA PopLocateRing ==
  ASSUME RingInv, PopLocate
  PROVE  RingInv'
<1> USE QueueAssumption DEF RingInv, PopLocate, pushVars
<1>1. popAt' = popPos % TotalNum /\ popPc' = "advance" /\ readAble' = readAble
  BY RingLocated DEF NeverNodeInvalid
<1>2. QueueTypeOK'
  BY <1>1, PlaceInSlots DEF QueueTypeOK, PopPc
<1>3. FrontSlot' = FrontSlot /\ Occupied' = Occupied /\ PushHolds' = PushHolds /\ PopHolds' = PopHolds
  BY <1>1 DEF FrontSlot, Occupied, PopHolds, PushHolds
<1>4. CapacityConserved'
  BY <1>3 DEF CapacityConserved
<1>5. PushPlace' /\ PopPlace'
  BY <1>1, <1>3 DEF PushPlace, PopPlace, Wrap
<1>6. FilledExact'
  BY <1>1, <1>3 DEF FilledExact, Dist
<1>7. Promise'
  BY <1>1 DEF Promise, QueueTypeOK
<1> QED BY <1>2, <1>4, <1>5, <1>6, <1>7

\* PopFront's popPos_++ keeps the ring invariant.
LEMMA PopAdvanceRing ==
  ASSUME RingInv, PopAdvance
  PROVE  RingInv'
<1> USE QueueAssumption DEF RingInv, PopAdvance, pushVars
<1>1. popPos' \in Size_t /\ popPos' % TotalNum = Wrap(popPos % TotalNum, 1)
  BY CounterSucc DEF QueueTypeOK
<1>2. QueueTypeOK'
  BY <1>1 DEF QueueTypeOK, PopPc
<1>3. FrontSlot' = FrontSlot /\ Occupied' = Occupied /\ PushHolds' = PushHolds /\ PopHolds' = PopHolds
  BY <1>1 DEF FrontSlot, Occupied, PopHolds, PushHolds, PopPlace
<1>4. CapacityConserved'
  BY <1>3 DEF CapacityConserved
<1>5. PushPlace' /\ PopPlace'
  BY <1>1, <1>3 DEF PushPlace, PopPlace, Wrap
<1>6. FilledExact'
  BY <1>3 DEF FilledExact, Dist
<1>7. Promise'
  BY DEF Promise, QueueTypeOK
<1> QED BY <1>2, <1>4, <1>5, <1>6, <1>7

\* PopFront's read of the message keeps the ring invariant.
LEMMA PopLoadRing ==
  ASSUME RingInv, PopLoad
  PROVE  RingInv'
<1> USE QueueAssumption DEF RingInv, PopLoad, ringVars, pushVars
<1>0. PlaceInSlots!2
  BY PlaceInSlots
<1>1. QueueTypeOK'
  BY DEF QueueTypeOK, PopPc
<1>2. /\ FrontSlot = popAt /\ FrontSlot' = Wrap(FrontSlot, 1)
      /\ Occupied' = Occupied - 1 /\ Occupied \in 1 .. TotalNum
      /\ PushHolds' = PushHolds /\ PopHolds' = 1 /\ PopHolds = 0 /\ PushHolds \in 0 .. 1
  BY DEF FrontSlot, Occupied, PopHolds, PushHolds, PopPlace, QueueTypeOK, CapacityConserved
<1>3. CapacityConserved' /\ Occupied + PushHolds <= TotalNum
  BY <1>2 DEF CapacityConserved, QueueTypeOK
<1>4. Wrap(Wrap(FrontSlot, 1), Occupied - 1) = Wrap(FrontSlot, Occupied)
  BY <1>0, <1>2 DEF Wrap, Slots
<1>5. PushPlace'
  BY <1>2, <1>4 DEF PushPlace, Wrap
<1>6. PopPlace'
  BY <1>2 DEF PopPlace, Wrap
<1>7. FilledExact'
  <2>1. ASSUME NEW s \in Slots
        PROVE  Dist(FrontSlot, s) < Occupied <=> Dist(Wrap(FrontSlot, 1), s) < Occupied - 1 \/ s = FrontSlot
    BY <1>0, <1>2 DEF Wrap, Slots, Dist
  <2> QED BY <1>2, <2>1 DEF FilledExact, Dist
<1>8. Promise'
  BY DEF Promise, QueueTypeOK
<1> QED BY <1>1, <1>3, <1>5, <1>6, <1>7, <1>8

\* PopFront's empty = true keeps the ring invariant.
LEMMA PopClearRing ==
  ASSUME RingInv, PopClear
  PROVE  RingInv'
<1> USE QueueAssumption DEF RingInv, PopClear, pushVars
<1>0. PlaceInSlots!2
  BY PlaceInSlots
<1>1. QueueTypeOK'
  BY DEF QueueTypeOK, PopPc
<1>2. /\ FrontSlot' = FrontSlot /\ Occupied' = Occupied /\ PushHolds' = PushHolds
      /\ PopHolds' = 1 /\ PopHolds = 1 /\ PushHolds \in 0 .. 1
      /\ Occupied \in 0 .. (TotalNum - 1) /\ FrontSlot = Wrap(popAt, 1)
  BY DEF FrontSlot, Occupied, PopHolds, PushHolds, PopPlace, QueueTypeOK, CapacityConserved
<1>3. CapacityConserved' /\ Occupied + PushHolds <= TotalNum - 1
  BY <1>2 DEF CapacityConserved, QueueTypeOK
<1>4. PushPlace' /\ PopPlace'
  BY <1>2 DEF PushPlace, PopPlace, Wrap
<1>5. Dist(FrontSlot, popAt) >= Occupied
  BY <1>2 DEF Wrap, Dist, Slots, QueueTypeOK
<1>6. pushPc = "publish" => pushAt # popAt
  <2>1. pushPc = "publish" => PushHolds = 1 /\ pushAt = Wrap(FrontSlot, Occupied)
    BY DEF PushPlace, PushHolds
  <2>2. Occupied < TotalNum - 1 => Wrap(FrontSlot, Occupied) # popAt
    BY <1>0, <1>2 DEF Wrap, Slots, QueueTypeOK
  <2> QED BY <1>2, <1>3, <2>1, <2>2
<1>7. FilledExact'
  <2>1. \A s \in Slots : s \in filled' <=> s \in filled /\ s # popAt
    OBVIOUS
  <2>2. ~ (Dist(FrontSlot, popAt) < Occupied)
    BY <1>0, <1>2, <1>5 DEF Dist, Slots, QueueTypeOK
  <2>3. \A s \in Slots : s \in filled' <=> \/ Dist(FrontSlot, s) < Occupied
                                           \/ pushPc = "publish" /\ s = pushAt
    BY <1>6, <2>1, <2>2 DEF FilledExact
  <2> QED BY <1>2, <2>3 DEF FilledExact, Dist
<1>8. Promise'
  BY DEF Promise, QueueTypeOK
<1> QED BY <1>1, <1>3, <1>4, <1>7, <1>8

\* PopFront's writeAbleCount_++ keeps the ring invariant.
LEMMA PopReleaseRing ==
  ASSUME RingInv, PopRelease
  PROVE  RingInv'
<1> USE QueueAssumption DEF RingInv, PopRelease, pushVars
<1>0. writeAble < TotalNum
  BY DEF QueueTypeOK, CapacityConserved, Occupied, PushHolds, PopHolds
<1>1. writeAble' = writeAble + 1
  BY <1>0, CountSmall DEF QueueTypeOK
<1>2. QueueTypeOK'
  BY <1>0, <1>1 DEF QueueTypeOK, PopPc
<1>3. FrontSlot' = FrontSlot /\ Occupied' = Occupied /\ PushHolds' = PushHolds /\ PopHolds' = 0 /\ PopHolds = 1
  BY DEF FrontSlot, Occupied, PopHolds, PushHolds
<1>4. CapacityConserved'
  BY <1>1, <1>3 DEF CapacityConserved, QueueTypeOK, Occupied, PushHolds
<1>5. PushPlace' /\ PopPlace'
  BY <1>3 DEF PushPlace, PopPlace, Wrap
<1>6. FilledExact'
  BY <1>3 DEF FilledExact, Dist
<1>7. Promise'
  BY <1>1 DEF Promise, QueueTypeOK
<1> QED BY <1>2, <1>4, <1>5, <1>6, <1>7

\* Reset of a queue nobody uses restores the ring invariant.
LEMMA ResetRing ==
  ASSUME RingInv, Reset
  PROVE  RingInv'
<1> USE QueueAssumption DEF RingInv, Reset, pushVars, popVars
<1>1. 0 % TotalNum = 0
  BY ModSmall
<1>2. QueueTypeOK'
  BY DEF QueueTypeOK, Size_t
<1>3. Occupied' = 0 /\ FrontSlot' = 0 /\ PushHolds' = 0 /\ PopHolds' = 0
  BY <1>1 DEF Occupied, FrontSlot, PushHolds, PopHolds
<1>4. CapacityConserved'
  BY <1>3 DEF CapacityConserved
<1>5. PushPlace' /\ PopPlace'
  BY <1>1, <1>3 DEF PushPlace, PopPlace, Wrap
<1>6. FilledExact'
  BY <1>3 DEF FilledExact, Dist, Slots
<1> QED BY <1>2, <1>4, <1>5, <1>6 DEF Promise

\* A step that changes nothing keeps the ring invariant.
LEMMA StutterRing == RingInv /\ UNCHANGED queueVars => RingInv'
<1> SUFFICES ASSUME RingInv, UNCHANGED queueVars PROVE RingInv'
  OBVIOUS
<1> USE DEF RingInv, queueVars
<1>1. FrontSlot' = FrontSlot /\ Occupied' = Occupied /\ PushHolds' = PushHolds /\ PopHolds' = PopHolds
  BY DEF FrontSlot, Occupied, PushHolds, PopHolds
<1>2. QueueTypeOK' /\ CapacityConserved'
  BY <1>1 DEF QueueTypeOK, CapacityConserved
<1>3. PushPlace' /\ PopPlace' /\ FilledExact' /\ Promise'
  BY <1>1 DEF PushPlace, PopPlace, FilledExact, Promise, Wrap, Dist
<1> QED BY <1>2, <1>3

\* Every step of PushBack, PopFront and Reset keeps the ring invariant.
LEMMA NextRing == RingInv /\ [QueueNext]_queueVars => RingInv'
<1> SUFFICES ASSUME RingInv, [QueueNext]_queueVars PROVE RingInv'
  OBVIOUS
<1>1. CASE PushBack
  BY <1>1, PushCheckRing, PushReserveRing, PushClaimRing, PushStoreRing, PushMarkRing,
     PushPublishRing DEF PushBack
<1>2. CASE PopFront
  BY <1>2, PopCheckRing, PopTakeRing, PopLocateRing, PopAdvanceRing, PopLoadRing,
     PopClearRing, PopReleaseRing DEF PopFront
<1>3. CASE Reset
  BY <1>3, ResetRing
<1>4. CASE UNCHANGED queueVars
  BY <1>4, StutterRing
<1> QED BY <1>1, <1>2, <1>3, <1>4 DEF QueueNext

\* In the ring invariant pusher and popper never work on the same node.
LEMMA RingShared == RingInv => SlotsNotShared
<1> SUFFICES ASSUME RingInv, pushPc \in {"store", "mark"}
             PROVE  /\ pushAt \notin filled
                    /\ popPc \in {"advance", "load", "clear"} => popAt # pushAt
  BY DEF SlotsNotShared
<1> USE QueueAssumption DEF RingInv
<1>0. PlaceInSlots!2
  BY PlaceInSlots
<1>1. pushAt = Wrap(FrontSlot, Occupied) /\ pushAt \in Slots /\ popAt \in Slots
  BY DEF PushPlace, QueueTypeOK
<1>2. Occupied \in 0 .. (TotalNum - 1) /\ PopHolds \in 0 .. 1 /\ Occupied + PopHolds < TotalNum
  BY DEF CapacityConserved, QueueTypeOK, Occupied, PushHolds, PopHolds
<1>3. ~ (Dist(FrontSlot, pushAt) < Occupied)
  BY <1>0, <1>1, <1>2 DEF Dist, Wrap, Slots
<1>4. popPc \in {"advance", "load"} => FrontSlot = popAt /\ Occupied > 0
  BY DEF FrontSlot, PopPlace, Occupied, QueueTypeOK
<1>5. popPc = "clear" => FrontSlot = Wrap(popAt, 1) /\ PopHolds = 1
  BY DEF FrontSlot, PopPlace, PopHolds
<1>6. popPc \in {"advance", "load"} => popAt # pushAt
  BY <1>0, <1>1, <1>2, <1>4 DEF Wrap, Slots
<1>7. popPc = "clear" => popAt # pushAt
  BY <1>0, <1>1, <1>2, <1>5 DEF Wrap, Slots
<1> QED BY <1>1, <1>3, <1>6, <1>7 DEF FilledExact

\* For every size of the queue: the ring invariant, the types, and no slot of
\* the queue is ever lost or counted twice between PushBack and PopFront.
THEOREM RingSafe == QueueSpec => [](RingInv /\ QueueTypeOK /\ CapacityConserved)
<1>1. RingInv => QueueTypeOK /\ CapacityConserved
  BY DEF RingInv
<1> QED BY <1>1, InitRing, NextRing, PTL DEF QueueSpec

\* For every size of the queue: the pushing and the popping thread never have
\* the same node in hand, so the unlocked accesses do not race.
THEOREM NoSharedSlots == QueueSpec => []SlotsNotShared
BY InitRing, NextRing, RingShared, PTL DEF QueueSpec

\* For every size of the queue: PopFront, once it has taken a count, finds the
\* node at popPos_ filled: it never returns RETCODE_QUEUE_NODE_INVALID.
THEOREM AlwaysValidNode == QueueSpec => []NeverNodeInvalid
BY InitRing, NextRing, RingLocated, PTL DEF QueueSpec

-------------------------------------------------------------------------------
(* Refinement: the ring buffer implements the bounded FIFO channel. *)

\* The occupied nodes are counted in 0 .. TotalNum and start at a slot.
LEMMA WindowBounds ==
  ASSUME RingInv
  PROVE  /\ FrontSlot \in Slots
         /\ Occupied \in 0 .. TotalNum
         /\ \A k \in 0 .. (TotalNum - 1) : Wrap(FrontSlot, k) \in Slots
         /\ \A k \in 0 .. (Occupied - 1) : Wrap(FrontSlot, k) # Wrap(FrontSlot, Occupied) \/ Occupied = TotalNum
<1> USE QueueAssumption DEF RingInv
<1>1. FrontSlot \in Slots
  BY PlaceInSlots
<1>2. Occupied \in 0 .. TotalNum
  BY DEF QueueTypeOK, CapacityConserved, Occupied, PushHolds, PopHolds
<1> QED BY <1>1, <1>2 DEF Wrap, Slots

\* The messages between popPos_ and pushPos_ form a sequence.
LEMMA ContentsSeq ==
  ASSUME RingInv
  PROVE  /\ Contents \in Seq(Msg \cup {NullTask})
         /\ Len(Contents) = Occupied
         /\ \A i \in 1 .. Occupied : Contents[i] = node[Wrap(FrontSlot, i - 1)]
<1> USE QueueAssumption
<1>1. Occupied \in Nat /\ \A i \in 1 .. Occupied : node[Wrap(FrontSlot, i - 1)] \in Msg \cup {NullTask}
  BY WindowBounds DEF RingInv, QueueTypeOK
<1> QED BY <1>1 DEF Contents

\* A step that moves no window and stores into no slot of it keeps the contents.
LEMMA SameContents ==
  ASSUME RingInv, FrontSlot' = FrontSlot, Occupied' = Occupied,
         \A k \in 0 .. (Occupied - 1) : node'[Wrap(FrontSlot, k)] = node[Wrap(FrontSlot, k)]
  PROVE  Contents' = Contents
<1>1. Occupied \in Nat
  BY WindowBounds
<1>2. \A i \in 1 .. Occupied : node'[Wrap(FrontSlot, i - 1)] = node[Wrap(FrontSlot, i - 1)]
  BY <1>1
<1> QED BY <1>1, <1>2 DEF Contents, Wrap

\* readAbleCount_++ of PushBack is the abstract Enqueue.
LEMMA PublishEnqueues ==
  ASSUME RingInv, PushPublish
  PROVE  F!Enqueue(pushMsg) /\ pushMsg \in Msg
<1> USE QueueAssumption
<1>1. RingInv'
  BY PushPublishRing
<1>2. /\ FrontSlot' = FrontSlot /\ Occupied' = Occupied + 1 /\ node' = node /\ popMsg' = popMsg
      /\ Occupied \in Nat /\ Occupied < TotalNum
  <2>1. readAble < TotalNum /\ readAble \in 0 .. TotalNum
    BY DEF RingInv, PushPublish, QueueTypeOK, CapacityConserved, Occupied, PushHolds, PopHolds
  <2>2. readAble' = readAble + 1
    BY <2>1, CountSmall DEF PushPublish
  <2> QED BY <2>1, <2>2 DEF RingInv, PushPublish, popVars, FrontSlot, Occupied, CapacityConserved,
             QueueTypeOK, PushHolds, PopHolds
<1>3. node[Wrap(FrontSlot, Occupied)] = pushMsg /\ pushMsg \in Msg
  BY DEF RingInv, PushPublish, PushPlace, Promise
<1>4. Contents' = [i \in 1 .. (Occupied + 1) |-> node[Wrap(FrontSlot, i - 1)]]
  BY <1>2 DEF Contents, Wrap
<1>5. Contents' = Append(Contents, pushMsg)
  <2> DEFINE S == Msg \cup {NullTask}
             longer == [i \in 1 .. (Occupied + 1) |-> node[Wrap(FrontSlot, i - 1)]]
  <2>1. \A i \in 1 .. (Occupied + 1) : node[Wrap(FrontSlot, i - 1)] \in S
    BY <1>2, WindowBounds DEF RingInv, QueueTypeOK
  <2>2. longer \in Seq(S) /\ Len(longer) = Occupied + 1
    BY <1>2, <2>1
  <2>3. /\ Append(Contents, pushMsg) \in Seq(S)
        /\ Len(Append(Contents, pushMsg)) = Occupied + 1
        /\ \A i \in 1 .. Occupied : Append(Contents, pushMsg)[i] = Contents[i]
        /\ Append(Contents, pushMsg)[Occupied + 1] = pushMsg
    <3>1. pushMsg \in S
      BY <1>3
    <3> HIDE DEF S
    <3> QED BY <3>1, ContentsSeq, AppendProperties DEF S
  <2>4. \A i \in 1 .. (Occupied + 1) : longer[i] = Append(Contents, pushMsg)[i]
    BY <1>2, <1>3, <2>3, ContentsSeq
  <2> HIDE DEF longer
  <2>5. longer = Append(Contents, pushMsg)
    BY <2>2, <2>3, <2>4, SeqEqual
  <2> QED BY <1>4, <2>5 DEF longer
<1> QED BY <1>2, <1>3, <1>5, ContentsSeq DEF F!Enqueue

\* The read of the message by PopFront is the abstract Dequeue.
LEMMA LoadDequeues ==
  ASSUME RingInv, PopLoad
  PROVE  F!Dequeue
<1> USE QueueAssumption
<1>1. /\ FrontSlot = popAt /\ FrontSlot' = Wrap(FrontSlot, 1) /\ node' = node
      /\ Occupied' = Occupied - 1 /\ Occupied \in 1 .. TotalNum /\ FrontSlot \in Slots
  BY PlaceInSlots DEF RingInv, PopLoad, ringVars, FrontSlot, Occupied, PopHolds, PushHolds, PopPlace,
     QueueTypeOK, CapacityConserved
<1>2. popMsg' = Contents[1] /\ Contents # << >>
  <2>1. Wrap(FrontSlot, 0) = FrontSlot
    BY <1>1 DEF Wrap, Slots
  <2> QED BY <1>1, <2>1, ContentsSeq DEF PopLoad
<1>3. \A i \in 1 .. (Occupied - 1) : Wrap(Wrap(FrontSlot, 1), i - 1) = Wrap(FrontSlot, i)
  BY <1>1 DEF Wrap, Slots
<1>4. Contents' = [i \in 1 .. (Occupied - 1) |-> node[Wrap(Wrap(FrontSlot, 1), i - 1)]]
  BY <1>1 DEF Contents, Wrap
<1>5. Contents' = Tail(Contents)
  <2> DEFINE S == Msg \cup {NullTask}
             shorter == [i \in 1 .. (Occupied - 1) |-> node[Wrap(Wrap(FrontSlot, 1), i - 1)]]
  <2>1. \A i \in 1 .. (Occupied - 1) : node[Wrap(Wrap(FrontSlot, 1), i - 1)] \in S
    BY <1>1, <1>3, WindowBounds DEF RingInv, QueueTypeOK
  <2>2. shorter \in Seq(S) /\ Len(shorter) = Occupied - 1
    BY <1>1, <2>1
  <2>3. /\ Tail(Contents) \in Seq(S)
        /\ Len(Tail(Contents)) = Occupied - 1
        /\ \A i \in 1 .. (Occupied - 1) : Tail(Contents)[i] = Contents[i + 1]
    BY <1>1, <1>2, ContentsSeq, HeadTailProperties
  <2>4. \A i \in 1 .. (Occupied - 1) : shorter[i] = Tail(Contents)[i]
    <3> SUFFICES ASSUME NEW i \in 1 .. (Occupied - 1) PROVE shorter[i] = Tail(Contents)[i]
      OBVIOUS
    <3>1. i + 1 \in 1 .. Occupied /\ (i + 1) - 1 = i
      BY <1>1
    <3>2. Contents[i + 1] = node[Wrap(FrontSlot, i)]
      BY <3>1, ContentsSeq
    <3>3. shorter[i] = node[Wrap(FrontSlot, i)]
      BY <1>3
    <3> QED
      BY <2>3, <3>2, <3>3
  <2> HIDE DEF shorter
  <2>5. shorter = Tail(Contents)
    BY <2>2, <2>3, <2>4, SeqEqual
  <2> QED BY <1>4, <2>5 DEF shorter
<1> QED BY <1>2, <1>5, ContentsSeq DEF F!Dequeue

\* Reset is the abstract Discard.
LEMMA ResetDiscards ==
  ASSUME RingInv, Reset
  PROVE  F!Discard
<1>1. Occupied' = 0 /\ popMsg' = popMsg
  BY DEF Reset, Occupied, popVars
<1>2. Contents' = << >>
  BY <1>1 DEF Contents
<1> QED BY <1>1, <1>2 DEF F!Discard

\* Every other step leaves the channel alone.
LEMMA InnerStepsStutter ==
  ASSUME RingInv,
         \/ \E m \in Msg : PushCheck(m)
         \/ PushReserve \/ PushClaim \/ PushStore \/ PushMark
         \/ PopCheck \/ PopTake \/ PopLocate \/ PopAdvance \/ PopClear \/ PopRelease
         \/ UNCHANGED queueVars
  PROVE  UNCHANGED F!vars
<1> USE QueueAssumption
<1> SUFFICES /\ FrontSlot' = FrontSlot /\ Occupied' = Occupied /\ popMsg' = popMsg
             /\ \A k \in 0 .. (Occupied - 1) : node'[Wrap(FrontSlot, k)] = node[Wrap(FrontSlot, k)]
  BY SameContents DEF F!vars
<1>1. CASE \E m \in Msg : PushCheck(m)
  BY <1>1 DEF PushCheck, ringVars, popVars, FrontSlot, Occupied
<1>2. CASE PushReserve \/ PushClaim \/ PushMark
  BY <1>2 DEF PushReserve, PushClaim, PushMark, popVars, FrontSlot, Occupied
<1>3. CASE PushStore
  <2>1. FrontSlot' = FrontSlot /\ Occupied' = Occupied /\ popMsg' = popMsg
    BY <1>3 DEF PushStore, popVars, FrontSlot, Occupied
  <2>2. pushAt = Wrap(FrontSlot, Occupied) /\ Occupied < TotalNum
    BY <1>3 DEF PushStore, RingInv, PushPlace, QueueTypeOK, CapacityConserved, Occupied, PushHolds, PopHolds
  <2>3. \A k \in 0 .. (Occupied - 1) : Wrap(FrontSlot, k) # pushAt /\ Wrap(FrontSlot, k) \in Slots
    BY <2>2, WindowBounds
  <2> QED BY <1>3, <2>1, <2>3 DEF PushStore, RingInv, QueueTypeOK
<1>4. CASE PopTake
  <2>1. readAble' = readAble - 1 /\ readAble \in Int
    BY <1>4, CountSmall DEF PopTake, RingInv, QueueTypeOK, Promise
  <2> QED BY <1>4, <2>1 DEF PopTake, FrontSlot, Occupied, pushVars
<1>5. CASE PopLocate
  BY <1>5, RingLocated DEF PopLocate, NeverNodeInvalid, FrontSlot, Occupied, pushVars
<1>6. CASE PopAdvance
  BY <1>6 DEF PopAdvance, FrontSlot, Occupied, pushVars, RingInv, PopPlace
<1>7. CASE PopCheck \/ PopClear \/ PopRelease
  BY <1>7 DEF PopCheck, PopClear, PopRelease, ringVars, pushVars, FrontSlot, Occupied
<1>8. CASE UNCHANGED queueVars
  BY <1>8 DEF queueVars, FrontSlot, Occupied
<1> QED BY <1>1, <1>2, <1>3, <1>4, <1>5, <1>6, <1>7, <1>8

\* Every step of the ring is a step, or a stutter, of the FIFO.
LEMMA StepImplements == RingInv /\ [QueueNext]_queueVars => [F!Next]_F!vars
<1> SUFFICES ASSUME RingInv, [QueueNext]_queueVars PROVE [F!Next]_F!vars
  OBVIOUS
<1>1. CASE PushPublish
  BY <1>1, PublishEnqueues DEF F!Next
<1>2. CASE PopLoad
  BY <1>2, LoadDequeues DEF F!Next
<1>3. CASE Reset
  BY <1>3, ResetDiscards DEF F!Next
<1>4. CASE ~ (PushPublish \/ PopLoad \/ Reset)
  BY <1>4, InnerStepsStutter DEF QueueNext, PushBack, PopFront
<1> QED BY <1>1, <1>2, <1>3, <1>4

\* The empty ring is the empty FIFO.
LEMMA InitImplements == QueueInit => F!Init
<1> SUFFICES ASSUME QueueInit PROVE F!Init
  OBVIOUS
<1>1. Occupied = 0
  BY DEF QueueInit, Occupied
<1> QED BY <1>1, QueueAssumption DEF QueueInit, F!Init, Contents

\* For every size of the queue: with one pusher and one popper, the lock-free
\* ring delivers every message once, in the order of the pushes.
THEOREM RingImplementsFifo == QueueSpec => ImplementsFifo
<1>1. QueueSpec => []RingInv
  BY InitRing, NextRing, PTL DEF QueueSpec
<1> QED BY <1>1, InitImplements, StepImplements, PTL DEF QueueSpec, ImplementsFifo, F!Spec

-------------------------------------------------------------------------------
(* The read-write lock. *)

\* What is inductive: LockExclusive needs nothing but the types.
LockInv == LockTypeOK /\ LockExclusive

-------------------------------------------------------------------------------
(* What a step does to the sets of threads. *)

\* The other threads stay where they are, or are woken where they sleep.
Undisturbed(t) ==
    \A u \in Users \ {t} :
        \/ state'[u] = state[u]
        \/ state[u] = "sleepRead" /\ state'[u] = "wakeRead"
        \/ state[u] = "sleepWrite" /\ state'[u] = "wakeWrite"

Moved(t, s) ==
    /\ state' \in [Users -> States]
    /\ state'[t] = s
    /\ Undisturbed(t)

\* A thread that goes on without waking others.
LEMMA GoMoves ==
    ASSUME LockTypeOK, NEW t \in Users, NEW s \in States, Go(t, s)
    PROVE  Moved(t, s)
<1>1. state' = [u \in Users |-> IF u = t THEN s ELSE state[u]]
  BY DEF Go, Move
<1> QED
  BY <1>1 DEF Moved, Undisturbed, LockTypeOK

\* A thread that goes on and wakes sleepers of one condition.
LEMMA NotifyMoves ==
    ASSUME LockTypeOK, NEW t \in Users, NEW s \in States, NEW sleepers, NEW w,
           \/ sleepers \subseteq In("sleepRead") /\ w = "wakeRead"
           \/ sleepers \subseteq In("sleepWrite") /\ w = "wakeWrite",
           Move(t, s, sleepers, w)
    PROVE  Moved(t, s)
<1>1. w \in States
  BY DEF States
<1>2. state' = [u \in Users |-> IF u = t THEN s ELSE IF u \in sleepers THEN w ELSE state[u]]
  BY DEF Move
<1>3. state' \in [Users -> States] /\ state'[t] = s
  BY <1>1, <1>2 DEF LockTypeOK
<1>4. Undisturbed(t)
  BY <1>2 DEF Undisturbed, In
<1> QED
  BY <1>3, <1>4 DEF Moved

\* Only the thread that moves enters or leaves the readers and the writers.
LEMMA SetsMoved ==
    ASSUME LockTypeOK, NEW t \in Users, NEW s \in States, Moved(t, s)
    PROVE  /\ In("reading")' = IF s = "reading" THEN In("reading") \cup {t} ELSE In("reading") \ {t}
           /\ In("writing")' = IF s = "writing" THEN In("writing") \cup {t} ELSE In("writing") \ {t}
           /\ Writers' = IF s \in {"sleepWrite", "wakeWrite", "writing"}
                           THEN Writers \cup {t} ELSE Writers \ {t}
BY DEF Moved, Undisturbed, In, Writers

\* The sets of threads are finite, as Users is.
LEMMA SetsFinite ==
    /\ IsFiniteSet(In("reading")) /\ IsFiniteSet(In("writing")) /\ IsFiniteSet(Writers)
    /\ Cardinality(In("reading")) \in Nat /\ Cardinality(Writers) \in Nat
    /\ Cardinality(In("writing")) \in Nat
<1>1. In("reading") \subseteq Users /\ In("writing") \subseteq Users /\ Writers \subseteq Users
  BY DEF In, Writers
<1> QED
  BY <1>1, LockAssumption, FS_Subset, FS_CardinalityType

\* A set that gains or loses one element counts one more or one less.
LEMMA CountOne ==
    ASSUME NEW S, IsFiniteSet(S), NEW x
    PROVE  /\ x \notin S => Cardinality(S \cup {x}) = Cardinality(S) + 1
           /\ x \in S => Cardinality(S \ {x}) = Cardinality(S) - 1 /\ Cardinality(S) > 0
           /\ x \in S => S \cup {x} = S
           /\ x \notin S => S \ {x} = S
<1>1. Cardinality(S) \in Nat
  BY FS_CardinalityType
<1>2. x \notin S => Cardinality(S \cup {x}) = Cardinality(S) + 1
  BY FS_AddElement
<1>3. x \in S => Cardinality(S \ {x}) = Cardinality(S) - 1
  BY FS_RemoveElement
<1>4. x \in S => Cardinality(S) > 0
  BY <1>1, FS_EmptySet
<1> QED
  BY <1>2, <1>3, <1>4

\* Nobody reads when readCnt_ is zero, nobody writes or waits to when writeCnt_
\* is, and one writer is the only one.
LEMMA CountersTell ==
    ASSUME LockInv
    PROVE  /\ readCnt = 0 => In("reading") = {}
           /\ writeCnt = 0 => Writers = {}
           /\ ~writeFlag => In("writing") = {}
           /\ In("writing") \subseteq Writers
           /\ \A t \in In("writing") : In("writing") = {t}
<1>1. (readCnt = 0 => In("reading") = {}) /\ (writeCnt = 0 => Writers = {})
  BY SetsFinite, FS_EmptySet DEF LockInv, LockExclusive
<1>2. \A t \in In("writing") : In("writing") = {t}
  <2> SUFFICES ASSUME NEW t \in In("writing") PROVE In("writing") \ {t} = {}
    OBVIOUS
  <2>1. /\ IsFiniteSet(In("writing") \ {t})
        /\ Cardinality(In("writing") \ {t}) = Cardinality(In("writing")) - 1
        /\ Cardinality(In("writing") \ {t}) \in Nat
    BY SetsFinite, FS_RemoveElement, FS_CardinalityType
  <2>2. Cardinality(In("writing") \ {t}) = 0
    BY <2>1, SetsFinite DEF LockInv, LockExclusive
  <2> QED BY <2>1, <2>2, FS_EmptySet
<1> QED
  BY <1>1, <1>2 DEF Writers, LockInv, LockExclusive

-------------------------------------------------------------------------------
(* LockInv is inductive: one lemma per way a thread goes on. *)

\* A thread that is no reader and no writer takes or misses the read lock.
LEMMA ReadTested ==
    ASSUME LockInv, NEW t \in Users, state[t] \in {"out", "wakeRead"}, TestRead(t)
    PROVE  LockExclusive' /\ state' \in [Users -> States] /\ readCnt' \in Nat
<1> USE SetsFinite DEF LockInv
<1>1. t \notin In("reading") /\ t \notin In("writing") /\ t \notin Writers
  BY DEF In, Writers
<1>2. CASE MayRead
  <2>1. readCnt' = readCnt + 1 /\ Go(t, "reading") /\ UNCHANGED <<writeCnt, writeFlag>>
    BY <1>2 DEF TestRead
  <2>2. Moved(t, "reading")
    BY <2>1, GoMoves DEF States
  <2>3. /\ In("reading")' = In("reading") \cup {t}
        /\ In("writing")' = In("writing") \ {t}
        /\ Writers' = Writers \ {t}
    BY <2>2, SetsMoved DEF States
  <2>4. In("writing")' = In("writing") /\ Writers' = Writers
    BY <1>1, <2>3
  <2>5. Writers = {} /\ In("writing") = {}
    BY <1>2, CountersTell DEF MayRead
  <2>6. readCnt' = Cardinality(In("reading")')
    BY <1>1, <2>1, <2>3, CountOne DEF LockExclusive
  <2> QED
    BY <2>1, <2>2, <2>4, <2>5, <2>6 DEF LockExclusive, Moved, LockTypeOK
<1>3. CASE ~MayRead
  <2>1. Go(t, "sleepRead") /\ UNCHANGED <<readCnt, writeCnt, writeFlag>>
    BY <1>3 DEF TestRead
  <2>2. Moved(t, "sleepRead")
    BY <2>1, GoMoves DEF States
  <2>3. /\ In("reading")' = In("reading") \ {t}
        /\ In("writing")' = In("writing") \ {t}
        /\ Writers' = Writers \ {t}
    BY <2>2, SetsMoved DEF States
  <2>4. In("reading")' = In("reading") /\ In("writing")' = In("writing") /\ Writers' = Writers
    BY <1>1, <2>3
  <2> QED
    BY <2>1, <2>2, <2>4 DEF LockExclusive, Moved, LockTypeOK
<1> QED
  BY <1>2, <1>3

\* A thread that wants to write, and is counted in writeCnt_ from now on, takes
\* or misses the lock.
LEMMA WriteTested ==
    ASSUME LockInv, NEW t \in Users, TestWrite(t),
           \/ state[t] = "out" /\ writeCnt' = writeCnt + 1
           \/ state[t] = "wakeWrite" /\ writeCnt' = writeCnt
    PROVE  /\ LockExclusive' /\ state' \in [Users -> States]
           /\ readCnt' \in Nat /\ writeCnt' \in Nat /\ writeFlag' \in BOOLEAN
<1> USE SetsFinite DEF LockInv
<1>1. /\ t \notin In("reading") /\ t \notin In("writing")
      /\ state[t] = "out" => t \notin Writers
      /\ state[t] = "wakeWrite" => t \in Writers
  BY DEF In, Writers
<1>2. ASSUME NEW s \in {"writing", "sleepWrite"}, Go(t, s)
      PROVE  /\ In("reading")' = In("reading")
             /\ In("writing")' = IF s = "writing" THEN In("writing") \cup {t} ELSE In("writing")
             /\ writeCnt' = Cardinality(Writers')
             /\ state' \in [Users -> States] /\ writeCnt' \in Nat
  <2>1. Moved(t, s)
    BY <1>2, GoMoves DEF States
  <2>2. /\ In("reading")' = In("reading") \ {t}
        /\ In("writing")' = IF s = "writing" THEN In("writing") \cup {t} ELSE In("writing") \ {t}
        /\ Writers' = Writers \cup {t}
    BY <2>1, SetsMoved DEF States
  <2>3. Cardinality(Writers') = writeCnt'
    BY <1>1, <2>2, CountOne DEF LockExclusive
  <2>4. In("reading") \ {t} = In("reading") /\ In("writing") \ {t} = In("writing")
    BY <1>1
  <2>5. state' \in [Users -> States] /\ writeCnt' \in Nat
    BY <2>1 DEF Moved, LockTypeOK
  <2> QED
    BY <2>2, <2>3, <2>4, <2>5
<1>3. CASE MayWrite
  <2>1. writeFlag' = TRUE /\ Go(t, "writing") /\ UNCHANGED readCnt
    BY <1>3 DEF TestWrite
  <2>2. In("reading") = {} /\ In("writing") = {}
    BY <1>3, CountersTell DEF MayWrite
  <2>3. In("reading")' = {} /\ In("writing")' = {t} /\ readCnt' = Cardinality(In("reading")')
    BY <1>2, <2>1, <2>2 DEF LockExclusive
  <2>4. Cardinality(In("writing")') <= 1
    <3>1. Cardinality({t}) = 1
      BY FS_Singleton
    <3> QED BY <2>3, <3>1
  <2>5. writeCnt' = Cardinality(Writers') /\ state' \in [Users -> States] /\ writeCnt' \in Nat
    BY <1>2, <2>1
  <2>6. writeFlag' = (In("writing")' # {})
    BY <2>1, <2>3
  <2> QED
    BY <2>1, <2>3, <2>4, <2>5, <2>6 DEF LockExclusive, LockTypeOK
<1>4. CASE ~MayWrite
  <2>1. Go(t, "sleepWrite") /\ UNCHANGED <<writeFlag, readCnt>>
    BY <1>4 DEF TestWrite
  <2>2. In("reading")' = In("reading") /\ In("writing")' = In("writing")
    BY <1>2, <2>1
  <2>3. writeCnt' = Cardinality(Writers') /\ state' \in [Users -> States] /\ writeCnt' \in Nat
    BY <1>2, <2>1
  <2> QED
    BY <2>1, <2>2, <2>3 DEF LockExclusive, LockTypeOK
<1> QED
  BY <1>3, <1>4

\* A reader leaves, and may wake a writer that waits.
LEMMA ReaderLeft ==
    ASSUME LockInv, NEW t \in Users, UnLockRead(t)
    PROVE  LockInv'
<1> USE SetsFinite DEF LockInv
<1>1. t \in In("reading") /\ t \notin In("writing") /\ t \notin Writers
  BY DEF UnLockRead, In, Writers
<1>2. PICK woken \in IF readCnt' = 0 /\ writeCnt > 0 THEN NotifyOne("sleepWrite") ELSE {{}} :
        Move(t, "out", woken, "wakeWrite")
  BY DEF UnLockRead
<1>3. woken \subseteq In("sleepWrite")
  BY <1>2 DEF NotifyOne
<1>4. Moved(t, "out")
  BY <1>2, <1>3, NotifyMoves DEF States
<1>5. /\ In("reading")' = In("reading") \ {t}
      /\ In("writing")' = In("writing") \ {t}
      /\ Writers' = Writers \ {t}
  BY <1>4, SetsMoved DEF States
<1>6. In("writing")' = In("writing") /\ Writers' = Writers
  BY <1>1, <1>5
<1>7. readCnt' = Cardinality(In("reading")') /\ readCnt' \in Nat
  BY <1>1, <1>5, CountOne DEF UnLockRead, LockExclusive
<1>8. UNCHANGED <<writeCnt, writeFlag, guards>>
  BY DEF UnLockRead
<1> QED
  BY <1>4, <1>5, <1>6, <1>7, <1>8 DEF LockExclusive, Moved, LockTypeOK

\* The writer leaves, and wakes the readers or the next writer.
LEMMA WriterLeft ==
    ASSUME LockInv, NEW t \in Users, UnLockWrite(t)
    PROVE  LockInv'
<1> USE SetsFinite DEF LockInv
<1>1. t \notin In("reading") /\ t \in In("writing") /\ t \in Writers
  BY DEF UnLockWrite, In, Writers
<1>2. Moved(t, "out")
  <2>1. CASE writeCnt' = 0
    <3>1. Move(t, "out", In("sleepRead"), "wakeRead")
      BY <2>1 DEF UnLockWrite, NotifyAll
    <3> QED BY <3>1, NotifyMoves DEF States
  <2>2. CASE writeCnt' # 0
    <3>1. PICK woken \in NotifyOne("sleepWrite") : Move(t, "out", woken, "wakeWrite")
      BY <2>2 DEF UnLockWrite
    <3>2. woken \subseteq In("sleepWrite")
      BY <3>1 DEF NotifyOne
    <3> QED BY <3>1, <3>2, NotifyMoves DEF States
  <2> QED BY <2>1, <2>2
<1>3. /\ In("reading")' = In("reading") \ {t}
      /\ In("writing")' = In("writing") \ {t}
      /\ Writers' = Writers \ {t}
  BY <1>2, SetsMoved DEF States
<1>4. In("reading")' = In("reading") /\ In("writing")' = {}
  BY <1>1, <1>3, CountersTell
<1>5. writeCnt' = Cardinality(Writers') /\ writeCnt' \in Nat
  <2>1. writeCnt' = writeCnt - 1 /\ writeCnt = Cardinality(Writers)
    BY DEF UnLockWrite, LockExclusive
  <2>2. Cardinality(Writers \ {t}) = Cardinality(Writers) - 1 /\ Cardinality(Writers) > 0
    BY <1>1, CountOne
  <2> QED BY <1>3, <2>1, <2>2
<1>6. Cardinality(In("writing")') <= 1
  BY <1>4, FS_EmptySet
<1>7. writeFlag' = FALSE /\ UNCHANGED <<readCnt, guards>>
  BY DEF UnLockWrite
<1>8. writeFlag' = (In("writing")' # {}) /\ writeFlag' \in BOOLEAN
  BY <1>4, <1>7
<1> QED
  BY <1>2, <1>4, <1>5, <1>6, <1>7, <1>8 DEF LockExclusive, Moved, LockTypeOK

\* A sleeper that wakes for no reason is still no holder, and still counted.
LEMMA SleeperWoke ==
    ASSUME LockInv, NEW t \in Users, WakeSpurious(t)
    PROVE  LockInv'
<1> USE DEF LockInv
<1>1. UNCHANGED <<readCnt, writeCnt, writeFlag, guards>>
  BY DEF WakeSpurious
<1>2. PICK s \in {"wakeRead", "wakeWrite"} :
        Go(t, s) /\ state[t] = IF s = "wakeRead" THEN "sleepRead" ELSE "sleepWrite"
  BY DEF WakeSpurious
<1>3. Moved(t, s)
  BY <1>2, GoMoves DEF States
<1>4. /\ In("reading")' = In("reading") \ {t}
      /\ In("writing")' = In("writing") \ {t}
      /\ Writers' = IF s = "wakeWrite" THEN Writers \cup {t} ELSE Writers \ {t}
  BY <1>2, <1>3, SetsMoved DEF States
<1>5. In("reading")' = In("reading") /\ In("writing")' = In("writing") /\ Writers' = Writers
  BY <1>2, <1>4 DEF In, Writers
<1> QED
  BY <1>1, <1>3, <1>5 DEF LockExclusive, Moved, LockTypeOK

\* Nobody holds or wants a new lock.
LEMMA InitLock == LockInit => LockInv
<1> SUFFICES ASSUME LockInit PROVE LockInv
  OBVIOUS
<1>1. writeFlag = FALSE /\ writeFlag \in BOOLEAN
  BY Zenon DEF LockInit
<1>2. /\ readCnt = 0 /\ writeCnt = 0
      /\ state = [t \in Users |-> "out"] /\ guards = [t \in Users |-> 0]
  BY Zenon DEF LockInit
<1>3. LockTypeOK
  <2>1. readCnt \in Nat /\ writeCnt \in Nat /\ "out" \in States
    BY <1>2 DEF States
  <2>2. guards \in [Users -> 0 .. MaxGuards]
    BY <1>2, LockAssumption
  <2> QED BY <1>1, <1>2, <2>1, <2>2 DEF LockTypeOK
<1>4. In("reading") = {} /\ In("writing") = {} /\ Writers = {}
  BY <1>2 DEF In, Writers
<1>5. Cardinality({}) = 0
  BY FS_EmptySet
<1>6. writeFlag = (In("writing") # {})
  BY <1>1, <1>4
<1> QED
  BY <1>2, <1>3, <1>4, <1>5, <1>6 DEF LockInv, LockExclusive

\* Every step keeps LockInv.
LEMMA NextLock == LockInv /\ [LockNext]_lockVars => LockInv'
<1> SUFFICES ASSUME LockInv, [LockNext]_lockVars PROVE LockInv'
  OBVIOUS
<1>1. ASSUME NEW t \in Users, TakeGuard(t)
      PROVE  guards' \in [Users -> 0 .. MaxGuards] /\ state[t] = "out"
  BY <1>1, LockAssumption DEF TakeGuard, LockInv, LockTypeOK
<1>2. ASSUME NEW t \in Users, LockRead(t) PROVE LockInv'
  <2>1. TakeGuard(t) /\ TestRead(t)
    BY <1>2 DEF LockRead
  <2> QED
    BY <1>1, <2>1, ReadTested DEF LockInv, LockTypeOK, TestRead
<1>3. ASSUME NEW t \in Users, LockWrite(t) PROVE LockInv'
  <2>1. TakeGuard(t) /\ TestWrite(t) /\ writeCnt' = writeCnt + 1
    BY <1>3 DEF LockWrite
  <2> QED
    BY <1>1, <2>1, WriteTested DEF LockInv, LockTypeOK
<1>4. ASSUME NEW t \in Users, WakeRead(t) PROVE LockInv'
  BY <1>4, ReadTested DEF LockInv, LockTypeOK, TestRead, WakeRead
<1>5. ASSUME NEW t \in Users, WakeWrite(t) PROVE LockInv'
  BY <1>5, WriteTested DEF LockInv, LockTypeOK, WakeWrite
<1>6. CASE UNCHANGED lockVars
  BY <1>6 DEF lockVars, LockInv, LockExclusive, LockTypeOK, In, Writers
<1> QED
  BY <1>2, <1>3, <1>4, <1>5, <1>6, ReaderLeft, WriterLeft, SleeperWoke DEF LockNext, Proceeds

-------------------------------------------------------------------------------
\* A thread that writes is alone with the lock, and readCnt_, writeCnt_ and
\* writeFlag_ count exactly the threads that read, that write or wait to, and
\* that write, for any number of threads and through every wake-up.
THEOREM WritersAlone == LockSpec => []LockExclusive
<1>1. LockInv => LockExclusive
  BY DEF LockInv
<1> QED
  BY InitLock, NextLock, <1>1, PTL DEF LockSpec

-------------------------------------------------------------------------------
(* The thread pool and its workers. *)

(* Sequences without repetitions. *)

\* An element is added at the end.
LEMMA AddLast ==
    ASSUME NEW S, NEW s \in Seq(S), NEW x \in S
    PROVE  /\ Append(s, x) \in Seq(S) /\ ToSet(Append(s, x)) = ToSet(s) \cup {x}
           /\ IsInjective(s) /\ x \notin ToSet(s) => IsInjective(Append(s, x))
<1>1. /\ Append(s, x) \in Seq(S) /\ Len(s) \in Nat
      /\ DOMAIN s = 1 .. Len(s) /\ DOMAIN Append(s, x) = 1 .. Len(s) + 1
      /\ Append(s, x)[Len(s) + 1] = x
      /\ \A i \in DOMAIN s : Append(s, x)[i] = s[i]
  OBVIOUS
<1>2. DOMAIN Append(s, x) = DOMAIN s \cup {Len(s) + 1}
  BY <1>1
<1>3. ToSet(Append(s, x)) = ToSet(s) \cup {x}
  BY <1>1, <1>2, Zenon DEF ToSet
<1>4. ASSUME IsInjective(s), x \notin ToSet(s) PROVE IsInjective(Append(s, x))
  <2>1. \A i \in DOMAIN s : s[i] # x
    BY <1>4 DEF ToSet
  <2> QED
    BY <1>1, <1>2, <1>4, <2>1, Zenon DEF IsInjective
<1> QED
  BY <1>1, <1>3, <1>4

\* The first element is taken.
LEMMA TakeFirst ==
    ASSUME NEW S, NEW s \in Seq(S), s # << >>, IsInjective(s)
    PROVE  /\ Head(s) \in ToSet(s) /\ Head(s) \in S /\ Tail(s) \in Seq(S) /\ IsInjective(Tail(s))
           /\ ToSet(Tail(s)) = ToSet(s) \ {Head(s)}
<1>1. /\ Tail(s) \in Seq(S) /\ Head(s) = s[1] /\ 1 \in DOMAIN s /\ Head(s) \in S
      /\ \A i \in DOMAIN Tail(s) : i + 1 \in DOMAIN s /\ Tail(s)[i] = s[i + 1]
      /\ \A i \in DOMAIN s : i = 1 \/ (i - 1 \in DOMAIN Tail(s) /\ Tail(s)[i - 1] = s[i])
      /\ DOMAIN Tail(s) \subseteq Nat \ {0}
  OBVIOUS
<1>2. \A i \in DOMAIN Tail(s) : Tail(s)[i] \in ToSet(s) \ {Head(s)}
  BY <1>1 DEF ToSet, IsInjective
<1>3. ASSUME NEW y \in ToSet(s) PROVE y = Head(s) \/ y \in ToSet(Tail(s))
  <2>1. PICK i \in DOMAIN s : y = s[i]
    BY DEF ToSet
  <2>2. CASE i = 1
    BY <1>1, <2>1, <2>2
  <2>3. CASE i # 1
    <3>1. i - 1 \in DOMAIN Tail(s) /\ Tail(s)[i - 1] = y
      BY <1>1, <2>1, <2>3
    <3> QED
      BY <3>1, Zenon DEF ToSet
  <2> QED
    BY <2>2, <2>3
<1>4. ToSet(Tail(s)) = {Tail(s)[i] : i \in DOMAIN Tail(s)}
  BY DEF ToSet
<1>5. ToSet(Tail(s)) = ToSet(s) \ {Head(s)}
  BY <1>2, <1>3, <1>4
<1>6. IsInjective(Tail(s))
  BY <1>1 DEF IsInjective
<1> QED
  BY <1>1, <1>5, <1>6 DEF ToSet

\* One element is taken out.
LEMMA TakeOut ==
    ASSUME NEW S, NEW s \in Seq(S), NEW i \in DOMAIN s, IsInjective(s)
    PROVE  /\ RemoveAt(s, i) \in Seq(S) /\ IsInjective(RemoveAt(s, i))
           /\ ToSet(RemoveAt(s, i)) = ToSet(s) \ {s[i]}
<1> DEFINE a == SubSeq(s, 1, i - 1)
           b == SubSeq(s, i + 1, Len(s))
           r == a \o b
           old(j) == IF j < i THEN j ELSE j + 1
<1>1. Len(s) \in Nat /\ DOMAIN s = 1 .. Len(s) /\ i \in 1 .. Len(s)
  OBVIOUS
<1>2. a \in Seq(S) /\ Len(a) = i - 1 /\ \A j \in 1 .. i - 1 : a[j] = s[j]
  BY <1>1
<1>3. b \in Seq(S) /\ Len(b) = Len(s) - i /\ \A j \in 1 .. Len(s) - i : b[j] = s[j + i]
  BY <1>1
<1>4. RemoveAt(s, i) = r
  BY DEF RemoveAt
<1> HIDE DEF a, b
<1>5. /\ r \in Seq(S) /\ Len(r) = Len(a) + Len(b)
      /\ \A j \in 1 .. Len(a) + Len(b) : r[j] = IF j <= Len(a) THEN a[j] ELSE b[j - Len(a)]
  BY <1>2, <1>3, ConcatProperties, Zenon
<1> HIDE DEF r
<1>6. DOMAIN r = 1 .. Len(s) - 1
  <2>1. Len(r) = Len(s) - 1
    BY <1>1, <1>2, <1>3, <1>5
  <2>2. DOMAIN r = 1 .. Len(r)
    BY <1>5, LenProperties, Zenon
  <2> QED
    BY <2>1, <2>2
<1>7. ASSUME NEW j \in DOMAIN r PROVE r[j] = s[old(j)]
  <2>1. CASE j < i
    BY <1>1, <1>2, <1>3, <1>5, <1>6, <2>1
  <2>2. CASE ~(j < i)
    <3>1. j - (i - 1) \in 1 .. Len(s) - i /\ r[j] = b[j - (i - 1)]
      <4>1. /\ j - (i - 1) \in 1 .. Len(s) - i /\ j \in 1 .. (i - 1) + (Len(s) - i)
            /\ ~(j <= i - 1)
        BY <1>1, <1>6, <2>2
      <4> QED
        BY <1>2, <1>3, <1>5, <4>1
    <3>2. b[j - (i - 1)] = s[(j - (i - 1)) + i]
      BY <1>3, <3>1
    <3>3. (j - (i - 1)) + i = j + 1
      BY <1>1, <1>6
    <3> QED
      BY <2>2, <3>1, <3>2, <3>3
  <2> QED
    BY <2>1, <2>2
<1>8. /\ \A j \in DOMAIN r : old(j) \in DOMAIN s /\ old(j) # i
      /\ \A j, k \in DOMAIN r : old(j) = old(k) => j = k
  BY <1>1, <1>6
<1>9. ASSUME NEW j \in DOMAIN s, j # i PROVE \E k \in DOMAIN r : old(k) = j
  <2>1. CASE j < i
    BY <1>1, <1>6, <2>1
  <2>2. CASE j > i
    <3>1. j - 1 \in DOMAIN r /\ old(j - 1) = j
      BY <1>1, <1>6, <2>2
    <3> QED
      BY <3>1
  <2> QED
    BY <1>1, <1>9, <2>1, <2>2
<1> HIDE DEF old
<1>10. IsInjective(r)
  BY <1>7, <1>8 DEF IsInjective
<1>11. ToSet(r) = {r[j] : j \in DOMAIN r} /\ ToSet(s) = {s[j] : j \in DOMAIN s}
  BY DEF ToSet
<1>12. \A j \in DOMAIN r : r[j] \in ToSet(s) /\ r[j] # s[i]
  BY <1>7, <1>8, <1>11 DEF IsInjective
<1>13. ToSet(s) \ {s[i]} \subseteq ToSet(r)
  BY <1>7, <1>9, <1>11
<1>14. ToSet(r) \subseteq ToSet(s) \ {s[i]}
  BY <1>11, <1>12
<1> QED
  BY <1>4, <1>5, <1>10, <1>13, <1>14

\* Two sequences one after the other repeat nothing if neither does and they
\* have nothing in common.
LEMMA Joint ==
    ASSUME NEW S, NEW s \in Seq(S), NEW u \in Seq(S)
    PROVE  /\ s \o u \in Seq(S) /\ ToSet(s \o u) = ToSet(s) \cup ToSet(u)
           /\ IsInjective(s \o u) <=>
                 (IsInjective(s) /\ IsInjective(u) /\ ToSet(s) \cap ToSet(u) = {})
<1> DEFINE c == s \o u
           n == Len(s)
<1>1. /\ n \in Nat /\ Len(u) \in Nat /\ DOMAIN s = 1 .. n /\ DOMAIN u = 1 .. Len(u)
      /\ c \in Seq(S) /\ DOMAIN c = 1 .. n + Len(u)
      /\ \A j \in 1 .. n + Len(u) : c[j] = IF j <= n THEN s[j] ELSE u[j - n]
  <2>1. /\ c \in Seq(S) /\ Len(c) = n + Len(u)
        /\ \A j \in 1 .. n + Len(u) : c[j] = IF j <= n THEN s[j] ELSE u[j - n]
    BY ConcatProperties, Zenon
  <2>2. DOMAIN c = 1 .. Len(c)
    BY <2>1, LenProperties, Zenon
  <2> QED
    BY <2>1, <2>2
<1> HIDE DEF c
<1>2. /\ \A j \in DOMAIN s : j \in DOMAIN c /\ c[j] = s[j]
      /\ \A j \in DOMAIN u : n + j \in DOMAIN c /\ c[n + j] = u[j]
      /\ \A j \in DOMAIN c : j \in DOMAIN s \/ (j - n \in DOMAIN u /\ c[j] = u[j - n] /\ j = n + (j - n))
      /\ \A j \in DOMAIN s, k \in DOMAIN u : j # n + k
      /\ \A j, k \in DOMAIN u : n + j = n + k => j = k
  <2>1. \A j \in DOMAIN u : n + j \in DOMAIN c /\ ~(n + j <= n) /\ (n + j) - n = j
    BY <1>1
  <2>2. \A j \in DOMAIN u : c[n + j] = u[j]
    BY <1>1, <2>1
  <2> QED
    BY <1>1, <2>1, <2>2
<1> HIDE DEF n
<1>3. ToSet(c) = ToSet(s) \cup ToSet(u)
  <2>1. \A j \in DOMAIN c : c[j] \in ToSet(s) \cup ToSet(u)
    BY <1>2 DEF ToSet
  <2>2. ToSet(s) \subseteq ToSet(c) /\ ToSet(u) \subseteq ToSet(c)
    BY <1>2 DEF ToSet
  <2>3. ToSet(c) = {c[j] : j \in DOMAIN c}
    BY DEF ToSet
  <2> QED
    BY <2>1, <2>2, <2>3
<1>4. ASSUME IsInjective(c)
      PROVE  IsInjective(s) /\ IsInjective(u) /\ ToSet(s) \cap ToSet(u) = {}
  <2>1. IsInjective(s)
    BY <1>2, <1>4 DEF IsInjective
  <2>2. IsInjective(u)
    BY <1>2, <1>4 DEF IsInjective
  <2>3. \A j \in DOMAIN s, k \in DOMAIN u : s[j] # u[k]
    BY <1>2, <1>4 DEF IsInjective
  <2>4. ToSet(s) \cap ToSet(u) = {}
    BY <2>3 DEF ToSet
  <2> QED
    BY <2>1, <2>2, <2>4
<1>5. ASSUME IsInjective(s), IsInjective(u), ToSet(s) \cap ToSet(u) = {}
      PROVE  IsInjective(c)
  <2>1. \A j \in DOMAIN s, k \in DOMAIN u : s[j] # u[k]
    BY <1>5 DEF ToSet
  <2> SUFFICES ASSUME NEW j \in DOMAIN c, NEW k \in DOMAIN c, c[j] = c[k] PROVE j = k
    BY DEF IsInjective
  <2>2. CASE j \in DOMAIN s /\ k \in DOMAIN s
    BY <1>2, <1>5, <2>2 DEF IsInjective
  <2>3. CASE j \notin DOMAIN s /\ k \notin DOMAIN s
    BY <1>2, <1>5, <2>3 DEF IsInjective
  <2> QED
    BY <1>2, <2>1, <2>2, <2>3
<1> QED
  BY <1>1, <1>3, <1>4, <1>5 DEF c

-------------------------------------------------------------------------------
(* PoolInv: what the calls do to the lists and to the owners. *)

\* Pop gives out a Thread that was not busy, and that no owner has.
LEMMA Popped ==
    ASSUME PoolInv, call = "none", NEW t \in Threads, Pop(t)
    PROVE  /\ busy' \in Seq(Threads) /\ idle' \in Seq(Threads) /\ IsInjective(busy' \o idle')
           /\ ToSet(busy') = ToSet(busy) \cup {t} /\ t \notin ToSet(busy)
           /\ \A o \in Owners : Has(o) => owned[o].thread # t
<1>1. busy \in Seq(Threads) /\ idle \in Seq(Threads) /\ IsInjective(busy \o idle)
  BY DEF PoolInv, TypeOK
<1>2. IsInjective(busy) /\ IsInjective(idle) /\ ToSet(busy) \cap ToSet(idle) = {}
  BY <1>1, Joint
<1>3. busy' = Append(busy, t)
  BY DEF Pop
<1>4. /\ t \notin ToSet(busy) /\ idle' \in Seq(Threads) /\ IsInjective(idle')
      /\ ToSet(idle') \subseteq ToSet(idle) \ {t}
  <2>1. CASE idle = << >>
    <3>1. t \in Threads \ ToSet(busy) /\ idle' = idle
      <4>1. Threads \ ToSet(busy) # {} /\ t = (CHOOSE u \in Threads \ ToSet(busy) : TRUE) /\ idle' = idle
        BY <2>1 DEF Pop
      <4> QED
        BY <4>1
    <3>2. ToSet(idle) = {}
      BY <2>1 DEF ToSet
    <3> QED
      BY <1>1, <1>2, <3>1, <3>2
  <2>2. CASE idle # << >>
    <3>1. t = Head(idle) /\ idle' = Tail(idle)
      BY <2>2 DEF Pop
    <3> QED
      BY <1>1, <1>2, <2>2, <3>1, TakeFirst
  <2> QED
    BY <2>1, <2>2
<1>5. busy' \in Seq(Threads) /\ ToSet(busy') = ToSet(busy) \cup {t} /\ IsInjective(busy')
  BY <1>1, <1>2, <1>3, <1>4, AddLast
<1>6. ToSet(busy') \cap ToSet(idle') = {}
  BY <1>2, <1>4, <1>5
<1>7. IsInjective(busy' \o idle')
  BY <1>4, <1>5, <1>6, Joint
<1>8. \A o \in Owners : Has(o) => owned[o].thread \in ToSet(busy)
  BY DEF PoolInv, BusyOwned
<1> QED
  BY <1>4, <1>5, <1>7, <1>8

\* Push finds the Thread it is about, although it looks for its thread id only.
LEMMA Erased ==
    ASSUME PoolInv, call = "erase"
    PROVE  /\ EraseBusy(arg) \in Seq(Threads) /\ Append(idle, arg) \in Seq(Threads)
           /\ IsInjective(EraseBusy(arg) \o Append(idle, arg))
           /\ ToSet(EraseBusy(arg)) = ToSet(busy) \ {arg}
<1>1. /\ busy \in Seq(Threads) /\ idle \in Seq(Threads) /\ IsInjective(busy \o idle)
      /\ arg \in Threads /\ arg \in ToSet(busy)
  BY DEF PoolInv, TypeOK, CallFits, Pushing, BusyOwned
<1>2. IsInjective(busy) /\ IsInjective(idle) /\ ToSet(busy) \cap ToSet(idle) = {}
  BY <1>1, Joint
<1>3. PICK i \in DOMAIN busy : busy[i] = arg
  BY <1>1 DEF ToSet
<1>4. ASSUME NEW u \in ToSet(busy), handle[u] = handle[arg] PROVE u = arg
  <2>1. CASE handle[arg] # None
    <3>1. u \in Threads
      BY <1>1 DEF ToSet
    <3> QED
      BY <1>1, <1>4, <2>1, <3>1 DEF PoolInv, HandlesApart
  <2>2. CASE handle[arg] = None
    <3>1. CASE u # arg
      <4>1. PICK o \in Owners : Has(o) /\ u = owned[o].thread
        BY <3>1 DEF PoolInv, BusyOwned, Pushing
      <4>2. handle[u] = owned[o].worker \/ who = o
        BY <4>1 DEF PoolInv, HandlesApart
      <4>3. owned[o].worker # None
        BY <4>1, ThreadAssumption DEF PoolInv, TypeOK, Has
      <4>4. who = o => u = arg
        BY <4>1 DEF PoolInv, CallFits
      <4> QED
        BY <1>4, <2>2, <4>2, <4>3, <4>4
    <3> QED
      BY <3>1
  <2> QED
    BY <2>1, <2>2
<1>5. EraseBusy(arg) = RemoveAt(busy, i)
  <2> DEFINE I == {j \in 1 .. Len(busy) : handle[busy[j]] = handle[arg]}
  <2>1. DOMAIN busy = 1 .. Len(busy)
    BY <1>1
  <2>2. I = {i}
    <3>1. i \in I
      BY <1>3, <2>1
    <3>2. ASSUME NEW j \in I PROVE j = i
      <4>1. j \in DOMAIN busy /\ busy[j] \in ToSet(busy)
        BY <2>1 DEF ToSet
      <4>2. busy[j] = arg
        BY <1>4, <4>1
      <4> QED
        BY <1>2, <1>3, <4>1, <4>2 DEF IsInjective
    <3> QED
      BY <3>1, <3>2
  <2>3. i \in Nat /\ i # 0
    BY <1>1
  <2>4. Min({i}) = i
    BY <2>3 DEF Min
  <2>5. SelectInSeq(busy, LAMBDA u : handle[u] = handle[arg]) = IF I # {} THEN Min(I) ELSE 0
    BY DEF SelectInSeq
  <2> HIDE DEF I
  <2> QED
    BY <2>2, <2>3, <2>4, <2>5 DEF EraseBusy
<1>6. /\ EraseBusy(arg) \in Seq(Threads) /\ IsInjective(EraseBusy(arg))
      /\ ToSet(EraseBusy(arg)) = ToSet(busy) \ {arg}
  BY <1>1, <1>2, <1>3, <1>5, TakeOut
<1>7. /\ Append(idle, arg) \in Seq(Threads) /\ ToSet(Append(idle, arg)) = ToSet(idle) \cup {arg}
      /\ IsInjective(Append(idle, arg))
  BY <1>1, <1>2, AddLast
<1>8. ToSet(EraseBusy(arg)) \cap ToSet(Append(idle, arg)) = {}
  BY <1>2, <1>6, <1>7
<1> QED
  BY <1>6, <1>7, <1>8, Joint

\* StartThread creates the pthread: the owner gets a Thread and a worker.
LEMMA StartPool ==
    ASSUME PoolInv, NEW o \in Owners, Start(o)
    PROVE  PoolInv'
<1>1. PICK t \in Threads, p \in Pthreads :
        /\ CreateOneThread(p) /\ Pop(t)
        /\ status' = [status EXCEPT ![t] = "PREPARED"]
        /\ handle' = [handle EXCEPT ![t] = p]
        /\ owned' = [owned EXCEPT ![o] = [thread |-> t, worker |-> p]]
        /\ workers' = workers \cup {p}
        /\ at' = [at EXCEPT ![p] = "created"]
        /\ on' = [on EXCEPT ![p] = t]
        /\ by' = [by EXCEPT ![p] = o]
        /\ call' = "starting" /\ arg' = t /\ who' = o
  BY DEF Start
<1>2. call = "none" /\ owned[o] = Nothing /\ UNCHANGED <<running, quit, late>> /\ who = None
  BY DEF Start, MayStart, PoolInv, CallFits
<1>3. at[p] = "none"
  BY <1>1 DEF CreateOneThread
<1>4. /\ busy' \in Seq(Threads) /\ idle' \in Seq(Threads) /\ IsInjective(busy' \o idle')
      /\ ToSet(busy') = ToSet(busy) \cup {t} /\ t \notin ToSet(busy)
      /\ \A u \in Owners : Has(u) => owned[u].thread # t
  BY <1>1, <1>2, Popped
<1>5. TypeOK
  BY DEF PoolInv
<1>6. TypeOK'
  BY <1>1, <1>2, <1>4, <1>5 DEF TypeOK
<1>7. [thread |-> t, worker |-> p] # Nothing
  BY ThreadAssumption DEF Nothing
<1>8. /\ Has(o)' /\ owned'[o].thread = t /\ owned'[o].worker = p
      /\ \A u \in Owners \ {o} : owned'[u] = owned[u] /\ (Has(u)' <=> Has(u))
      /\ ~Has(o)
  BY <1>1, <1>2, <1>5, <1>7 DEF TypeOK, Has
<1>9. /\ on'[p] = t /\ by'[p] = o /\ at'[p] = "created" /\ handle'[t] = p
      /\ \A q \in Pthreads \ {p} : at'[q] = at[q] /\ on'[q] = on[q] /\ by'[q] = by[q]
      /\ \A u \in Threads \ {t} : handle'[u] = handle[u]
  BY <1>1, <1>5 DEF TypeOK
<1>10. \A u \in Owners : Has(u) =>
          owned[u].worker \in Pthreads \ {p} /\ owned[u].thread \in Threads \ {t}
  BY <1>3, <1>4, <1>5 DEF PoolInv, OwnersApart, TypeOK, Has
<1>11. OwnersApart'
  <2>1. \A u \in Owners : Has(u)' =>
           /\ at'[owned'[u].worker] # "none" /\ on'[owned'[u].worker] = owned'[u].thread
           /\ by'[owned'[u].worker] = u
    BY <1>8, <1>9, <1>10 DEF PoolInv, OwnersApart
  <2>2. \A v, u \in Owners : (v # u /\ Has(v)' /\ Has(u)') => owned'[v].thread # owned'[u].thread
    BY <1>8, <1>10 DEF PoolInv, OwnersApart
  <2>3. workers' = {owned'[u].worker : u \in {v \in Owners : Has(v)'}}
    <3>1. workers = {owned[u].worker : u \in {v \in Owners : Has(v)}}
      BY DEF PoolInv, OwnersApart
    <3> QED
      BY <1>1, <1>8, <3>1
  <2> QED
    BY <2>1, <2>2, <2>3 DEF OwnersApart
<1>12. CallFits'
  BY <1>1, <1>8, ThreadAssumption DEF CallFits, OfOwner, Pushing
<1>13. HandlesApart'
  <2>1. \A u \in Threads : handle'[u] # None => at'[handle'[u]] # "none" /\ on'[handle'[u]] = u
    <3>1. \A u \in Threads : handle[u] # None => handle[u] \in Pthreads /\ handle[u] # p
      BY <1>3, <1>5 DEF PoolInv, HandlesApart, TypeOK
    <3> QED
      BY <1>9, <3>1 DEF PoolInv, HandlesApart
  <2>2. \A u \in Owners : Has(u) => handle[owned[u].thread] = owned[u].worker
    BY <1>2, ThreadAssumption DEF PoolInv, HandlesApart
  <2>3. \A u \in Owners : Has(u)' => handle'[owned'[u].thread] = owned'[u].worker
    BY <1>8, <1>9, <1>10, <2>2
  <2> QED
    BY <2>1, <2>3 DEF HandlesApart
<1>14. BusyOwned'
  <2>1. ToSet(busy) = {owned[u].thread : u \in {v \in Owners : Has(v)}}
    BY <1>2 DEF PoolInv, BusyOwned, Pushing
  <2>2. ToSet(busy') = {owned'[u].thread : u \in {v \in Owners : Has(v)'}}
    BY <1>4, <1>8, <2>1
  <2>3. ~Pushing'
    BY <1>1 DEF Pushing
  <2> QED
    BY <2>2, <2>3 DEF BusyOwned
<1> QED
  BY <1>4, <1>6, <1>11, <1>12, <1>13, <1>14 DEF PoolInv

\* StartThread fails: the Thread is busy until it is pushed.
LEMMA StartFailsPool ==
    ASSUME PoolInv, NEW o \in Owners, StartFails(o)
    PROVE  PoolInv'
<1>1. PICK t \in Threads :
        /\ Pop(t) /\ (status' = status \/ status' = [status EXCEPT ![t] = "STOPPED"])
        /\ call' = "push" /\ arg' = t /\ who' = None
  BY DEF StartFails
<1>2. /\ call = "none" /\ who = None
      /\ UNCHANGED <<running, handle, owned, workers, at, on, by, quit, late>>
  BY DEF StartFails, MayStart, PoolInv, CallFits, ptVars
<1>3. /\ busy' \in Seq(Threads) /\ idle' \in Seq(Threads) /\ IsInjective(busy' \o idle')
      /\ ToSet(busy') = ToSet(busy) \cup {t}
      /\ \A u \in Owners : Has(u) => owned[u].thread # t
  BY <1>1, <1>2, Popped
<1>4. TypeOK'
  BY <1>1, <1>2, <1>3 DEF PoolInv, TypeOK
<1>5. OwnersApart'
  BY <1>2 DEF PoolInv, OwnersApart, Has
<1>6. CallFits'
  BY <1>1, <1>2, <1>3, ThreadAssumption DEF CallFits, OfOwner, Pushing, Has
<1>7. HandlesApart'
  BY <1>1, <1>2, ThreadAssumption DEF PoolInv, HandlesApart, Has
<1>8. BusyOwned'
  BY <1>1, <1>2, <1>3 DEF PoolInv, BusyOwned, Pushing, Has
<1> QED
  BY <1>3, <1>4, <1>5, <1>6, <1>7, <1>8 DEF PoolInv

\* The other steps of the calls up to Push leave the lists and the owners alone;
\* a Thread that is joined forgets its pthread.
LEMMA CallPool ==
    ASSUME PoolInv, UNCHANGED <<poolVars, ptVars, status>>,
           \/ Started \/ StopThread \/ StopThreads
           \/ \E o \in Owners : Stop(o)
           \/ \E step \in {"stop", "push"} : StopWait(step) \/ WaitForEnd(step)
    PROVE  PoolInv'
<1>1. UNCHANGED <<busy, idle, owned, workers, at, on, by, quit, late, status>>
  BY DEF poolVars, ptVars
<1>2. TypeOK /\ OwnersApart /\ CallFits /\ HandlesApart /\ BusyOwned /\ IsInjective(busy \o idle)
  BY DEF PoolInv
<1>3. OwnersApart' /\ IsInjective(busy \o idle)'
  BY <1>1, <1>2 DEF OwnersApart, Has
<1>4. ASSUME running' \in [Threads -> BOOLEAN], handle' = handle,
             CallFits', call' \in {"none", "starting", "stop", "stopWait", "stopJoin",
                 "push", "pushWait", "pushJoin", "erase", "stopAll"},
             arg' \in Threads \cup {None}, who' \in Owners \cup {None}, call # "closed",
             Pushing => Pushing' /\ who' = who /\ arg' = arg,
             ~Pushing /\ Pushing' => who' \in Owners
      PROVE  PoolInv'
  <2>1. TypeOK'
    BY <1>1, <1>2, <1>4 DEF TypeOK
  <2>2. HandlesApart'
    BY <1>1, <1>2, <1>4 DEF HandlesApart, Has
  <2>3. BusyOwned'
    <3>1. CASE Pushing \/ ~Pushing'
      BY <1>1, <1>2, <1>4, <3>1 DEF BusyOwned, Has
    <3>2. CASE ~Pushing /\ Pushing'
      <4>1. Has(who') /\ arg' = owned[who'].thread /\ who' \in Owners
        BY <1>1, <1>4, <3>2 DEF CallFits, Has
      <4>2. arg' \in {owned[o].thread : o \in {u \in Owners : Has(u)}}
        BY <4>1
      <4>3. ToSet(busy) = {owned[o].thread : o \in {u \in Owners : Has(u)}}
        BY <1>2, <1>4, <3>2 DEF BusyOwned
      <4>4. {owned'[o].thread : o \in {u \in Owners : Has(u)'}} = {owned[o].thread : o \in {u \in Owners : Has(u)}}
        BY <1>1 DEF Has
      <4> QED
        BY <1>1, <3>2, <4>2, <4>3, <4>4 DEF BusyOwned
    <3> QED
      BY <3>1, <3>2
  <2> QED
    BY <1>3, <1>4, <2>1, <2>2, <2>3 DEF PoolInv
<1>5. CASE Started
  BY <1>1, <1>2, <1>4, <1>5, ThreadAssumption DEF Started, Return, threadVars, CallFits, OfOwner, Pushing, TypeOK, Has
<1>6. ASSUME NEW o \in Owners, Stop(o) PROVE PoolInv'
  <2>1. CallFits'
    BY <1>1, <1>2, <1>6, ThreadAssumption DEF Stop, CallFits, OfOwner, Pushing, TypeOK, Has
  <2> QED
    BY <1>1, <1>2, <1>4, <1>6, <2>1 DEF Stop, threadVars, OfOwner, Pushing, TypeOK, Has
<1>7. ASSUME NEW step \in {"stop", "push"}, StopWait(step) PROVE PoolInv'
  BY <1>1, <1>2, <1>4, <1>7 DEF StopWait, Waits, Joins, Goto, threadVars, CallFits, OfOwner, Pushing, TypeOK, Has
<1>8. CASE StopThread
  <2>1. running' \in [Threads -> BOOLEAN] /\ handle' = handle /\ who' = who /\ arg' = arg
    BY <1>2, <1>8 DEF StopThread, Goto, TypeOK
  <2>2. \/ call = "stop" /\ call' \in {"stopWait", "push"}
        \/ call = "push" /\ call' \in {"pushWait", "erase"}
    BY <1>8 DEF StopThread, Goto, Waits, After
  <2>3. CallFits'
    BY <1>1, <1>2, <2>1, <2>2 DEF CallFits, OfOwner, Pushing, Has
  <2> QED
    BY <1>2, <1>4, <2>1, <2>2, <2>3 DEF OfOwner, Pushing, TypeOK, CallFits
<1>9. CASE StopThreads
  <2>1. /\ running' \in [Threads -> BOOLEAN] /\ handle' = handle /\ who' = who /\ arg' = arg
        /\ call = "none" /\ call' = "stopAll"
    BY <1>2, <1>9 DEF StopThreads, TypeOK
  <2>2. CallFits'
    BY <1>1, <1>2, <2>1 DEF CallFits, OfOwner, Pushing, Has
  <2> QED
    BY <1>2, <1>4, <2>1, <2>2 DEF Pushing, TypeOK
<1>10. ASSUME NEW step \in {"stop", "push"}, WaitForEnd(step) PROVE PoolInv'
  <2>1. /\ handle' = [handle EXCEPT ![arg] = None] /\ running' = running
        /\ who' = who /\ arg' = arg
    BY <1>10 DEF WaitForEnd, Goto
  <2>2. (call = "stopJoin" /\ call' = "push") \/ (call = "pushJoin" /\ call' = "erase")
    BY <1>10 DEF WaitForEnd, Goto, Joins, After
  <2>3. arg \in Threads /\ (call = "stopJoin" => who \in Owners)
    BY <1>2, <2>2 DEF CallFits, OfOwner, Pushing
  <2>4. TypeOK'
    BY <1>1, <1>2, <2>1, <2>2 DEF TypeOK
  <2>5. CallFits'
    BY <1>1, <1>2, <2>1, <2>2 DEF CallFits, OfOwner, Pushing, Has
  <2>6. HandlesApart'
    <3>1. handle'[arg] = None /\ \A t \in Threads \ {arg} : handle'[t] = handle[t]
      BY <1>2, <2>1, <2>3 DEF TypeOK
    <3>2. \A t \in Threads : handle'[t] # None => at'[handle'[t]] # "none" /\ on'[handle'[t]] = t
      BY <1>1, <1>2, <3>1 DEF HandlesApart
    <3>3. ASSUME NEW o \in Owners, Has(o)
          PROVE  \/ handle'[owned[o].thread] = owned[o].worker
                 \/ handle'[owned[o].thread] = None /\ who' = o /\ Pushing'
      <4>1. owned[o].thread \in Threads
        BY <1>2, <3>3 DEF TypeOK, Has
      <4>2. CASE owned[o].thread = arg
        <5>1. who = o
          BY <1>2, <3>3, <4>2, <2>3, <2>2 DEF CallFits, OwnersApart, TypeOK
        <5> QED
          BY <2>1, <2>2, <3>1, <4>2, <5>1 DEF Pushing
      <4>3. CASE owned[o].thread # arg
        BY <1>2, <2>1, <2>2, <3>1, <3>3, <4>1, <4>3 DEF HandlesApart, Pushing
      <4> QED
        BY <4>2, <4>3
    <3> QED
      BY <1>1, <3>2, <3>3 DEF HandlesApart, Has
  <2>7. BusyOwned'
    <3>1. {owned'[o].thread : o \in {u \in Owners : Has(u)'}} = {owned[o].thread : o \in {u \in Owners : Has(u)}}
      BY <1>1 DEF Has
    <3>2. CASE call = "stopJoin"
      <4>1. arg \in {owned[o].thread : o \in {u \in Owners : Has(u)}}
        BY <1>2, <2>3, <3>2 DEF CallFits
      <4>2. ToSet(busy) = {owned[o].thread : o \in {u \in Owners : Has(u)}}
        BY <1>2, <3>2 DEF BusyOwned, Pushing
      <4> QED
        BY <1>1, <2>1, <3>1, <4>1, <4>2 DEF BusyOwned
    <3>3. CASE call = "pushJoin"
      BY <1>1, <1>2, <2>1, <2>2, <3>1, <3>3 DEF BusyOwned, Pushing
    <3> QED
      BY <2>2, <3>2, <3>3
  <2> QED
    BY <1>3, <2>4, <2>5, <2>6, <2>7 DEF PoolInv
<1> QED
  BY <1>5, <1>6, <1>7, <1>8, <1>9, <1>10

\* Push takes the Thread back, and its owner has none any more.
LEMMA PushPool ==
    ASSUME PoolInv, Push
    PROVE  PoolInv'
<1>1. /\ call = "erase" /\ busy' = EraseBusy(arg) /\ idle' = Append(idle, arg)
      /\ call' = "none" /\ arg' = None /\ who' = None
      /\ UNCHANGED <<running, status, handle, at, on, by, quit, late>>
  BY DEF Push, Return, threadVars, ptVars
<1>2. TypeOK /\ OwnersApart /\ CallFits /\ HandlesApart /\ BusyOwned
  BY DEF PoolInv
<1>3. /\ busy' \in Seq(Threads) /\ idle' \in Seq(Threads) /\ IsInjective(busy' \o idle')
      /\ ToSet(busy') = ToSet(busy) \ {arg} /\ arg \in Threads
  BY <1>1, <1>2, Erased DEF CallFits, Pushing
<1>4. /\ \A o \in Owners : Has(o)' <=> (Has(o) /\ o # who)
      /\ \A o \in Owners : Has(o)' => owned'[o] = owned[o]
      /\ owned' \in [Owners -> [thread : Threads, worker : Pthreads] \cup {Nothing}]
      /\ workers' = IF who = None THEN workers ELSE workers \ {owned[who].worker}
  <2>1. CASE who = None
    BY <1>2, <2>1, ThreadAssumption DEF Push, TypeOK, Has
  <2>2. CASE who # None
    <3>1. who \in Owners /\ owned' = [owned EXCEPT ![who] = Nothing]
      BY <1>2, <2>2 DEF Push, TypeOK
    <3>2. workers' = workers \ {owned[who].worker}
      BY <2>2 DEF Push
    <3> QED
      BY <1>2, <2>2, <3>1, <3>2 DEF TypeOK, Has
  <2> QED
    BY <2>1, <2>2
<1>5. TypeOK'
  BY <1>1, <1>2, <1>3, <1>4 DEF TypeOK
<1>6. who = None \/ (who \in Owners /\ Has(who) /\ arg = owned[who].thread)
  BY <1>2 DEF TypeOK, CallFits
<1>7. OwnersApart'
  <2>1. workers' = {owned'[o].worker : o \in {u \in Owners : Has(u)'}}
    <3>1. workers = {owned[o].worker : o \in {u \in Owners : Has(u)}}
      BY <1>2 DEF OwnersApart
    <3>2. \A o, u \in Owners : (Has(o) /\ Has(u) /\ owned[o].worker = owned[u].worker) => o = u
      BY <1>2 DEF OwnersApart
    <3>3. CASE who = None
      BY <1>2, <1>4, <3>1, <3>3, ThreadAssumption
    <3>4. CASE who \in Owners /\ Has(who)
      BY <1>4, <3>1, <3>2, <3>4, ThreadAssumption
    <3> QED
      BY <1>6, <3>3, <3>4
  <2>2. \A o \in Owners : Has(o)' => Has(o) /\ owned'[o] = owned[o]
    BY <1>4
  <2>3. \A o \in Owners : Has(o)' =>
           /\ at'[owned'[o].worker] # "none" /\ on'[owned'[o].worker] = owned'[o].thread
           /\ by'[owned'[o].worker] = o
    BY <1>1, <1>2, <2>2 DEF OwnersApart
  <2>4. \A o, u \in Owners : (o # u /\ Has(o)' /\ Has(u)') => owned'[o].thread # owned'[u].thread
    BY <1>2, <2>2 DEF OwnersApart
  <2> QED
    BY <2>1, <2>3, <2>4 DEF OwnersApart
<1>8. CallFits'
  BY <1>1, <1>4, <1>5, ThreadAssumption DEF CallFits, OfOwner, Pushing, TypeOK, Has
<1>9. HandlesApart'
  BY <1>1, <1>2, <1>4 DEF HandlesApart, Pushing
<1>10. BusyOwned'
  <2>1. ToSet(busy) = {owned[o].thread : o \in {u \in Owners : Has(u)}} \cup {arg}
    BY <1>1, <1>2 DEF BusyOwned, Pushing
  <2>2. \A o \in Owners : Has(o) => (owned[o].thread = arg <=> o = who)
    BY <1>2, <1>6, ThreadAssumption DEF CallFits, OwnersApart
  <2>3. ToSet(busy') = {owned'[o].thread : o \in {u \in Owners : Has(u)'}}
    BY <1>3, <1>4, <2>1, <2>2
  <2>4. ~Pushing'
    BY <1>1 DEF Pushing
  <2> QED
    BY <2>3, <2>4 DEF BusyOwned
<1> QED
  BY <1>3, <1>5, <1>7, <1>8, <1>9, <1>10 DEF PoolInv

\* The pool is closed: all Threads are idle, or all stay where they are.
LEMMA ClosePool ==
    ASSUME PoolInv, StopThreadsEnds
    PROVE  PoolInv'
<1>1. /\ call = "stopAll" /\ call' = "closed" /\ arg' = arg /\ who' = who
      /\ UNCHANGED <<running, status, owned, workers, at, on, by, quit, late>>
  BY DEF StopThreadsEnds, ptVars
<1>2. TypeOK /\ OwnersApart /\ CallFits /\ HandlesApart /\ BusyOwned /\ IsInjective(busy \o idle)
  BY DEF PoolInv
<1>3. \/ UNCHANGED <<handle, idle, busy>>
      \/ /\ handle' = [t \in Threads |-> IF t \in ToSet(busy) THEN None ELSE handle[t]]
         /\ idle' = idle \o busy /\ busy' = << >>
  BY DEF StopThreadsEnds
<1>4. busy' \in Seq(Threads) /\ idle' \in Seq(Threads) /\ IsInjective(busy' \o idle')
  <2>1. CASE UNCHANGED <<handle, idle, busy>>
    BY <1>2, <2>1 DEF TypeOK
  <2>2. CASE idle' = idle \o busy /\ busy' = << >>
    <3>1. busy \in Seq(Threads) /\ idle \in Seq(Threads)
      BY <1>2 DEF TypeOK
    <3>2. IsInjective(idle \o busy) /\ idle \o busy \in Seq(Threads)
      BY <1>2, <3>1, Joint
    <3>3. busy' \o idle' = idle \o busy
      BY <2>2, <3>1, <3>2
    <3> QED
      BY <2>2, <3>2, <3>3
  <2> QED
    BY <1>3, <2>1, <2>2
<1>5. /\ handle' \in [Threads -> Pthreads \cup {None}]
      /\ \A t \in Threads : handle'[t] = handle[t] \/ handle'[t] = None
  BY <1>2, <1>3 DEF TypeOK
<1>6. TypeOK'
  BY <1>1, <1>2, <1>4, <1>5 DEF TypeOK
<1>7. OwnersApart' /\ CallFits' /\ BusyOwned'
  BY <1>1, <1>2 DEF OwnersApart, CallFits, BusyOwned, OfOwner, Pushing, Has
<1>8. HandlesApart'
  <2>1. \A o \in Owners : Has(o) => owned[o].thread \in Threads /\ handle[owned[o].thread] = owned[o].worker
    BY <1>1, <1>2 DEF HandlesApart, Pushing, TypeOK, Has
  <2> QED
    BY <1>1, <1>2, <1>5, <2>1 DEF HandlesApart, Has
<1> QED
  BY <1>4, <1>6, <1>7, <1>8 DEF PoolInv

\* A pthread changes nothing of it.
LEMMA PthreadPool ==
    ASSUME PoolInv, NEW p \in Pthreads, Pthread(p) \/ Quits(p)
    PROVE  PoolInv'
<1>1. TypeOK /\ OwnersApart /\ CallFits /\ HandlesApart /\ BusyOwned /\ IsInjective(busy \o idle)
  BY DEF PoolInv
<1>2. PICK to \in {"armed", "init", "loop", "ended", "uninit", "exit", "done"} :
         at[p] # "none" /\ at' = [at EXCEPT ![p] = to]
  BY DEF Pthread, Quits, Execute, Initialize, LoopEnds, SetsStopped, Uninitialize, PtGoto
<1>3. UNCHANGED <<handle, busy, idle, owned, workers, on, by, call, arg, who>>
  BY DEF Pthread, Quits, Execute, Initialize, LoopEnds, SetsStopped, Uninitialize,
         threadVars, poolVars, callVars
<1>4. \A q \in Pthreads : at'[q] = "none" <=> at[q] = "none"
  BY <1>1, <1>2 DEF TypeOK
<1>5. TypeOK'
  <2>1. at' \in [Pthreads -> {"none", "created", "armed", "init", "loop", "ended", "uninit", "exit", "done"}]
    BY <1>1, <1>2 DEF TypeOK
  <2>2. quit' \subseteq Pthreads
    BY <1>1 DEF Pthread, Quits, Execute, Initialize, LoopEnds, SetsStopped, Uninitialize, TypeOK
  <2>3. late' \in BOOLEAN
    <3>1. late \in BOOLEAN
      BY <1>1, Zenon DEF TypeOK
    <3>2. late' = late \/ late' = (late \/ handle[on[p]] # p)
      BY Zenon DEF Pthread, Quits, Execute, Initialize, LoopEnds, SetsStopped, Uninitialize
    <3> QED
      BY <3>1, <3>2
  <2>4. /\ running' \in [Threads -> BOOLEAN]
        /\ status' \in [Threads -> {"STOPPED", "PREPARED", "RUNNING"}]
    <3>1. /\ running' = running \/ running' = [running EXCEPT ![on[p]] = TRUE]
          /\ \/ status' = status \/ status' = [status EXCEPT ![on[p]] = "STOPPED"]
             \/ status' = [status EXCEPT ![on[p]] = "RUNNING"]
      BY DEF Pthread, Quits, Execute, Initialize, LoopEnds, SetsStopped, Uninitialize, Sets, threadVars
    <3> QED
      BY <1>1, <3>1 DEF TypeOK
  <2> QED
    BY <1>1, <1>3, <2>1, <2>2, <2>3, <2>4 DEF TypeOK
<1>6. \A o \in Owners : Has(o) => owned[o].worker \in Pthreads
  BY <1>1 DEF TypeOK, Has
<1>7. OwnersApart'
  BY <1>1, <1>3, <1>4, <1>6 DEF OwnersApart, Has
<1>8. CallFits' /\ BusyOwned'
  BY <1>1, <1>3 DEF CallFits, BusyOwned, OfOwner, Pushing, Has
<1>9. HandlesApart'
  <2>1. \A t \in Threads : handle[t] # None => handle[t] \in Pthreads
    BY <1>1 DEF TypeOK
  <2> QED
    BY <1>1, <1>3, <1>4, <2>1 DEF HandlesApart, Has, Pushing
<1> QED
  BY <1>1, <1>3, <1>5, <1>7, <1>8, <1>9 DEF PoolInv

\* Nothing is in the pool and nobody has a Thread.
LEMMA InitPool == Init => PoolInv
<1> SUFFICES ASSUME Init PROVE PoolInv
  OBVIOUS
<1>1. /\ busy = << >> /\ idle = << >> /\ call = "none" /\ arg = None /\ who = None
      /\ owned = [o \in Owners |-> Nothing] /\ handle = [t \in Threads |-> None] /\ workers = {}
  BY DEF Init
<1>2. late \in BOOLEAN
  BY Zenon DEF Init
<1>3. TypeOK
  BY <1>1, <1>2 DEF Init, TypeOK
<1>4. \A o \in Owners : ~Has(o)
  BY <1>1 DEF Has
<1>5. OwnersApart
  BY <1>1, <1>4 DEF OwnersApart
<1>6. CallFits
  BY <1>1, <1>4, ThreadAssumption DEF CallFits, OfOwner, Pushing
<1>7. HandlesApart
  BY <1>1, <1>4 DEF HandlesApart
<1>8. BusyOwned
  BY <1>1, <1>4 DEF BusyOwned, Pushing, ToSet
<1>9. IsInjective(busy \o idle)
  <2>1. busy \o idle = << >>
    BY <1>1
  <2> QED
    BY <2>1 DEF IsInjective
<1> QED
  BY <1>3, <1>5, <1>6, <1>7, <1>8, <1>9 DEF PoolInv

\* Every step keeps PoolInv.
LEMMA NextPool == PoolInv /\ [Next]_vars => PoolInv'
<1> SUFFICES ASSUME PoolInv, [Next]_vars PROVE PoolInv'
  OBVIOUS
<1>1. CASE UNCHANGED vars
  BY <1>1 DEF vars, PoolInv, TypeOK, OwnersApart, CallFits, HandlesApart, BusyOwned, OfOwner, Pushing, Has
<1>2. CASE \/ Started \/ StopThread \/ StopThreads
           \/ \E o \in Owners : Stop(o)
           \/ \E step \in {"stop", "push"} : StopWait(step) \/ WaitForEnd(step)
  <2>1. UNCHANGED <<poolVars, ptVars, status>>
    BY <1>2 DEF Started, StopThread, StopThreads, Stop, StopWait, WaitForEnd, threadVars
  <2> QED
    BY <1>2, <2>1, CallPool
<1> QED
  BY <1>1, <1>2, StartPool, StartFailsPool, PushPool, ClosePool, PthreadPool
  DEF Next, Calls, CallGoesOn

\* A Thread is busy or idle, and once, and the Thread of an owner is a busy one
\* that no other owner has, for any owners and Threads and whatever fails:
\* ThreadPool::Push looks for a thread id and yet erases the Thread it was given.
THEOREM ThreadsPartitioned == Spec => []PoolPartition
<1>1. PoolInv => PoolPartition
  <2> SUFFICES ASSUME PoolInv PROVE PoolPartition
    OBVIOUS
  <2>1. ASSUME call # "closed", NEW o \in Owners, Has(o) PROVE owned[o].thread \in ToSet(busy)
    BY <2>1 DEF PoolInv, BusyOwned
  <2>2. ASSUME NEW o \in Owners, NEW u \in Owners \ {o}, Has(o)
        PROVE  owned[u].thread # owned[o].thread
    <3>1. owned[o].thread \in Threads
      BY <2>2 DEF PoolInv, TypeOK, Has
    <3>2. CASE Has(u)
      BY <2>2, <3>2 DEF PoolInv, OwnersApart
    <3>3. CASE ~Has(u)
      BY <3>1, <3>3, ThreadAssumption DEF Has, Nothing
    <3> QED
      BY <3>2, <3>3
  <2> QED
    BY <2>1, <2>2 DEF PoolInv, PoolPartition, Has
<1> QED
  BY <1>1, InitPool, NextPool, PTL DEF Spec

-------------------------------------------------------------------------------
(* LeftInv: how far a pthread is, and what is left of one that has ended. *)

\* A step of others: the pthread of an owner stays where it is, and what the
\* step says of the owner fits.
LEMMA FollowsKept ==
    ASSUME NEW o \in Owners, NEW t, NEW p, owned[o].thread = t, owned[o].worker = p,
           Follows(o), owned'[o] = owned[o], at'[p] = at[p], status'[t] = status[t],
           p \in quit' <=> p \in quit,
           running'[t] = running[t] \/ Told(o)',
           Told(o) => Told(o)' \/ at[p] = "done",
           at[p] \in {"created", "armed"} => call' = "starting" /\ who' = o,
           who' = o /\ call' = "stopJoin" => status[t] = "STOPPED",
           who' = o /\ Pushing' => status[t] = "STOPPED" /\ Left(p)
    PROVE  Follows(o)'
<1>1. Left(p)' <=> Left(p)
  BY DEF Left
<1>2. /\ at[p] \in {"created", "armed"} => status[t] = "PREPARED"
      /\ at[p] \in {"init", "loop", "ended"} => status[t] = "RUNNING"
      /\ at[p] = "ended" => p \in quit \/ Told(o)
      /\ at[p] \in {"uninit", "exit"} =>
            status[t] = "RUNNING" \/ (status[t] = "STOPPED" /\ (p \in quit \/ Told(o)))
      /\ at[p] = "done" => status[t] = "STOPPED"
      /\ at[p] \in {"armed", "init", "loop"} => running[t] \/ Told(o)
      /\ p \in quit /\ at[p] \in {"uninit", "exit"} => status[t] = "STOPPED"
  BY DEF Follows
<1>3. owned'[o].thread = t /\ owned'[o].worker = p
  OBVIOUS
<1> HIDE DEF Told, Left, Pushing
<1> QED
  BY <1>1, <1>2, <1>3, Zenon DEF Follows

\* A step that moves no pthread.
LEMMA StrayKept ==
    ASSUME NoneStray, QuitOver, UNCHANGED <<at, on, by, quit>>,
           \A p \in Pthreads : Serves(p) => Serves(p)' \/ Left(p)
    PROVE  NoneStray' /\ QuitOver'
BY DEF NoneStray, QuitOver, Left

\* The Thread of a call is the one that its owner has.
LEMMA ArgOwned ==
    ASSUME ThreadInv, ~late, call \in {"starting", "stop", "stopWait", "stopJoin"}
    PROVE  /\ who \in Owners /\ Has(who) /\ arg = owned[who].thread /\ Follows(who)
           /\ arg \in Threads /\ owned[who].worker \in Pthreads /\ status[arg] \in {"STOPPED", "PREPARED", "RUNNING"}
           /\ at[owned[who].worker] \in {"created", "armed", "init", "loop", "ended", "uninit", "exit", "done"}
           /\ \A o \in Owners : o # who /\ Has(o) => owned[o].thread # arg
<1>1. who \in Owners /\ Has(who) /\ arg = owned[who].thread /\ arg \in Threads
  BY DEF ThreadInv, PoolInv, CallFits, OfOwner
<1>2. Follows(who)
  BY <1>1 DEF ThreadInv, LeftInv
<1>3. owned[who].worker \in Pthreads /\ status[arg] \in {"STOPPED", "PREPARED", "RUNNING"}
  BY <1>1 DEF ThreadInv, PoolInv, TypeOK, Has
<1>4. at[owned[who].worker] # "none"
  BY <1>1 DEF ThreadInv, PoolInv, OwnersApart
<1>5. at[owned[who].worker] \in {"created", "armed", "init", "loop", "ended", "uninit", "exit", "done"}
  BY <1>3, <1>4 DEF ThreadInv, PoolInv, TypeOK
<1>6. \A o \in Owners : o # who /\ Has(o) => owned[o].thread # arg
  BY <1>1 DEF ThreadInv, PoolInv, OwnersApart
<1> QED
  BY <1>1, <1>2, <1>3, <1>5, <1>6

\* A step of the calling task that changes no Thread but its running_, and
\* whose call goes on as its owner's pthread allows.
LEMMA CallLeft ==
    ASSUME ThreadInv, ~late, UNCHANGED <<status, owned, at, on, by, quit>>,
           call' \notin {"pushWait", "pushJoin", "closed"},
           \A o \in Owners : Has(o) =>
             LET t == owned[o].thread
                 p == owned[o].worker
             IN  /\ running'[t] = running[t] \/ Told(o)'
                 /\ Told(o) => Told(o)' \/ at[p] = "done"
                 /\ at[p] \in {"created", "armed"} => call' = "starting" /\ who' = o
                 /\ who' = o /\ call' = "stopJoin" => status[t] = "STOPPED"
                 /\ who' = o /\ Pushing' => status[t] = "STOPPED" /\ Left(p)
    PROVE  LeftInv'
<1>1. LeftInv
  BY DEF ThreadInv
<1>2. NoneStray' /\ QuitOver'
  BY <1>1, StrayKept DEF LeftInv, Serves
<1>3. FreeStopped' /\ ClosedOver'
  BY <1>1 DEF LeftInv, FreeStopped, ClosedOver, Has
<1>4. ASSUME NEW o \in Owners, Has(o)' PROVE Follows(o)'
  <2>1. Has(o) /\ Follows(o)
    BY <1>1, <1>4 DEF Has, LeftInv
  <2> DEFINE t == owned[o].thread
             p == owned[o].worker
  <2>2. /\ running'[t] = running[t] \/ Told(o)'
        /\ Told(o) => Told(o)' \/ at[p] = "done"
        /\ at[p] \in {"created", "armed"} => call' = "starting" /\ who' = o
        /\ who' = o /\ call' = "stopJoin" => status[t] = "STOPPED"
        /\ who' = o /\ Pushing' => status[t] = "STOPPED" /\ Left(p)
    BY <2>1
  <2>3. at'[p] = at[p] /\ status'[t] = status[t] /\ owned'[o] = owned[o] /\ (p \in quit' <=> p \in quit)
    OBVIOUS
  <2>4. PICK u, q : u = t /\ q = p
    OBVIOUS
  <2> HIDE DEF t, p
  <2>5. owned[o].thread = u /\ owned[o].worker = q
    BY <2>4 DEF t, p
  <2> QED
    BY <2>1, <2>2, <2>3, <2>4, <2>5, FollowsKept
<1> QED
  BY <1>2, <1>3, <1>4 DEF LeftInv

\* StartThread returns when the pthread has set status_.
LEMMA StartedLeft ==
    ASSUME ThreadInv, ~late, Started
    PROVE  LeftInv'
<1>1. /\ call = "starting" /\ status[arg] # "PREPARED" /\ call' = "none" /\ who' = None
      /\ UNCHANGED <<running, status, owned, at, on, by, quit>>
  BY DEF Started, Return, threadVars, poolVars, ptVars
<1>2. who \in Owners /\ Has(who) /\ arg = owned[who].thread
  BY <1>1, ArgOwned
<1>3. \A o \in Owners : Has(o) => at[owned[o].worker] \notin {"created", "armed"}
  BY <1>1, <1>2 DEF ThreadInv, LeftInv, Follows
<1> QED
  BY <1>1, <1>3, CallLeft, ThreadAssumption DEF Told, Pushing

\* The owner stops its Thread, or all are told to stop.
LEMMA StopLeft ==
    ASSUME ThreadInv, ~late, StopThreads \/ \E o \in Owners : Stop(o)
    PROVE  LeftInv'
<1>1. /\ call = "none" /\ UNCHANGED <<status, owned, at, on, by, quit>>
      /\ \/ call' = "stopAll"
         \/ call' = "stop" /\ running' = running
  BY DEF StopThreads, Stop, threadVars, poolVars, ptVars
<1>2. \A o \in Owners : Has(o) => at[owned[o].worker] \notin {"created", "armed"}
  BY <1>1 DEF ThreadInv, LeftInv, Follows
<1> QED
  BY <1>1, <1>2, CallLeft DEF Told, Pushing

\* StopThread finds the Thread running, or its pthread gone.
LEMMA StopThreadLeft ==
    ASSUME ThreadInv, ~late, StopThread
    PROVE  LeftInv'
<1>1. call \in {"stop", "push"} /\ who' = who /\ UNCHANGED <<status, owned, at, on, by, quit>>
  BY DEF StopThread, Goto, poolVars, ptVars
<1>2. \A o \in Owners : Has(o) => at[owned[o].worker] \notin {"created", "armed"}
  BY <1>1 DEF ThreadInv, LeftInv, Follows
<1>3. CASE call = "stop"
  <2>1. /\ who \in Owners /\ Has(who) /\ arg = owned[who].thread /\ Follows(who)
        /\ status[arg] \in {"STOPPED", "PREPARED", "RUNNING"} /\ arg \in Threads
        /\ at[owned[who].worker] \in {"created", "armed", "init", "loop", "ended", "uninit", "exit", "done"}
        /\ \A o \in Owners : o # who /\ Has(o) => owned[o].thread # arg
    BY <1>3, ArgOwned
  <2>2. CASE status[arg] = "RUNNING"
    <3>1. running' = [running EXCEPT ![arg] = FALSE] /\ call' = "stopWait"
      BY <1>3, <2>2 DEF StopThread, IsActive, Goto, Waits
    <3>2. \A o \in Owners : Has(o) => o = who \/ running'[owned[o].thread] = running[owned[o].thread]
      BY <2>1, <3>1 DEF ThreadInv, PoolInv, TypeOK, Has
    <3> QED
      BY <1>1, <1>2, <1>3, <3>1, <3>2, CallLeft DEF Told, Pushing
  <2>3. CASE status[arg] # "RUNNING"
    <3>1. running' = running /\ call' = "push"
      BY <1>3, <2>3 DEF StopThread, IsActive, Goto, After
    <3>2. status[arg] = "STOPPED" /\ Left(owned[who].worker)
      BY <1>2, <1>3, <2>1, <2>3 DEF Follows, Told, Left
    <3> QED
      BY <1>1, <1>2, <1>3, <2>1, <3>1, <3>2, CallLeft DEF Told, Pushing
  <2> QED
    BY <2>2, <2>3
<1>4. CASE call = "push"
  <2>1. status[arg] = "STOPPED"
    <3>1. arg \in Threads /\ (who = None \/ who \in Owners)
      BY <1>4 DEF ThreadInv, PoolInv, CallFits, TypeOK, Pushing
    <3>2. CASE who = None
      BY <3>1, <3>2 DEF ThreadInv, PoolInv, CallFits, LeftInv, FreeStopped
    <3>3. CASE who \in Owners
      <4>1. Has(who) /\ arg = owned[who].thread /\ Follows(who)
        BY <3>3 DEF ThreadInv, PoolInv, CallFits, LeftInv
      <4> QED
        BY <1>4, <4>1 DEF Follows, Pushing
    <3> QED
      BY <3>1, <3>2, <3>3
  <2>2. running' = running /\ call' = "erase"
    BY <1>4, <2>1 DEF StopThread, IsActive, Goto, After
  <2>3. \A o \in Owners : Has(o) /\ who = o => status[owned[o].thread] = "STOPPED" /\ Left(owned[o].worker)
    BY <1>4 DEF ThreadInv, LeftInv, Follows, Pushing
  <2> QED
    BY <1>1, <1>2, <1>4, <2>2, <2>3, CallLeft DEF Told, Pushing
<1> QED
  BY <1>1, <1>3, <1>4

\* StopThread has waited until status_ is not RUNNING, then for the pthread.
LEMMA WaitLeft ==
    ASSUME ThreadInv, ~late, NEW step \in {"stop", "push"}, StopWait(step) \/ WaitForEnd(step)
    PROVE  LeftInv'
<1>1. who' = who /\ arg' = arg /\ UNCHANGED <<running, status, owned, at, on, by, quit>>
  BY DEF StopWait, WaitForEnd, Goto, threadVars, poolVars, ptVars
<1>2. /\ step = "stop"
      /\ \/ call = "stopWait" /\ status[arg] # "RUNNING" /\ call' = "stopJoin"
         \/ call = "stopJoin" /\ Joined(arg) /\ call' = "push"
  BY DEF StopWait, WaitForEnd, Goto, Waits, Joins, After, ThreadInv, LeftInv
<1>3. /\ who \in Owners /\ Has(who) /\ arg = owned[who].thread /\ Follows(who)
      /\ status[arg] \in {"STOPPED", "PREPARED", "RUNNING"}
      /\ at[owned[who].worker] \in {"created", "armed", "init", "loop", "ended", "uninit", "exit", "done"}
  BY <1>2, ArgOwned
<1>4. \A o \in Owners : Has(o) => at[owned[o].worker] \notin {"created", "armed"}
  BY <1>2 DEF ThreadInv, LeftInv, Follows
<1>5. status[arg] = "STOPPED"
  BY <1>2, <1>3, <1>4 DEF Follows
<1>6. CASE call' = "stopJoin"
  BY <1>1, <1>2, <1>3, <1>4, <1>5, <1>6, CallLeft DEF Told, Pushing
<1>7. CASE call = "stopJoin" /\ Joined(arg) /\ call' = "push"
  <2>1. handle[arg] = owned[who].worker
    BY <1>3, <1>7 DEF ThreadInv, PoolInv, HandlesApart, Pushing
  <2>2. owned[who].worker # None
    BY <1>3, ThreadAssumption DEF ThreadInv, PoolInv, TypeOK, Has
  <2>3. at[owned[who].worker] = "done"
    BY <1>7, <2>1, <2>2 DEF Joined
  <2> QED
    BY <1>1, <1>3, <1>4, <1>5, <1>7, <2>3, CallLeft DEF Told, Pushing, Left
<1> QED
  BY <1>2, <1>6, <1>7

\* The pool is closed: every busy pthread is joined, or nothing is.
LEMMA CloseLeft ==
    ASSUME ThreadInv, ~late, StopThreadsEnds
    PROVE  LeftInv'
<1>1. /\ call = "stopAll" /\ call' = "closed" /\ arg' = arg /\ who' = who
      /\ UNCHANGED <<running, status, owned, at, on, by, quit>>
  BY DEF StopThreadsEnds, ptVars
<1>2. LeftInv
  BY DEF ThreadInv
<1>3. NoneStray' /\ QuitOver' /\ FreeStopped'
  BY <1>1, <1>2, StrayKept DEF LeftInv, Serves, FreeStopped, Has
<1>4. \A o \in Owners : Has(o) => owned[o].thread \in ToSet(busy) /\ at[owned[o].worker] \notin {"created", "armed"}
  BY <1>1, <1>2 DEF ThreadInv, PoolInv, BusyOwned, LeftInv, Follows
<1>5. ClosedOver'
  <2>1. CASE busy' = busy
    BY <1>1, <1>4, <2>1 DEF ClosedOver, Has
  <2>2. CASE \A t \in ToSet(busy) : Joined(t)
    <3>1. ASSUME NEW o \in Owners, Has(o) PROVE at[owned[o].worker] = "done"
      <4>1. handle[owned[o].thread] = owned[o].worker
        BY <1>1, <3>1 DEF ThreadInv, PoolInv, HandlesApart, Pushing
      <4>2. owned[o].worker # None
        BY <3>1, ThreadAssumption DEF ThreadInv, PoolInv, TypeOK, Has
      <4> QED
        BY <1>4, <2>2, <3>1, <4>1, <4>2 DEF Joined
    <3> QED
      BY <1>1, <3>1 DEF ClosedOver, Has
  <2> QED
    BY <2>1, <2>2 DEF StopThreadsEnds
<1>6. ASSUME NEW o \in Owners, Has(o)' PROVE Follows(o)'
  <2>1. Has(o) /\ Follows(o)
    BY <1>1, <1>2, <1>6 DEF Has, LeftInv
  <2>2. PICK t, p : t = owned[o].thread /\ p = owned[o].worker
    OBVIOUS
  <2>3. Told(o)' /\ ~Pushing'
    BY <1>1 DEF Told, Pushing
  <2>4. at[p] \notin {"created", "armed"}
    BY <1>4, <2>1, <2>2
  <2> QED
    BY <1>1, <2>1, <2>2, <2>3, <2>4, FollowsKept
<1> QED
  BY <1>1, <1>3, <1>5, <1>6 DEF LeftInv

\* Push takes the Thread back, STOPPED, from an owner whose pthread has left.
LEMMA PushLeft ==
    ASSUME ThreadInv, ~late, Push
    PROVE  LeftInv'
<1>1. /\ call = "erase" /\ call' = "none" /\ arg' = None /\ who' = None
      /\ UNCHANGED <<running, status, at, on, by, quit>>
  BY DEF Push, Return, threadVars, ptVars
<1>2. LeftInv /\ TypeOK /\ OwnersApart /\ CallFits
  BY DEF ThreadInv, PoolInv
<1>3. /\ \A o \in Owners : Has(o)' <=> (Has(o) /\ o # who)
      /\ \A o \in Owners : o # who => owned'[o] = owned[o]
  <2>1. CASE who = None
    BY <1>2, <2>1, ThreadAssumption DEF Push, Has
  <2>2. CASE who # None
    <3>1. who \in Owners /\ owned' = [owned EXCEPT ![who] = Nothing]
      BY <1>2, <2>2 DEF Push, TypeOK
    <3> QED
      BY <1>2, <2>2, <3>1 DEF TypeOK, Has
  <2> QED
    BY <2>1, <2>2
<1>4. who \in Owners =>
         Has(who) /\ arg = owned[who].thread /\ status[arg] = "STOPPED" /\ Left(owned[who].worker)
  BY <1>1, <1>2 DEF CallFits, LeftInv, Follows, Pushing
<1>5. NoneStray' /\ QuitOver'
  <2>1. ASSUME NEW p \in Pthreads, Serves(p) PROVE Serves(p)' \/ Left(p)
    <3>1. by[p] \in Owners /\ owned[by[p]].worker = p
      BY <2>1 DEF Serves
    <3>2. CASE by[p] = who
      BY <1>4, <3>1, <3>2
    <3>3. CASE by[p] # who
      BY <1>1, <1>3, <2>1, <3>1, <3>3 DEF Serves
    <3> QED
      BY <3>2, <3>3
  <2> QED
    BY <1>1, <1>2, <2>1, StrayKept DEF LeftInv
<1>6. FreeStopped'
  <2> SUFFICES ASSUME NEW t \in Threads, \A o \in Owners : Has(o)' => owned'[o].thread # t
               PROVE  status[t] = "STOPPED"
    BY <1>1 DEF FreeStopped
  <2>1. CASE \A o \in Owners : Has(o) => owned[o].thread # t
    BY <1>2, <2>1 DEF LeftInv, FreeStopped
  <2>2. CASE who \in Owners /\ t = owned[who].thread
    BY <1>4, <2>2
  <2> QED
    BY <1>3, <2>1, <2>2
<1>7. ASSUME NEW o \in Owners, Has(o)' PROVE Follows(o)'
  <2>1. Has(o) /\ Follows(o) /\ o # who /\ owned'[o] = owned[o]
    BY <1>2, <1>3, <1>7 DEF LeftInv
  <2>2. PICK t, p : t = owned[o].thread /\ p = owned[o].worker
    OBVIOUS
  <2>3. ~Told(o) /\ ~Pushing' /\ at[p] \notin {"created", "armed"}
    BY <1>1, <2>1, <2>2 DEF Told, Pushing, Follows
  <2> QED
    BY <1>1, <2>1, <2>2, <2>3, FollowsKept
<1> QED
  BY <1>1, <1>5, <1>6, <1>7 DEF LeftInv, ClosedOver

\* The start of a Thread fails: the Thread is STOPPED as before, and nobody has it.
LEMMA StartFailsLeft ==
    ASSUME ThreadInv, ~late, NEW o \in Owners, StartFails(o)
    PROVE  LeftInv'
<1>1. PICK t \in Threads :
        /\ Pop(t)
        /\ status' = status \/ status' = [status EXCEPT ![t] = "STOPPED"]
        /\ call' = "push" /\ who' = None
  BY DEF StartFails
<1>2. call = "none" /\ UNCHANGED <<running, owned, at, on, by, quit>>
  BY DEF StartFails, MayStart, ptVars
<1>3. status[t] = "STOPPED"
  BY <1>1, <1>2, Popped DEF ThreadInv, LeftInv, FreeStopped
<1>4. status' = status
  BY <1>1, <1>3 DEF ThreadInv, PoolInv, TypeOK
<1>5. \A u \in Owners : Has(u) => at[owned[u].worker] \notin {"created", "armed"}
  BY <1>2 DEF ThreadInv, LeftInv, Follows
<1> QED
  BY <1>1, <1>2, <1>4, <1>5, CallLeft, ThreadAssumption DEF Told

\* A Thread starts: its pthread is new, and the others have nothing to do with it.
LEMMA StartLeft ==
    ASSUME ThreadInv, ~late, NEW o \in Owners, Start(o)
    PROVE  LeftInv'
<1>1. PICK t \in Threads, p \in Pthreads :
        /\ CreateOneThread(p) /\ Pop(t)
        /\ status' = [status EXCEPT ![t] = "PREPARED"]
        /\ owned' = [owned EXCEPT ![o] = [thread |-> t, worker |-> p]]
        /\ at' = [at EXCEPT ![p] = "created"]
        /\ on' = [on EXCEPT ![p] = t]
        /\ by' = [by EXCEPT ![p] = o]
        /\ call' = "starting" /\ who' = o
  BY DEF Start
<1>2. call = "none" /\ owned[o] = Nothing /\ UNCHANGED <<running, quit>>
  BY DEF Start, MayStart
<1>3. at[p] = "none"
  BY <1>1 DEF CreateOneThread
<1>4. \A u \in Owners : Has(u) => owned[u].thread # t
  BY <1>1, <1>2, Popped DEF ThreadInv
<1>5. LeftInv /\ TypeOK /\ OwnersApart
  BY DEF ThreadInv, PoolInv
<1>6. /\ owned'[o].thread = t /\ owned'[o].worker = p /\ ~Has(o)
      /\ \A u \in Owners \ {o} : owned'[u] = owned[u] /\ (Has(u)' <=> Has(u))
  BY <1>1, <1>2, <1>5 DEF TypeOK, Has
<1>7. /\ at'[p] = "created" /\ status'[t] = "PREPARED"
      /\ \A q \in Pthreads \ {p} : at'[q] = at[q] /\ on'[q] = on[q] /\ by'[q] = by[q]
      /\ \A u \in Threads \ {t} : status'[u] = status[u]
  BY <1>1, <1>5 DEF TypeOK
<1>8. p \notin quit
  BY <1>3, <1>5 DEF LeftInv, QuitOver
<1>9. Has(o)'
  <2>1. [thread |-> t, worker |-> p] # Nothing
    BY ThreadAssumption DEF Nothing
  <2> QED
    BY <1>1, <1>5, <2>1 DEF TypeOK, Has
<1>10. QuitOver'
  BY <1>2, <1>5, <1>7, <1>8 DEF LeftInv, QuitOver, TypeOK
<1>11. NoneStray'
  <2> SUFFICES ASSUME NEW q \in Pthreads PROVE at'[q] = "none" \/ Left(q)' \/ Serves(q)'
    BY DEF NoneStray
  <2>1. CASE q = p
    <3>1. on'[p] = t /\ by'[p] = o /\ owned'[o] = [thread |-> t, worker |-> p]
      BY <1>1, <1>5 DEF TypeOK
    <3> QED
      BY <2>1, <3>1 DEF Serves
  <2>2. CASE q # p
    <3>1. at'[q] = at[q] /\ on'[q] = on[q] /\ by'[q] = by[q]
      BY <1>7, <2>2
    <3>2. Left(q) => Left(q)'
      BY <1>2, <3>1 DEF Left
    <3>3. Serves(q) => by[q] # o
      BY <1>2, ThreadAssumption DEF Serves, Nothing
    <3>4. Serves(q) => Serves(q)'
      BY <1>6, <3>1, <3>3 DEF Serves
    <3> QED
      BY <1>5, <3>1, <3>2, <3>4 DEF LeftInv, NoneStray
  <2> QED
    BY <2>1, <2>2
<1>12. FreeStopped'
  <2> SUFFICES ASSUME NEW u \in Threads, \A v \in Owners : Has(v)' => owned'[v].thread # u
               PROVE  status'[u] = "STOPPED"
    BY DEF FreeStopped
  <2>1. u # t
    BY <1>6, <1>9
  <2>2. \A v \in Owners : Has(v) => owned[v].thread # u
    BY <1>6
  <2> QED
    BY <1>5, <1>7, <2>1, <2>2 DEF LeftInv, FreeStopped
<1>13. Follows(o)'
  BY <1>1, <1>6, <1>7, <1>8 DEF Follows, Pushing
<1>14. ASSUME NEW u \in Owners \ {o}, Has(u)' PROVE Follows(u)'
  <2>1. Has(u) /\ Follows(u) /\ owned'[u] = owned[u]
    BY <1>5, <1>6, <1>14 DEF LeftInv
  <2>2. PICK v, q : v = owned[u].thread /\ q = owned[u].worker
    OBVIOUS
  <2>3. v \in Threads \ {t} /\ q \in Pthreads \ {p}
    BY <1>3, <1>4, <1>5, <2>1, <2>2 DEF TypeOK, OwnersApart, Has
  <2>4. ~Told(u) /\ at[q] \notin {"created", "armed"} /\ ~Pushing'
    BY <1>1, <1>2, <1>5, <2>1, <2>2, <1>14 DEF Told, Follows, Pushing
  <2> QED
    BY <1>1, <1>2, <1>7, <2>1, <2>2, <2>3, <2>4, FollowsKept
<1> QED
  BY <1>1, <1>10, <1>11, <1>12, <1>13, <1>14 DEF LeftInv, ClosedOver

\* The pthread of an owner goes on, and its Thread with it.
LEMMA OwnGoesOn ==
    ASSUME ThreadInv, ~late, NEW p \in Pthreads, Pthread(p) \/ Quits(p), Serves(p)
    PROVE  Follows(by[p])'
<1>1. LeftInv /\ TypeOK
  BY DEF ThreadInv, PoolInv
<1>2. PICK o \in Owners, t \in Threads : o = by[p] /\ t = on[p] /\ owned[o] = [thread |-> t, worker |-> p]
  <2>1. by[p] \in Owners /\ owned[by[p]] = [thread |-> on[p], worker |-> p]
    BY DEF Serves
  <2>2. [thread |-> on[p], worker |-> p] # Nothing
    BY ThreadAssumption DEF Nothing
  <2>3. owned[by[p]] \in [thread : Threads, worker : Pthreads]
    BY <1>1, <2>1, <2>2 DEF TypeOK
  <2> QED
    BY <2>1, <2>3
<1>3. Has(o) /\ owned[o].thread = t /\ owned[o].worker = p
  BY <1>2, ThreadAssumption DEF Has, Nothing
<1>4. Follows(o)
  BY <1>1, <1>3 DEF LeftInv
<1>5. UNCHANGED <<owned, by, call, who>>
  BY DEF Pthread, Quits, Execute, Initialize, LoopEnds, SetsStopped, Uninitialize, poolVars, callVars
<1>6. (Told(o)' <=> Told(o)) /\ (Pushing' <=> Pushing) /\ owned'[o].thread = t /\ owned'[o].worker = p
  BY <1>3, <1>5 DEF Told, Pushing
<1>7. /\ at[p] \in {"created", "armed"} => status[t] = "PREPARED" /\ call = "starting" /\ who = o
      /\ at[p] \in {"init", "loop", "ended"} => status[t] = "RUNNING"
      /\ at[p] = "ended" => p \in quit \/ Told(o)
      /\ at[p] \in {"uninit", "exit"} =>
            status[t] = "RUNNING" \/ (status[t] = "STOPPED" /\ (p \in quit \/ Told(o)))
      /\ at[p] = "done" => status[t] = "STOPPED"
      /\ at[p] \in {"armed", "init", "loop"} => running[t] \/ Told(o)
      /\ p \in quit /\ at[p] \in {"uninit", "exit"} => status[t] = "STOPPED"
      /\ who = o /\ call = "stopJoin" => status[t] = "STOPPED"
      /\ who = o /\ Pushing => status[t] = "STOPPED" /\ Left(p)
  BY <1>3, <1>4 DEF Follows
<1>8. p \in quit => at[p] \in {"ended", "uninit", "exit", "done"}
  BY <1>1 DEF LeftInv, QuitOver
<1>9. \A x : at' = [at EXCEPT ![p] = x] => at'[p] = x
  BY <1>1 DEF TypeOK
<1>10. Pushing => call # "starting"
  BY DEF Pushing
<1> HIDE DEF Told, Pushing
<1>11. CASE Execute(p)
  <2>1. CASE at[p] = "created"
    <3>1. at' = [at EXCEPT ![p] = "armed"] /\ running' = [running EXCEPT ![t] = TRUE] /\ status' = status
      BY <1>2, <1>11, <2>1 DEF Execute, PtGoto, Sets, ExecuteOrder
    <3>2. at'[p] = "armed" /\ running'[t] /\ status'[t] = "PREPARED" /\ quit' = quit
      <4>1. running \in [Threads -> BOOLEAN]
        BY <1>1 DEF TypeOK
      <4>2. running'[t]
        BY <3>1, <4>1
      <4> QED
        BY <1>7, <1>9, <1>11, <2>1, <3>1, <4>2 DEF Execute
    <3> QED
      BY <1>2, <1>5, <1>6, <1>7, <1>8, <1>10, <2>1, <3>2 DEF Follows
  <2>2. CASE at[p] = "armed"
    <3>1. at' = [at EXCEPT ![p] = "init"] /\ status' = [status EXCEPT ![t] = "RUNNING"] /\ running' = running
      BY <1>2, <1>11, <2>2 DEF Execute, PtGoto, Sets, ExecuteOrder
    <3>2. at'[p] = "init" /\ status'[t] = "RUNNING" /\ quit' = quit
      BY <1>1, <1>9, <1>11, <3>1 DEF Execute, TypeOK
    <3> QED
      BY <1>2, <1>5, <1>6, <1>7, <1>8, <1>10, <2>2, <3>1, <3>2 DEF Follows
  <2> QED
    BY <1>11, <2>1, <2>2 DEF Execute, PtGoto
<1>12. CASE Initialize(p)
  <2>1. at[p] = "init" /\ at'[p] \in {"loop", "uninit"} /\ UNCHANGED <<running, status, quit>>
    BY <1>9, <1>12 DEF Initialize, PtGoto, threadVars
  <2> QED
    BY <1>2, <1>5, <1>6, <1>7, <1>8, <2>1 DEF Follows, Left
<1>13. CASE LoopEnds(p)
  <2>1. at[p] = "loop" /\ at'[p] = "ended" /\ ~running[t] /\ UNCHANGED <<running, status, quit>>
    BY <1>2, <1>9, <1>13 DEF LoopEnds, PtGoto, threadVars
  <2> QED
    BY <1>2, <1>5, <1>6, <1>7, <1>8, <2>1 DEF Follows, Left
<1>14. CASE Quits(p)
  <2>1. at[p] = "loop" /\ at'[p] = "ended" /\ p \in quit' /\ UNCHANGED <<running, status>>
    BY <1>9, <1>14 DEF Quits, PtGoto, threadVars
  <2> QED
    BY <1>2, <1>5, <1>6, <1>7, <1>8, <2>1 DEF Follows, Left
<1>15. CASE SetsStopped(p)
  <2>1. /\ \/ at[p] = "ended" /\ at'[p] = "uninit"
           \/ at[p] = "exit" /\ at'[p] = "done"
        /\ status' = [status EXCEPT ![t] = "STOPPED"] /\ UNCHANGED <<running, quit>>
    BY <1>2, <1>9, <1>15 DEF SetsStopped, PtGoto
  <2>2. status'[t] = "STOPPED"
    BY <1>1, <2>1 DEF TypeOK
  <2> QED
    BY <1>2, <1>5, <1>6, <1>7, <2>1, <2>2 DEF Follows, Left
<1>16. CASE Uninitialize(p)
  <2>1. at[p] = "uninit" /\ at'[p] = "exit" /\ UNCHANGED <<running, status, quit>>
    BY <1>9, <1>16 DEF Uninitialize, PtGoto, threadVars
  <2> QED
    BY <1>2, <1>5, <1>6, <1>7, <2>1 DEF Follows, Left
<1> QED
  BY <1>11, <1>12, <1>13, <1>14, <1>15, <1>16 DEF Pthread

\* A pthread goes on, one that serves an owner or one that is on its way out.
LEMMA PthreadLeft ==
    ASSUME ThreadInv, ~late, ~late', NEW p \in Pthreads, Pthread(p) \/ Quits(p)
    PROVE  LeftInv'
<1>1. LeftInv /\ TypeOK /\ OwnersApart /\ HandlesApart
  BY DEF ThreadInv, PoolInv
<1>2. UNCHANGED <<busy, owned, on, by, call, who>>
  BY DEF Pthread, Quits, Execute, Initialize, LoopEnds, SetsStopped, Uninitialize, poolVars, callVars
<1>3. \A q \in Pthreads \ {p} : at'[q] = at[q] /\ (q \in quit' <=> q \in quit)
  <2>1. \E x : at' = [at EXCEPT ![p] = x]
    BY DEF Pthread, Quits, Execute, Initialize, LoopEnds, SetsStopped, Uninitialize, PtGoto
  <2>2. quit' = quit \/ quit' = quit \cup {p}
    BY DEF Pthread, Quits, Execute, Initialize, LoopEnds, SetsStopped, Uninitialize
  <2> QED
    BY <1>1, <2>1, <2>2 DEF TypeOK
<1>4. /\ \/ at[p] = "created" /\ at'[p] = "armed" /\ p \notin quit'
         \/ at[p] = "armed" /\ at'[p] = "init" /\ p \notin quit'
         \/ at[p] = "init" /\ at'[p] = "loop" /\ p \notin quit'
         \/ at[p] = "init" /\ at'[p] = "uninit"
         \/ at[p] = "loop" /\ at'[p] = "ended"
         \/ at[p] = "ended" /\ at'[p] = "uninit"
         \/ at[p] = "uninit" /\ at'[p] = "exit"
         \/ at[p] = "exit" /\ at'[p] = "done"
      /\ at[p] # "loop" => quit' = quit
  <2>1. \A x : at' = [at EXCEPT ![p] = x] => at'[p] = x
    BY <1>1 DEF TypeOK
  <2>2. p \in quit => at[p] \in {"ended", "uninit", "exit", "done"}
    BY <1>1 DEF LeftInv, QuitOver
  <2> QED
    BY <2>1, <2>2 DEF Pthread, Quits, Execute, Initialize, LoopEnds, SetsStopped, Uninitialize, PtGoto
<1>5. \A v \in Threads : v # on[p] => status'[v] = status[v] /\ running'[v] = running[v]
  <2>1. /\ running' = running \/ running' = [running EXCEPT ![on[p]] = TRUE]
        /\ \/ status' = status \/ status' = [status EXCEPT ![on[p]] = "STOPPED"]
           \/ status' = [status EXCEPT ![on[p]] = "RUNNING"]
    BY DEF Pthread, Quits, Execute, Initialize, LoopEnds, SetsStopped, Uninitialize, Sets, threadVars
  <2> QED
    BY <1>1, <2>1 DEF TypeOK
<1>6. QuitOver'
  <2>1. \A q \in quit : at[q] \in {"ended", "uninit", "exit", "done"}
    BY <1>1 DEF LeftInv, QuitOver
  <2>2. quit' \subseteq Pthreads
    BY NextPool DEF ThreadInv, PoolInv, TypeOK, Next
  <2> QED
    BY <1>3, <1>4, <2>1, <2>2 DEF QuitOver
<1>7. NoneStray'
  <2> SUFFICES ASSUME NEW q \in Pthreads PROVE at'[q] = "none" \/ Left(q)' \/ Serves(q)'
    BY DEF NoneStray
  <2>1. at[q] = "none" \/ Left(q) \/ Serves(q)
    BY <1>1 DEF LeftInv, NoneStray
  <2>2. Serves(q) => Serves(q)'
    BY <1>2 DEF Serves
  <2>3. at[q] = "none" => at'[q] = "none"
    BY <1>3, <1>4
  <2>4. Left(q) => Left(q)'
    BY <1>3, <1>4 DEF Left
  <2> QED
    BY <2>1, <2>2, <2>3, <2>4
<1>8. ClosedOver'
  <2>1. \A o \in Owners : Has(o) => owned[o].worker \in Pthreads
    BY <1>1 DEF TypeOK, Has
  <2> QED
    BY <1>1, <1>2, <1>3, <1>4, <2>1 DEF LeftInv, ClosedOver, Has
<1>9. ASSUME NEW u \in Owners, Has(u), owned[u].worker # p, owned[u].thread # on[p]
      PROVE  Follows(u)'
  <2>1. Follows(u) /\ owned[u].worker \in Pthreads /\ owned[u].thread \in Threads
    BY <1>1, <1>9 DEF LeftInv, TypeOK, Has
  <2>2. PICK v, q : v = owned[u].thread /\ q = owned[u].worker
    OBVIOUS
  <2>3. (Told(u)' <=> Told(u)) /\ (Pushing' <=> Pushing)
    BY <1>2 DEF Told, Pushing
  <2>4. /\ at'[q] = at[q] /\ (q \in quit' <=> q \in quit)
        /\ status'[v] = status[v] /\ running'[v] = running[v]
    BY <1>3, <1>5, <1>9, <2>1, <2>2
  <2>5. /\ at[q] \in {"created", "armed"} => call' = "starting" /\ who' = u
        /\ who' = u /\ call' = "stopJoin" => status[v] = "STOPPED"
        /\ who' = u /\ Pushing' => status[v] = "STOPPED" /\ Left(q)
    BY <1>2, <2>1, <2>2, <2>3 DEF Follows
  <2> QED
    BY <1>2, <2>1, <2>2, <2>3, <2>4, <2>5, FollowsKept
<1>10. FreeStopped /\ call \notin {"pushWait", "pushJoin"}
  BY <1>1 DEF LeftInv
<1>11. CASE Serves(p)
  <2>1. PICK o \in Owners : o = by[p] /\ owned[o] = [thread |-> on[p], worker |-> p] /\ Has(o)
    BY <1>11, ThreadAssumption DEF Serves, Has, Nothing
  <2>2. Follows(o)'
    <3>1. Follows(by[p])'
      BY <1>11, OwnGoesOn
    <3> QED
      BY <1>2, <2>1, <3>1
  <2>3. \A u \in Owners : Has(u) /\ u # o => owned[u].worker # p /\ owned[u].thread # on[p]
    BY <1>1, <2>1 DEF OwnersApart
  <2>4. \A u \in Owners : Has(u) => Follows(u)'
    BY <1>9, <2>2, <2>3
  <2>5. FreeStopped'
    <3> SUFFICES ASSUME NEW v \in Threads, \A u \in Owners : Has(u)' => owned'[u].thread # v
                 PROVE  status'[v] = "STOPPED"
      BY DEF FreeStopped
    <3>1. \A u \in Owners : Has(u) => owned[u].thread # v
      BY <1>2 DEF Has
    <3>2. v # on[p]
      BY <2>1, <3>1
    <3> QED
      BY <1>5, <1>10, <3>1, <3>2 DEF FreeStopped
  <2> QED
    BY <1>2, <1>6, <1>7, <1>8, <1>10, <2>4, <2>5 DEF LeftInv, Has
<1>12. CASE ~Serves(p)
  <2>1. p \in quit /\ at[p] \in {"uninit", "exit"}
    BY <1>1, <1>4, <1>12 DEF LeftInv, NoneStray, Left
  <2>2. \A u \in Owners : Has(u) => owned[u].worker # p
    <3>1. ASSUME NEW u \in Owners, Has(u), owned[u].worker = p PROVE FALSE
      <4>1. by[p] = u /\ on[p] = owned[u].thread
        BY <1>1, <3>1 DEF OwnersApart
      <4>2. owned[u] \in [thread : Threads, worker : Pthreads]
        BY <1>1, <3>1 DEF TypeOK, Has
      <4>3. owned[u] = [thread |-> on[p], worker |-> p]
        BY <3>1, <4>1, <4>2
      <4> QED
        BY <1>12, <4>1, <4>3 DEF Serves
    <3> QED
      BY <3>1
  <2>3. \/ UNCHANGED <<running, status>>
        \/ /\ handle[on[p]] = p /\ UNCHANGED running
           /\ status' = [status EXCEPT ![on[p]] = "STOPPED"]
    BY <2>1 DEF Pthread, Quits, Execute, Initialize, LoopEnds, SetsStopped, Uninitialize,
                PtGoto, threadVars
  <2>4. CASE UNCHANGED <<running, status>>
    <3>1. ASSUME NEW u \in Owners, Has(u) PROVE Follows(u)'
      <4>1. Follows(u) /\ owned[u].worker \in Pthreads
        BY <1>1, <3>1 DEF LeftInv, TypeOK, Has
      <4>2. PICK v, q : v = owned[u].thread /\ q = owned[u].worker
        OBVIOUS
      <4>3. (Told(u)' <=> Told(u)) /\ (Pushing' <=> Pushing)
        BY <1>2 DEF Told, Pushing
      <4>4. at'[q] = at[q] /\ (q \in quit' <=> q \in quit)
        BY <1>3, <2>2, <3>1, <4>1, <4>2
      <4>5. /\ at[q] \in {"created", "armed"} => call' = "starting" /\ who' = u
            /\ who' = u /\ call' = "stopJoin" => status[v] = "STOPPED"
            /\ who' = u /\ Pushing' => status[v] = "STOPPED" /\ Left(q)
        BY <1>2, <4>1, <4>2, <4>3 DEF Follows
      <4> QED
        BY <1>2, <2>4, <4>1, <4>2, <4>3, <4>4, <4>5, FollowsKept
    <3>2. FreeStopped'
      BY <1>2, <1>10, <2>4 DEF FreeStopped, Has
    <3> QED
      BY <1>2, <1>6, <1>7, <1>8, <1>10, <3>1, <3>2 DEF LeftInv, Has
  <2>5. CASE handle[on[p]] = p /\ status' = [status EXCEPT ![on[p]] = "STOPPED"]
    <3>1. \A u \in Owners : Has(u) => owned[u].thread # on[p]
      BY <1>1, <2>2, <2>5, ThreadAssumption DEF HandlesApart
    <3>2. \A u \in Owners : Has(u) => Follows(u)'
      BY <1>9, <2>2, <3>1
    <3>3. \A v \in Threads : status'[v] = status[v] \/ status'[v] = "STOPPED"
      BY <1>1, <2>5 DEF TypeOK
    <3>4. FreeStopped'
      BY <1>2, <1>10, <3>3 DEF FreeStopped, Has
    <3> QED
      BY <1>2, <1>6, <1>7, <1>8, <1>10, <3>2, <3>4 DEF LeftInv, Has
  <2> QED
    BY <2>3, <2>4, <2>5
<1> QED
  BY <1>11, <1>12

\* Every step keeps the invariant.
LEMMA NextThread == ThreadInv /\ [Next]_vars => ThreadInv'
<1> SUFFICES ASSUME ThreadInv, [Next]_vars, ~late' PROVE LeftInv'
  BY NextPool DEF ThreadInv
<1>1. ~late
  <2>1. CASE Next
    <3>1. late' = late \/ \E p \in Pthreads : late' = (late \/ handle[on[p]] # p)
      BY <2>1 DEF Next, Calls, CallGoesOn, Start, StartFails, Stop, Started, StopThread, StopThreads,
         Push, StopThreadsEnds, StopWait, WaitForEnd, Pthread, Quits, Execute, Initialize, LoopEnds,
         SetsStopped, Uninitialize, ptVars
    <3> QED
      BY <3>1
  <2>2. CASE UNCHANGED vars
    BY <2>2 DEF vars
  <2> QED
    BY <2>1, <2>2
<1>2. CASE UNCHANGED vars
  BY <1>1, <1>2 DEF vars, ThreadInv, LeftInv, QuitOver, NoneStray, FreeStopped, ClosedOver, Follows,
     Left, Told, Serves, Pushing, Has
<1> QED
  BY <1>1, <1>2, StartLeft, StartFailsLeft, StartedLeft, StopLeft, StopThreadLeft, WaitLeft,
     PushLeft, CloseLeft, PthreadLeft DEF Next, Calls, CallGoesOn

\* No pthread uses a worker that is deleted or a Thread that is idle, unless it
\* has ended by itself and is on its way out, for any owners, Threads and
\* pthreads and whatever fails, until one of those writes the status_ of a
\* Thread given out again: running_ and status_ are enough to stop a thread.
THEOREM StoppedAreOver == Spec => []StoppedIsOver
<1>1. Init => ThreadInv
  <2> SUFFICES ASSUME Init PROVE ThreadInv
    OBVIOUS
  <2>1. \A o \in Owners : ~Has(o)
    BY DEF Init, Has
  <2>2. LeftInv
    BY <2>1 DEF Init, LeftInv, QuitOver, NoneStray, FreeStopped, ClosedOver
  <2> QED
    BY <2>2, InitPool DEF ThreadInv
<1>2. ThreadInv => StoppedIsOver
  <2> SUFFICES ASSUME ThreadInv, ~late, NEW p \in Pthreads, at[p] # "none",
                      p \notin workers \/ on[p] \in ToSet(idle)
               PROVE  Left(p)
    BY DEF StoppedIsOver, Left
  <2>1. CASE Serves(p)
    <3>1. PICK o \in Owners : o = by[p] /\ owned[o] = [thread |-> on[p], worker |-> p] /\ Has(o)
      BY <2>1, ThreadAssumption DEF Serves, Has, Nothing
    <3>2. p \in workers
      BY <3>1 DEF ThreadInv, PoolInv, OwnersApart
    <3>3. ToSet(busy) \cap ToSet(idle) = {}
      BY Joint DEF ThreadInv, PoolInv, TypeOK
    <3>4. on[p] \notin ToSet(busy)
      BY <3>2, <3>3
    <3>5. call = "closed"
      BY <3>1, <3>4 DEF ThreadInv, PoolInv, BusyOwned
    <3> QED
      BY <3>1, <3>4, <3>5 DEF ThreadInv, LeftInv, ClosedOver, Left
  <2> QED
    BY <2>1 DEF ThreadInv, LeftInv, NoneStray
<1> QED
  BY <1>1, <1>2, NextThread, PTL DEF Spec
===============================================================================
