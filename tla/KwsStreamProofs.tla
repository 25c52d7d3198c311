-------------------------- MODULE KwsStreamProofs --------------------------
(***************************************************************************)
(* For any sizes of windows, steps and buffers, and however the stream is  *)
(* cut into arrays: the SDK hands out every window once and in order, and  *)
(* the plugin infers over the last values it received.                     *)
(***************************************************************************)
EXTENDS KwsStream, TLAPS

----------------------------------------------------------------------------
(* The sliding window of features. *)

\* The sizes of the buffer.
LEMMA BufferSizes ==
    ASSUME TwoWindows
    PROVE  /\ SlideStep \in Nat \ {0} /\ InitIndex \in Nat /\ InitIndex + SlideStep = SlideWindow
           /\ SlideWindow \in Nat /\ BufferSize \in Nat /\ BufferSize >= SlideWindow + SlideWindow
<1>1. /\ NormSize \in Nat \ {0} /\ SlideWindow \in Nat /\ NormSize <= SlideWindow
      /\ Multiplier \in Nat /\ Multiplier >= 2
  BY NormAssumption, StreamAssumption DEF TwoWindows
<1>2. SlideWindow * Multiplier \in Nat /\ SlideWindow * Multiplier >= SlideWindow + SlideWindow
  BY <1>1
<1> QED
  BY <1>1, <1>2 DEF SlideStep, InitIndex, BufferSize

\* A feature is normalised with the numbers of the files and cast.
LEMMA NormedDue ==
    ASSUME FilesRead, SlideInv, created
    PROVE  /\ DOMAIN Normed = 0 .. SlideStep - 1
           /\ \A i \in 0 .. SlideStep - 1 : Normed[i] = ValueDue(steps + 1, i)
<1>1. norm = NormProcessor(files[1], files[2]) /\ norm.isInitialized /\ files \in Files
  BY DEF SlideInv
<1>2. \A c \in Channels : norm.mean[c] = Number(files[1], c) /\ norm.std[c] = Number(files[2], c)
  BY <1>1 DEF FilesRead
<1>3. DOMAIN Normed = 0 .. SlideStep - 1
  BY DEF Normed, Convert, Norm, Features, SlideStep
<1>4. ASSUME NEW i \in 0 .. SlideStep - 1 PROVE Normed[i] = ValueDue(steps + 1, i)
  <2>1. i % NumChannels \in Channels
    BY NormAssumption DEF SlideStep, Channels
  <2>2. Normed[i] = Cast(IF norm.std[i % NumChannels] = 0 THEN <<0, 1>>
                         ELSE <<(Mfcc(steps + 1, i) - norm.mean[i % NumChannels]) * Scale,
                                norm.std[i % NumChannels]>>)
    BY <1>4 DEF Normed, Convert, Norm, Features, SlideStep
  <2>3. Cast(<<0, 1>>) = 0
    BY DEF Cast
  <2> QED
    BY <1>2, <2>1, <2>2, <2>3 DEF ValueDue
<1> QED
  BY <1>3, <1>4

\* The cells of the step received next.
LEMMA NextCells ==
    ASSUME TwoWindows, steps \in Nat, NEW i \in 0 .. SlideStep - 1
    PROVE  Due(steps * SlideStep + i) = ValueDue(steps + 1, i)
<1>1. SlideStep \in Nat \ {0}
  BY BufferSizes
<1>2. (steps * SlideStep + i) \div SlideStep = steps /\ (steps * SlideStep + i) % SlideStep = i
  BY <1>1
<1>3. ~(steps * SlideStep + i < 0)
  BY <1>1
<1> QED
  BY <1>2, <1>3, Zenon DEF Due

\* Process: the window returned holds the last values, and those that the next
\* window repeats are kept, behind it or at the front of the buffer, where they
\* do not touch it.
LEMMA WindowSlides ==
    ASSUME TwoWindows, FilesRead, SlideInv, created, GetNormedFeatures, UNCHANGED files
    PROVE  /\ DOMAIN slide'.buffer = 0 .. BufferSize - 1
           /\ slide'.inputFeature \in Nat /\ slide'.startIndex = slide'.inputFeature + InitIndex
           /\ slide'.startIndex + SlideStep <= BufferSize
           /\ \A k \in 0 .. InitIndex - 1 :
                 slide'.buffer[slide'.inputFeature + k] = Due(steps' * SlideStep - InitIndex + k)
           /\ SlideOutput(slide, Normed)
                 = [k \in 1 .. SlideWindow |-> Due(steps' * SlideStep - SlideWindow + k - 1)]
<1> DEFINE base == steps * SlideStep
           from == slide.inputFeature
           start == slide.startIndex
           filled == [i \in DOMAIN slide.buffer |->
                        IF i - start \in DOMAIN Normed THEN Normed[i - start] ELSE slide.buffer[i]]
           wraps == BufferSize - (start + SlideStep) < SlideStep
           front == [i \in DOMAIN filled |->
                        IF i < InitIndex THEN filled[(from + SlideStep) + i] ELSE filled[i]]
<1>1. /\ SlideStep \in Nat \ {0} /\ InitIndex \in Nat /\ InitIndex + SlideStep = SlideWindow
      /\ SlideWindow \in Nat /\ BufferSize \in Nat /\ BufferSize >= SlideWindow + SlideWindow
  BY BufferSizes
<1>2. /\ from \in Nat /\ start = from + InitIndex /\ start + SlideStep <= BufferSize
      /\ DOMAIN slide.buffer = 0 .. BufferSize - 1 /\ steps \in Nat
      /\ \A k \in 0 .. InitIndex - 1 : slide.buffer[from + k] = Due(base - InitIndex + k)
  BY DEF SlideInv
<1>3. steps' = steps + 1 /\ slide' = Process(slide, Normed)
  BY DEF GetNormedFeatures
<1>4. /\ Process(slide, Normed) =
            IF wraps THEN [buffer |-> front, startIndex |-> InitIndex, inputFeature |-> 0]
                     ELSE [buffer |-> filled, startIndex |-> start + SlideStep,
                           inputFeature |-> from + SlideStep]
  BY DEF Process
<1>5. /\ DOMAIN Normed = 0 .. SlideStep - 1
      /\ \A i \in 0 .. SlideStep - 1 : Normed[i] = Due(base + i)
  BY <1>2, NormedDue, NextCells
<1>6. base \in Nat /\ steps' * SlideStep = base + SlideStep
  BY <1>1, <1>2, <1>3
<1> HIDE DEF base
<1>7. ASSUME NEW k \in 0 .. SlideWindow - 1
      PROVE  from + k \in 0 .. BufferSize - 1 /\ filled[from + k] = Due(base - InitIndex + k)
  <2>1. from + k \in 0 .. BufferSize - 1
    BY <1>1, <1>2
  <2>2. CASE k < InitIndex
    <3>1. (from + k) - start \notin DOMAIN Normed
      BY <1>1, <1>2, <1>5, <2>2
    <3>2. filled[from + k] = slide.buffer[from + k]
      BY <1>2, <2>1, <3>1
    <3> QED
      BY <1>1, <1>2, <2>1, <2>2, <3>2
  <2>3. CASE k >= InitIndex
    <3>1. (from + k) - start = k - InitIndex /\ k - InitIndex \in 0 .. SlideStep - 1
      BY <1>1, <1>2, <2>3
    <3>2. filled[from + k] = Normed[k - InitIndex]
      BY <1>2, <1>5, <2>1, <3>1
    <3>3. base + (k - InitIndex) = base - InitIndex + k
      BY <1>1, <1>6
    <3> QED
      BY <1>5, <2>1, <3>1, <3>2, <3>3
  <2> QED
    BY <1>1, <2>2, <2>3
<1>8. DOMAIN filled = 0 .. BufferSize - 1 /\ DOMAIN front = 0 .. BufferSize - 1
  BY <1>2
<1>9. wraps => from > InitIndex
  BY <1>1, <1>2
<1> HIDE DEF filled
<1>10. ASSUME NEW i \in 0 .. BufferSize - 1
       PROVE  front[i] = IF i < InitIndex THEN filled[from + (SlideStep + i)] ELSE filled[i]
  <2>1. (from + SlideStep) + i = from + (SlideStep + i)
    BY <1>1, <1>2
  <2> QED
    BY <1>8, <2>1
<1> HIDE DEF front, from, start
<1>11. ASSUME NEW k \in 0 .. SlideWindow - 1
       PROVE  slide'.buffer[from + k] = Due(base - InitIndex + k)
  <2>1. CASE wraps
    <3>1. slide'.buffer = front
      BY <1>3, <1>4, <2>1
    <3>2. front[from + k] = filled[from + k]
      <4>1. from + k \in 0 .. BufferSize - 1 /\ ~(from + k < InitIndex)
        BY <1>1, <1>2, <1>7, <1>9, <2>1
      <4> QED
        BY <1>10, <4>1
    <3> QED
      BY <1>7, <3>1, <3>2
  <2>2. CASE ~wraps
    BY <1>3, <1>4, <1>7, <2>2
  <2> QED
    BY <2>1, <2>2
<1>12. SlideOutput(slide, Normed)
          = [k \in 1 .. SlideWindow |-> Due(steps' * SlideStep - SlideWindow + k - 1)]
  <2>1. SlideOutput(slide, Normed) = [k \in 1 .. SlideWindow |-> slide'.buffer[from + k - 1]]
    BY <1>3 DEF SlideOutput, from
  <2>2. ASSUME NEW k \in 1 .. SlideWindow
        PROVE  slide'.buffer[from + k - 1] = Due(steps' * SlideStep - SlideWindow + k - 1)
    <3>1. /\ k - 1 \in 0 .. SlideWindow - 1 /\ from + k - 1 = from + (k - 1)
          /\ base - InitIndex + (k - 1) = steps' * SlideStep - SlideWindow + k - 1
      BY <1>1, <1>2, <1>6
    <3> QED
      BY <1>11, <3>1, Zenon
  <2> QED
    BY <2>1, <2>2
<1>13. CASE wraps
  <2>1. slide'.buffer = front /\ slide'.startIndex = InitIndex /\ slide'.inputFeature = 0
    BY <1>3, <1>4, <1>13
  <2>2. ASSUME NEW k \in 0 .. InitIndex - 1
        PROVE  slide'.buffer[slide'.inputFeature + k] = Due(steps' * SlideStep - InitIndex + k)
    <3>1. k \in 0 .. BufferSize - 1 /\ k < InitIndex /\ SlideStep + k \in 0 .. SlideWindow - 1 /\ 0 + k = k
      BY <1>1
    <3>2. front[k] = filled[from + (SlideStep + k)]
      BY <1>10, <3>1
    <3>3. base - InitIndex + (SlideStep + k) = steps' * SlideStep - InitIndex + k
      BY <1>1, <1>6
    <3> QED
      BY <1>7, <2>1, <3>1, <3>2, <3>3
  <2> QED
    BY <1>1, <1>8, <1>12, <2>1, <2>2
<1>14. CASE ~wraps
  <2>1. /\ slide'.buffer = filled /\ slide'.startIndex = start + SlideStep
        /\ slide'.inputFeature = from + SlideStep
    BY <1>3, <1>4, <1>14
  <2>2. ASSUME NEW k \in 0 .. InitIndex - 1
        PROVE  slide'.buffer[slide'.inputFeature + k] = Due(steps' * SlideStep - InitIndex + k)
    <3>1. /\ SlideStep + k \in 0 .. SlideWindow - 1 /\ (from + SlideStep) + k = from + (SlideStep + k)
          /\ base - InitIndex + (SlideStep + k) = steps' * SlideStep - InitIndex + k
      BY <1>1, <1>2, <1>6
    <3> QED
      BY <1>7, <2>1, <3>1
  <2>3. /\ slide'.inputFeature \in Nat /\ slide'.startIndex = slide'.inputFeature + InitIndex
        /\ slide'.startIndex + SlideStep <= BufferSize
    BY <1>1, <1>2, <1>14, <2>1
  <2> QED
    BY <1>8, <1>12, <2>1, <2>2, <2>3
<1> QED
  BY <1>13, <1>14

\* A new buffer, before the first step.
LEMMA NewSlide ==
    ASSUME TwoWindows, slide' = SlideWindowProcessor, steps' = 0, features' = << >>,
           files \in Files, UNCHANGED <<files, call>>, call = "idle",
           created' => norm' = NormProcessor(files[1], files[2]) /\ norm'.isInitialized
    PROVE  SlideInv' /\ SlideWindowRight'
<1>1. /\ SlideStep \in Nat \ {0} /\ InitIndex \in Nat /\ InitIndex + SlideStep = SlideWindow
      /\ SlideWindow \in Nat /\ BufferSize \in Nat /\ BufferSize >= SlideWindow + SlideWindow
  BY BufferSizes
<1>2. /\ slide'.buffer = [i \in 0 .. BufferSize - 1 |-> 0] /\ slide'.inputFeature = 0
      /\ slide'.startIndex = InitIndex
  BY DEF SlideWindowProcessor
<1>3. ASSUME NEW k \in 0 .. InitIndex - 1
      PROVE  slide'.buffer[slide'.inputFeature + k] = Due(steps * SlideStep - InitIndex + k)'
  <2>1. k \in 0 .. BufferSize - 1 /\ 0 + k = k /\ steps' * SlideStep - InitIndex + k < 0
    BY <1>1
  <2>2. slide'.buffer[slide'.inputFeature + k] = 0
    BY <1>2, <2>1
  <2> QED
    BY <2>1, <2>2 DEF Due
<1>4. SlideInv'
  <2>1. (created => norm = NormProcessor(files[1], files[2]) /\ norm.isInitialized)'
    BY Zenon
  <2>2. /\ files' \in Files /\ steps' \in Nat /\ call' # "loop"
        /\ DOMAIN slide'.buffer = 0 .. BufferSize - 1
        /\ slide'.inputFeature \in Nat /\ slide'.startIndex = slide'.inputFeature + InitIndex
        /\ slide'.startIndex + SlideStep <= BufferSize
    BY <1>1, <1>2
  <2> QED
    BY <1>3, <2>1, <2>2, Zenon DEF SlideInv
<1>5. SlideWindowRight'
  BY DEF SlideWindowRight
<1> QED
  BY <1>4, <1>5

\* A step that leaves the plugin alone.
LEMMA SlideKept ==
    ASSUME SlideInv, SlideWindowRight, UNCHANGED <<files, created, norm, slide, steps, features>>,
           call' = "loop" => created
    PROVE  SlideInv' /\ SlideWindowRight'
<1>1. SlideInv'
  BY DEF SlideInv, Due, ValueDue
<1>2. SlideWindowRight'
  BY DEF SlideWindowRight, Due, ValueDue
<1> QED
  BY <1>1, <1>2

\* A step of features is received.
LEMMA SlideGoesOn ==
    ASSUME TwoWindows, FilesRead, SlideInv, created, SyncProcess, UNCHANGED <<files, created, norm>>
    PROVE  SlideInv' /\ SlideWindowRight'
<1>1. GetNormedFeatures /\ features' = SlideOutput(slide, Normed) /\ steps' = steps + 1
  BY DEF SyncProcess, MakeInference, GetNormedFeatures
<1>2. /\ DOMAIN slide'.buffer = 0 .. BufferSize - 1
      /\ slide'.inputFeature \in Nat /\ slide'.startIndex = slide'.inputFeature + InitIndex
      /\ slide'.startIndex + SlideStep <= BufferSize
      /\ \A k \in 0 .. InitIndex - 1 :
            slide'.buffer[slide'.inputFeature + k] = Due(steps' * SlideStep - InitIndex + k)
      /\ features' = [k \in 1 .. SlideWindow |-> Due(steps' * SlideStep - SlideWindow + k - 1)]
  BY <1>1, WindowSlides
<1>3. \A k : Due(steps * SlideStep - InitIndex + k)' = Due(steps' * SlideStep - InitIndex + k)
  BY DEF Due, ValueDue
<1>4. \A k : Due(steps * SlideStep - SlideWindow + k - 1)' = Due(steps' * SlideStep - SlideWindow + k - 1)
  BY DEF Due, ValueDue
<1>5. SlideInv'
  BY <1>1, <1>2, <1>3 DEF SlideInv
<1>6. SlideWindowRight'
  BY <1>2, <1>4 DEF SlideWindowRight
<1> QED
  BY <1>5, <1>6

\* The model's input is the last SlideWindow values of the steps received, for
\* any sizes, sessions and failures, if the buffer has room for two windows, as
\* bufferMultiplier says: what Process moves to the front of the buffer does not
\* touch the window that it has just returned.  That LoadInfoFromFile reads the
\* numbers of a file is a hypothesis (FilesRead).
THEOREM SlidesRight ==
    ASSUME TwoWindows, FilesRead
    PROVE  Spec => []SlideWindowRight
<1>1. Init => SlideInv /\ SlideWindowRight
  <2> SUFFICES ASSUME Init PROVE SlideInv /\ SlideWindowRight
    OBVIOUS
  <2>1. /\ SlideStep \in Nat \ {0} /\ InitIndex \in Nat /\ InitIndex + SlideStep = SlideWindow
        /\ SlideWindow \in Nat /\ BufferSize \in Nat /\ BufferSize >= SlideWindow + SlideWindow
    BY BufferSizes
  <2>2. /\ slide.buffer = [i \in 0 .. BufferSize - 1 |-> 0] /\ slide.inputFeature = 0
        /\ slide.startIndex = InitIndex /\ steps = 0 /\ ~created /\ call = "idle" /\ files \in Files
    BY DEF Init, SlideWindowProcessor
  <2>3. ASSUME NEW k \in 0 .. InitIndex - 1
        PROVE  slide.buffer[slide.inputFeature + k] = Due(steps * SlideStep - InitIndex + k)
    <3>1. k \in 0 .. BufferSize - 1 /\ 0 + k = k /\ steps * SlideStep - InitIndex + k < 0
      BY <2>1, <2>2
    <3>2. slide.buffer[slide.inputFeature + k] = 0
      BY <2>2, <3>1
    <3> QED
      BY <3>1, <3>2 DEF Due
  <2> QED
    BY <2>1, <2>2, <2>3 DEF SlideInv, SlideWindowRight
<1>2. SlideInv /\ SlideWindowRight /\ [Next]_vars => (SlideInv /\ SlideWindowRight)'
  <2> SUFFICES ASSUME SlideInv, SlideWindowRight, [Next]_vars PROVE SlideInv' /\ SlideWindowRight'
    OBVIOUS
  <2>1. files \in Files /\ (call = "loop" => created)
    BY DEF SlideInv
  <2>2. CASE Create
    BY <2>1, <2>2, NewSlide DEF Create, InitWorkplace, NewStream
  <2>3. CASE Destroy
    BY <2>1, <2>3, NewSlide DEF Destroy, SlideRelease, NewStream
  <2>4. CASE CreateFails \/ SyncExecuteEnds \/ UNCHANGED vars
    BY <2>1, <2>4, SlideKept DEF CreateFails, SyncExecuteEnds, vars
  <2>5. ASSUME NEW n \in 1 .. MaxInput, SyncExecute(n) PROVE SlideInv' /\ SlideWindowRight'
    BY <2>1, <2>5, SlideKept DEF SyncExecute
  <2>6. CASE Execute
    BY <2>1, <2>6, SlideGoesOn DEF Execute, TakeWindow
  <2>7. CASE ExecuteFails
    BY <2>1, <2>7, SlideGoesOn, SlideKept DEF ExecuteFails, TakeWindow
  <2> QED
    BY <2>2, <2>3, <2>4, <2>5, <2>6, <2>7 DEF Next
<1> QED
  BY <1>1, <1>2, PTL DEF Spec

----------------------------------------------------------------------------
(* The windows of the stream. *)

\* The sizes, and the room that the cache has for one window or two.
LEMMA CacheSizes ==
    ASSUME ShortOverlap, sizes \in Sizes
    PROVE  /\ StepSize \in Nat \ {0} /\ WindowSize \in Nat /\ StepSize <= WindowSize
           /\ WindowSize <= 2 * StepSize /\ MaxCacheSize \in Nat
           /\ WindowSize >= 2 => MaxCacheSize >= WindowSize
           /\ WindowSize >= StepSize + 2 => MaxCacheSize >= WindowSize + StepSize
<1>1. /\ StepSize \in Nat \ {0} /\ WindowSize \in Nat /\ StepSize <= WindowSize
      /\ WindowSize <= 2 * StepSize
  BY StreamAssumption DEF ShortOverlap, StepSize, WindowSize
<1>2. CASE WindowSize < 2
  BY <1>1, <1>2 DEF MaxCacheSize
<1>3. CASE WindowSize >= 2
  <2> DEFINE q == (WindowSize - 2) \div StepSize
  <2>1. q \in Nat /\ (WindowSize >= StepSize + 2 => q >= 1)
    BY <1>1, <1>3
  <2>2. MaxCacheSize = q * StepSize + WindowSize
    BY <1>1, <1>3 DEF MaxCacheSize
  <2> HIDE DEF q
  <2>3. q * StepSize \in Nat /\ (q >= 1 => q * StepSize >= StepSize)
    BY <1>1, <2>1
  <2> QED
    BY <1>1, <2>1, <2>2, <2>3
<1> QED
  BY <1>1, <1>2, <1>3

\* The cache holds the first samples of windows that it lacks the end of.
Lacks(x, pos) ==
    /\ x \in Iterator
    /\ x.cacheSize > 0 /\ x.numCopy > 0
    /\ x.nextCachePos + x.cacheSize + x.numCopy <= MaxCacheSize
    /\ \A k \in 0 .. x.cacheSize - 1 : x.cache[x.nextCachePos + k] = pos + 1 + k
    /\ \/ x.cacheSize + x.numCopy = WindowSize
       \/ x.cacheSize > StepSize /\ x.cacheSize + x.numCopy = WindowSize + StepSize

\* MoveDataToCache: less than a window moves to the front of the cache.
ToFront(x, src, n) == MoveDataToCache(x, src, n, FALSE)

\* The first n samples of src are those from the pos-th on.
Holds(src, n, pos) == \A k \in 0 .. n - 1 : src[k] = pos + 1 + k

\* The cache then holds what was moved, and lacks the rest of its windows.
LEMMA MovedToCache ==
    ASSUME ShortOverlap, sizes \in Sizes,
           NEW x, x \in Iterator, NEW n \in Nat, NEW pos \in Nat, NEW src,
           n > 0, n < WindowSize, Holds(src, n, pos)
    PROVE  LET r == ToFront(x, src, n)
           IN  /\ Lacks(r, pos) /\ r.cacheSize = n
               /\ r.hasNext = x.hasNext /\ r.pcmData = x.pcmData /\ r.ok
<1> DEFINE r == ToFront(x, src, n)
           cells == Memcpy(x.cache, 0, src, n, TRUE)
           lack == ((n - 1) \div StepSize) * StepSize + WindowSize - n
<1>1. /\ StepSize \in Nat \ {0} /\ WindowSize \in Nat /\ StepSize <= WindowSize
      /\ WindowSize <= 2 * StepSize /\ MaxCacheSize \in Nat
      /\ WindowSize >= 2 => MaxCacheSize >= WindowSize
      /\ WindowSize >= StepSize + 2 => MaxCacheSize >= WindowSize + StepSize
  BY CacheSizes
<1>2. n <= MaxCacheSize
  BY <1>1
<1>0. \A k \in 0 .. n - 1 : src[k] = pos + 1 + k
  BY DEF Holds
<1>3. /\ DOMAIN x.cache = 0 .. MaxCacheSize - 1
      /\ cells \in [0 .. MaxCacheSize - 1 -> Nat] /\ \A k \in 0 .. n - 1 : cells[0 + k] = pos + 1 + k
  <2>1. x.cache \in [0 .. MaxCacheSize - 1 -> Nat] /\ DOMAIN x.cache = 0 .. MaxCacheSize - 1
    BY DEF Iterator
  <2>2. cells = [i \in 0 .. MaxCacheSize - 1 |-> IF i >= 0 /\ i < 0 + n THEN src[i - 0] ELSE x.cache[i]]
    BY <2>1 DEF Memcpy
  <2>3. ASSUME NEW i \in 0 .. MaxCacheSize - 1 PROVE cells[i] = IF i < n THEN pos + 1 + i ELSE x.cache[i]
    <3>1. i - 0 = i /\ 0 + n = n /\ i >= 0
      BY <1>1
    <3>2. cells[i] = IF i < n THEN src[i] ELSE x.cache[i]
      BY <2>2, <3>1
    <3>3. i < n => i \in 0 .. n - 1
      BY <1>1
    <3> QED
      BY <1>0, <3>2, <3>3, Zenon
  <2> HIDE DEF cells
  <2>4. ASSUME NEW i \in 0 .. MaxCacheSize - 1 PROVE cells[i] \in Nat
    <3>1. x.cache[i] \in Nat /\ pos + 1 + i \in Nat
      BY <1>1, <2>1
    <3> QED
      BY <2>3, <3>1
  <2>5. cells \in [0 .. MaxCacheSize - 1 -> Nat]
    BY <2>2, <2>4
  <2>6. \A k \in 0 .. n - 1 : cells[0 + k] = pos + 1 + k
    BY <1>1, <1>2, <2>3
  <2> QED
    BY <2>1, <2>5, <2>6
<1>4. /\ lack \in Nat /\ lack > 0
      /\ \/ n + lack = WindowSize
         \/ n > StepSize /\ n + lack = WindowSize + StepSize
      /\ 0 + n + lack <= MaxCacheSize
  <2>1. CASE n <= StepSize
    <3>1. (n - 1) \div StepSize = 0
      BY <1>1, <2>1
    <3> QED
      BY <1>1, <2>1, <3>1
  <2>2. CASE n > StepSize
    <3>1. (n - 1) \div StepSize = 1
      BY <1>1, <2>2
    <3> QED
      BY <1>1, <2>2, <3>1
  <2> QED
    BY <1>1, <2>1, <2>2
<1>5. r = [x EXCEPT !.cache = cells, !.ok = TRUE, !.cacheSize = n, !.nextCachePos = 0, !.numCopy = lack]
  BY <1>2 DEF ToFront, MoveDataToCache, Iterator
<1> HIDE DEF cells, lack, r
<1>6. /\ r \in Iterator /\ r.numCopy = lack /\ r.cacheSize = n /\ r.nextCachePos = 0 /\ r.cache = cells
      /\ r.hasNext = x.hasNext /\ r.pcmData = x.pcmData /\ r.ok
  BY <1>3, <1>4, <1>5 DEF Iterator
<1> QED
  BY <1>3, <1>4, <1>6 DEF Lacks, r

\* What Min and Max pick of two numbers.
LEMMA OfTwo ==
    ASSUME NEW m \in Int, NEW n \in Int
    PROVE  /\ Min({m, n}) = IF m <= n THEN m ELSE n
           /\ Max({m, n}) = IF m <= n THEN n ELSE m
<1>1. (\E a \in {m, n} : \A b \in {m, n} : a <= b) /\ (\E a \in {m, n} : \A b \in {m, n} : a >= b)
  BY DEF Min
<1>2. Min({m, n}) \in {m, n} /\ \A b \in {m, n} : Min({m, n}) <= b
  BY <1>1, Zenon DEF Min
<1>3. Max({m, n}) \in {m, n} /\ \A b \in {m, n} : Max({m, n}) >= b
  BY <1>1, Zenon DEF Max
<1> QED
  BY <1>2, <1>3

Array == [from : Nat, size : Nat, live : BOOLEAN]

\* CopyToCache: the cache gets n samples of the input that follows it.
LEMMA CopiedToCache ==
    ASSUME ShortOverlap, sizes \in Sizes, NEW x, NEW pos \in Nat, Lacks(x, pos), x.cacheSize < WindowSize,
           NEW d \in Array, d.live, d.from = pos + x.cacheSize + 1,
           NEW n \in Nat, n = IF x.numCopy <= d.size THEN x.numCopy ELSE d.size
    PROVE  LET r == CopyToCache(x, d)
           IN  /\ r \in Iterator /\ r.ok /\ r.hasNext = x.hasNext
               /\ r.nextCachePos = x.nextCachePos /\ r.cacheSize = x.cacheSize + n
               /\ r.numCopy = x.numCopy - n /\ r.numRealCopy = n
               /\ \A k \in 0 .. r.cacheSize - 1 : r.cache[r.nextCachePos + k] = pos + 1 + k
               /\ r.numCopy > 0 => r.pcmData = NoData
               /\ r.numCopy = 0 =>
                     LET skip == IF n > WindowSize - StepSize THEN n - WindowSize + StepSize ELSE 0
                     IN  /\ r.pcmData.live /\ r.pcmData.from = d.from + skip
                         /\ r.pcmData.size = d.size - skip
<1> DEFINE r == CopyToCache(x, d)
           end == x.nextCachePos + x.cacheSize
           src == [k \in 0 .. n - 1 |-> Sample(d, k)]
           cells == Memcpy(x.cache, end, src, n, TRUE)
           skip == IF n > WindowSize - StepSize THEN n - WindowSize + StepSize ELSE 0
           rest == IF x.numCopy = n THEN [from |-> d.from + skip, size |-> d.size - skip, live |-> d.live]
                                    ELSE NoData
<1>1. /\ StepSize \in Nat \ {0} /\ WindowSize \in Nat /\ StepSize <= WindowSize /\ MaxCacheSize \in Nat
  BY CacheSizes
<1>2. /\ x \in Iterator /\ x.cacheSize \in Nat /\ x.numCopy \in Nat /\ x.nextCachePos \in Nat
      /\ x.cacheSize > 0 /\ x.numCopy > 0 /\ end + x.numCopy <= MaxCacheSize
      /\ \A k \in 0 .. x.cacheSize - 1 : x.cache[x.nextCachePos + k] = pos + 1 + k
      /\ x.cache \in [0 .. MaxCacheSize - 1 -> Nat]
  BY DEF Lacks, Iterator
<1>3. d.size \in Nat /\ d.from \in Nat /\ d.live = TRUE
  BY Zenon DEF Array
<1>4. Min({x.numCopy, d.size}) = n /\ n <= x.numCopy /\ n <= d.size /\ end + n <= MaxCacheSize
  <2>1. x.numCopy \in Int /\ d.size \in Int
    BY <1>2, <1>3
  <2>2. Min({x.numCopy, d.size}) = n
    BY <2>1, OfTwo
  <2>3. n <= x.numCopy /\ n <= d.size
    BY <2>1
  <2>4. end \in Nat
    BY <1>2
  <2> HIDE DEF end
  <2> QED
    BY <1>1, <1>2, <2>1, <2>2, <2>3, <2>4
<1>5. Max({n - WindowSize + StepSize, 0}) = skip /\ skip \in 0 .. n
  <2>1. n - WindowSize + StepSize \in Int /\ 0 \in Int
    BY <1>1
  <2>2. Max({n - WindowSize + StepSize, 0}) =
           IF n - WindowSize + StepSize <= 0 THEN 0 ELSE n - WindowSize + StepSize
    BY <2>1, OfTwo
  <2> QED
    BY <1>1, <2>2
<1>6. r = [x EXCEPT !.cache = cells, !.numRealCopy = n, !.ok = TRUE, !.cacheSize = x.cacheSize + n,
                    !.numCopy = x.numCopy - n, !.pcmData = rest]
  BY <1>2, <1>4, <1>5 DEF CopyToCache, Iterator
<1>7. /\ cells \in [0 .. MaxCacheSize - 1 -> Nat]
      /\ \A k \in 0 .. (x.cacheSize + n) - 1 : cells[x.nextCachePos + k] = pos + 1 + k
  <2>1. cells = [i \in 0 .. MaxCacheSize - 1 |-> IF i >= end /\ i < end + n THEN src[i - end] ELSE x.cache[i]]
    BY <1>2 DEF Memcpy
  <2>2. \A k \in 0 .. n - 1 : src[k] = d.from + k
    BY <1>3 DEF Sample
  <2> HIDE DEF cells, src
  <2>3. ASSUME NEW i \in 0 .. MaxCacheSize - 1
        PROVE  cells[i] = IF i >= end /\ i < end + n THEN d.from + (i - end) ELSE x.cache[i]
    <3>1. (i >= end /\ i < end + n) => i - end \in 0 .. n - 1
      BY <1>2
    <3> QED
      BY <2>1, <2>2, <3>1
  <2>4. PICK f \in Nat, c \in Nat, q \in Nat, m \in Nat :
           /\ f = d.from /\ c = x.cacheSize /\ q = x.nextCachePos /\ m = x.numCopy
           /\ f = pos + c + 1 /\ end = q + c /\ n <= m /\ q + c + m <= MaxCacheSize
    BY <1>2, <1>3, <1>4, Zenon
  <2> HIDE DEF end
  <2>5. ASSUME NEW i \in 0 .. MaxCacheSize - 1 PROVE cells[i] \in Nat
    <3>1. x.cache[i] \in Nat
      BY <1>2
    <3>2. i >= end => f + (i - end) \in Nat
      BY <1>1, <2>4
    <3> QED
      BY <2>3, <2>4, <3>1, <3>2
  <2>6. cells \in [0 .. MaxCacheSize - 1 -> Nat]
    BY <2>1, <2>5
  <2>7. ASSUME NEW k \in 0 .. (c + n) - 1 PROVE cells[q + k] = pos + 1 + k
    <3>1. q + k \in 0 .. MaxCacheSize - 1
      BY <1>1, <2>4
    <3>2. CASE k < c
      <4>1. k \in 0 .. c - 1 /\ ~(q + k >= end)
        BY <2>4, <3>2
      <4> QED
        BY <1>2, <2>3, <2>4, <3>1, <4>1
    <3>3. CASE k >= c
      <4>1. q + k >= end /\ q + k < end + n /\ f + ((q + k) - end) = pos + 1 + k
        BY <2>4, <3>3
      <4> QED
        BY <2>3, <2>4, <3>1, <4>1
    <3> QED
      BY <3>2, <3>3
  <2> QED
    BY <2>4, <2>6, <2>7
<1>8. rest \in Array
  BY <1>3, <1>4, <1>5 DEF Array, NoData
<1> HIDE DEF cells, rest, r, skip
<1>9. /\ r \in Iterator /\ r.ok /\ r.hasNext = x.hasNext
      /\ r.nextCachePos = x.nextCachePos /\ r.cacheSize = x.cacheSize + n
      /\ r.numCopy = x.numCopy - n /\ r.numRealCopy = n /\ r.cache = cells /\ r.pcmData = rest
  <2>1. x.cacheSize + n \in Nat /\ x.numCopy - n \in Nat
    BY <1>2, <1>4
  <2> QED
    BY <1>2, <1>6, <1>7, <1>8, <2>1 DEF Iterator, Array
<1>10. r.numCopy > 0 => rest = NoData
  BY <1>2, <1>9 DEF rest
<1>11. r.numCopy = 0 => rest.live /\ rest.from = d.from + skip /\ rest.size = d.size - skip
  <2>1. r.numCopy = 0 => rest = [from |-> d.from + skip, size |-> d.size - skip, live |-> TRUE]
    BY <1>2, <1>3, <1>9 DEF rest
  <2> QED
    BY <2>1
<1> QED
  BY <1>7, <1>9, <1>10, <1>11 DEF r, skip

\* Prepare with an array that follows the cache: the cache still lacks some, or
\* its windows are complete and pcmData_ begins where the windows after do.
LEMMA PreparedLacking ==
    ASSUME ShortOverlap, sizes \in Sizes, NEW x, NEW pos \in Nat, Lacks(x, pos), x.cacheSize < WindowSize,
           NEW d \in Array, d.live, d.from = pos + x.cacheSize + 1,
           x.hasNext => d.size >= WindowSize
    PROVE  LET y == Prepare(x, d)
           IN  Iterates(y, pos, pos + x.cacheSize + d.size) /\ Settled(y) /\ y.ok
<1> DEFINE r == CopyToCache(x, d)
           y == Prepare(x, d)
           full == [r EXCEPT !.hasNext = TRUE]
<1>1. PICK S \in Nat, W \in Nat :
         S = StepSize /\ W = WindowSize /\ S > 0 /\ S <= W /\ W <= 2 * S /\ MaxCacheSize \in Nat
  BY CacheSizes
<1>2. PICK f \in Nat, z \in Nat, c \in Nat, q \in Nat, m \in Nat :
         /\ f = d.from /\ z = d.size /\ c = x.cacheSize /\ q = x.nextCachePos /\ m = x.numCopy
         /\ c > 0 /\ m > 0 /\ c < W /\ q + c + m <= MaxCacheSize /\ f = pos + c + 1
         /\ c + m = W \/ (c > S /\ c + m = W + S)
  <2>1. /\ d.from \in Nat /\ d.size \in Nat
        /\ x.cacheSize \in Nat /\ x.nextCachePos \in Nat /\ x.numCopy \in Nat
    BY DEF Lacks, Iterator, Array
  <2>2. /\ x.cacheSize > 0 /\ x.numCopy > 0 /\ x.cacheSize < W
        /\ x.nextCachePos + x.cacheSize + x.numCopy <= MaxCacheSize
        /\ x.cacheSize + x.numCopy = W \/ (x.cacheSize > S /\ x.cacheSize + x.numCopy = W + S)
    BY <1>1 DEF Lacks
  <2> QED
    BY <2>1, <2>2, Zenon
<1>3. PICK n \in Nat : n = IF m <= z THEN m ELSE z
  OBVIOUS
<1>4. /\ r \in Iterator /\ r.ok /\ r.hasNext = x.hasNext
      /\ r.nextCachePos = q /\ r.cacheSize = c + n /\ r.numCopy = m - n /\ r.numRealCopy = n
      /\ \A k \in 0 .. r.cacheSize - 1 : r.cache[r.nextCachePos + k] = pos + 1 + k
      /\ r.numCopy > 0 => r.pcmData = NoData
      /\ r.numCopy = 0 =>
            LET skip == IF n > W - S THEN n - W + S ELSE 0
            IN  r.pcmData.live /\ r.pcmData.from = f + skip /\ r.pcmData.size = z - skip
  BY <1>1, <1>2, <1>3, CopiedToCache
<1> HIDE DEF r
<1>5. y = IF W <= r.cacheSize \/ W <= r.pcmData.size THEN full ELSE r
  <2>1. r.ok = TRUE /\ ~(r.cacheSize = 0)
    BY <1>2, <1>4
  <2>2. x.numCopy > 0
    BY <1>2
  <2>3. y = CASE ~r.ok -> r
              [] r.ok /\ (W <= r.cacheSize \/ W <= r.pcmData.size) -> full
              [] r.ok /\ r.cacheSize = 0 /\ r.pcmData.size > 0 /\ r.pcmData.size < W ->
                    MoveDataToCache(r, [k \in 0 .. r.pcmData.size - 1 |-> Sample(r.pcmData, k)],
                                    r.pcmData.size, FALSE)
              [] OTHER -> r
    BY <1>1, <2>2 DEF Prepare, r
  <2> HIDE DEF y, full
  <2> QED
    BY <2>1, <2>3
<1>6. /\ full \in Iterator /\ full.ok /\ full.hasNext /\ full.nextCachePos = q /\ full.cacheSize = c + n
      /\ full.numCopy = m - n /\ full.numRealCopy = n /\ full.cache = r.cache /\ full.pcmData = r.pcmData
  BY <1>4 DEF Iterator
<1> HIDE DEF full, y
<1>7. CASE z < m
  <2>1. n = z /\ m - n > 0 /\ r.pcmData.size = 0 /\ ~(W <= 0) /\ z < W
    BY <1>1, <1>2, <1>3, <1>4, <1>7 DEF NoData
  <2>2. ~x.hasNext
    BY <1>1, <1>2, <2>1
  <2>3. /\ y \in Iterator /\ y.ok /\ y.nextCachePos = q /\ y.cacheSize = c + n /\ y.numCopy = m - n
        /\ y.cache = r.cache /\ y.pcmData.size = 0 /\ (y.hasNext <=> c + n >= W)
    <3>1. CASE W <= c + n
      BY <1>4, <1>5, <1>6, <2>1, <3>1
    <3>2. CASE ~(W <= c + n)
      <4>1. y = r
        BY <1>4, <1>5, <2>1, <3>2
      <4> QED
        BY <1>1, <1>2, <1>4, <2>1, <2>2, <3>2, <4>1
    <3> QED
      BY <3>1, <3>2
  <2>4. Lacking(y, pos, pos + c + z)
    BY <1>1, <1>2, <2>1, <2>3 DEF Lacking
  <2>5. Iterates(y, pos, pos + c + z)
    <3>1. y.nextCachePos + y.cacheSize + y.numCopy <= MaxCacheSize
      BY <1>1, <1>2, <2>1, <2>3
    <3> QED
      BY <1>4, <2>3, <2>4, <3>1 DEF Iterates
  <2>6. Settled(y)
    BY <1>2, <2>1, <2>3 DEF Settled
  <2> QED
    BY <1>2, <2>3, <2>5, <2>6 DEF y
<1>8. CASE z >= m
  <2>1. n = m /\ m - n = 0 /\ c + n >= W /\ c + n \in {W, W + S}
    BY <1>1, <1>2, <1>3, <1>8
  <2>2. y = full
    BY <1>4, <1>5, <2>1
  <2>3. PICK skip \in 0 .. n :
           /\ skip = IF n > W - S THEN n - W + S ELSE 0
           /\ y.pcmData.live /\ y.pcmData.from = f + skip /\ y.pcmData.size = z - skip
    BY <1>1, <1>4, <1>6, <2>1, <2>2
  <2>4. Full(y, pos, pos + c + z)
    <3>1. (f + skip) + (z - skip) = (pos + c + z) + 1
      BY <1>2
    <3>2. f + skip = pos + (c + n) + 1 + (IF n > W - S THEN S - W ELSE -n)
      BY <1>1, <1>2, <2>3
    <3>3. pos + (c + n) <= pos + c + z
      BY <1>2, <1>3
    <3> QED
      BY <1>1, <1>6, <2>1, <2>2, <2>3, <3>1, <3>2, <3>3 DEF Full
  <2>5. Iterates(y, pos, pos + c + z)
    <3>1. y.nextCachePos + y.cacheSize + y.numCopy <= MaxCacheSize
      BY <1>1, <1>2, <1>6, <2>1, <2>2
    <3> QED
      BY <1>4, <1>6, <2>2, <2>4, <3>1 DEF Iterates
  <2>6. Settled(y)
    BY <1>1, <1>2, <1>6, <2>1, <2>2 DEF Settled
  <2> QED
    BY <1>2, <1>6, <2>2, <2>5, <2>6 DEF y
<1> QED
  BY <1>2, <1>7, <1>8

LEMMA SettledStays ==
    ASSUME ShortOverlap, sizes \in Sizes, NEW x, x \in Iterator, Settled(x)
    PROVE  HasNext(x) = x
<1>1. x.cacheSize \in Nat /\ x.numCopy \in Nat /\ x.pcmData.size \in Nat /\ WindowSize \in Nat
  BY CacheSizes DEF Iterator
<1>2. ~(x.numCopy = 0 /\ x.cacheSize > 0 /\ x.cacheSize < WindowSize)
  BY <1>1 DEF Settled
<1>3. ~(x.cacheSize = 0 /\ x.pcmData.size > 0 /\ x.pcmData.size < WindowSize)
  BY <1>1 DEF Settled
<1> QED
  BY <1>2, <1>3, Zenon DEF HasNext

\* HasNext moves what has to be moved, and a second time it moves nothing.
LEMMA HasNextSettles ==
    ASSUME ShortOverlap, sizes \in Sizes, NEW x, NEW pos \in Nat, NEW end \in Nat, Iterates(x, pos, end)
    PROVE  Iterates(HasNext(x), pos, end) /\ Settled(HasNext(x))
<1>1. PICK S \in Nat, W \in Nat :
         S = StepSize /\ W = WindowSize /\ S > 0 /\ S <= W /\ W <= 2 * S /\ MaxCacheSize \in Nat
  BY CacheSizes
<1>2. PICK c \in Nat, q \in Nat, m \in Nat, d \in Array :
         /\ c = x.cacheSize /\ q = x.nextCachePos /\ m = x.numCopy /\ d = x.pcmData /\ d.size \in Nat
         /\ x \in Iterator
  BY DEF Iterates, Iterator, Array
<1> DEFINE rest == [k \in 0 .. x.cacheSize - 1 |-> x.cache[x.nextCachePos + k]]
           tail == [k \in 0 .. d.size - 1 |-> Sample(d, k)]
<1>3. CASE Between(x, pos, end)
  <2>1. /\ m = 0 /\ c > 0 /\ c <= S /\ c < W /\ q >= S /\ d.live /\ d.from = pos + c + 1
        /\ d.from + d.size = end + 1 /\ (x.hasNext <=> d.size >= W)
    BY <1>1, <1>2, <1>3 DEF Between
  <2> DEFINE r == ToFront(x, rest, c)
  <2>2. HasNext(x) = Prepare(r, d)
    <3>1. (x.cacheSize > x.nextCachePos) = FALSE
      BY <1>1, <1>2, <2>1
    <3>2. /\ x.nextCachePos > 0 /\ x.numCopy = 0 /\ x.cacheSize > 0 /\ x.cacheSize < WindowSize
      BY <1>1, <1>2, <2>1
    <3>3. HasNext(x) =
             Prepare(MoveDataToCache(x, rest, x.cacheSize, x.cacheSize > x.nextCachePos), x.pcmData)
      BY <3>2, Zenon DEF HasNext
    <3> QED
      BY <1>2, <3>1, <3>3, Zenon DEF ToFront
  <2>3. Holds(rest, c, pos)
    BY <1>2 DEF Iterates, Holds
  <2> HIDE DEF rest
  <2>4. Lacks(r, pos) /\ r.cacheSize = c /\ r.hasNext = x.hasNext
    <3>1. c < WindowSize
      BY <1>1, <2>1
    <3> QED
      BY <1>2, <2>1, <2>3, <3>1, MovedToCache
  <2> HIDE DEF r
  <2>5. pos + c + d.size = end
    BY <1>2, <2>1
  <2>6. Iterates(Prepare(r, d), pos, pos + c + d.size) /\ Settled(Prepare(r, d))
    BY <1>1, <1>2, <2>1, <2>4, PreparedLacking
  <2> QED
    BY <2>2, <2>5, <2>6
<1>4. CASE Direct(x, pos, end) /\ d.size > 0 /\ d.size < W
  <2>1. /\ c = 0 /\ m = 0 /\ d.live /\ d.from = pos + 1 /\ pos + d.size = end /\ ~x.hasNext
    BY <1>1, <1>2, <1>4 DEF Direct
  <2> DEFINE r == ToFront(x, tail, d.size)
             y == [r EXCEPT !.pcmData.size = 0]
  <2>2. HasNext(x) = y
    BY <1>1, <1>2, <1>4, <2>1 DEF HasNext, ToFront
  <2>3. Holds(tail, d.size, pos)
    BY <1>2, <2>1 DEF Sample, Holds
  <2> HIDE DEF tail
  <2>4. Lacks(r, pos) /\ r.cacheSize = d.size /\ r.hasNext = x.hasNext
    <3>1. d.size < WindowSize
      BY <1>1, <1>4
    <3> QED
      BY <1>2, <1>4, <2>3, <3>1, MovedToCache
  <2> HIDE DEF r
  <2>5. /\ y \in Iterator /\ y.numCopy = r.numCopy /\ y.cacheSize = r.cacheSize /\ y.cache = r.cache
        /\ y.nextCachePos = r.nextCachePos /\ y.hasNext = r.hasNext /\ y.pcmData.size = 0
    BY <2>4 DEF Lacks, Iterator
  <2> HIDE DEF y
  <2>6. Lacking(y, pos, end)
    <3>1. ~y.hasNext
      BY <2>1, <2>4, <2>5, Zenon
    <3>2. /\ y.cacheSize > 0 /\ y.numCopy > 0 /\ pos + y.cacheSize = end /\ y.pcmData.size < WindowSize
          /\ ~(y.cacheSize >= WindowSize)
      BY <1>1, <1>2, <1>4, <2>1, <2>4, <2>5 DEF Lacks
    <3>3. \/ y.cacheSize + y.numCopy = WindowSize
          \/ y.cacheSize > StepSize /\ y.cacheSize + y.numCopy = WindowSize + StepSize
      BY <2>4, <2>5 DEF Lacks
    <3> QED
      BY <3>1, <3>2, <3>3, Zenon DEF Lacking
  <2>7. Iterates(y, pos, end)
    BY <2>4, <2>5, <2>6 DEF Iterates, Lacks
  <2>8. Settled(y)
    BY <1>4, <2>4, <2>5, <2>6 DEF Settled, Lacking
  <2> QED
    BY <2>2, <2>7, <2>8
<1>5. CASE ~Between(x, pos, end) /\ ~(Direct(x, pos, end) /\ d.size > 0 /\ d.size < W)
  <2>1. Settled(x)
    <3>1. CASE Direct(x, pos, end)
      BY <1>1, <1>2, <1>5, <3>1 DEF Direct, Settled
    <3>2. CASE Lacking(x, pos, end)
      BY <1>1, <1>2, <3>2 DEF Lacking, Settled
    <3>3. CASE Full(x, pos, end)
      BY <1>1, <1>2, <3>3 DEF Full, Settled
    <3> QED
      BY <1>5, <3>1, <3>2, <3>3 DEF Iterates
  <2>2. HasNext(x) = x
    BY <1>2, <2>1, SettledStays
  <2> QED
    BY <2>1, <2>2
<1> QED
  BY <1>3, <1>4, <1>5

\* Next returns the window that begins after pos samples, and leaves the
\* iterator one step further.
LEMMA WindowTaken ==
    ASSUME ShortOverlap, sizes \in Sizes, NEW x, NEW pos \in Nat, NEW end \in Nat,
           Iterates(x, pos, end), Settled(x), x.hasNext
    PROVE  /\ NextWindow(x) = [k \in 1 .. WindowSize |-> pos + k]
           /\ pos + WindowSize <= end
           /\ Iterates(Advance(x), pos + StepSize, end)
<1> DEFINE y == Advance(x)
           left == x.cacheSize - StepSize
           onward == [x EXCEPT !.nextCachePos = x.nextCachePos + StepSize,
                               !.cacheSize = IF x.numCopy = 0 /\ left < WindowSize
                                             THEN Max({WindowSize - StepSize - x.numRealCopy, 0})
                                             ELSE left]
<1>1. PICK S \in Nat, W \in Nat :
         S = StepSize /\ W = WindowSize /\ S > 0 /\ S <= W /\ W <= 2 * S /\ MaxCacheSize \in Nat
  BY CacheSizes
<1>2. PICK c \in Nat, q \in Nat, m \in Nat, nr \in Nat, f \in Nat, z \in Nat :
         /\ c = x.cacheSize /\ q = x.nextCachePos /\ m = x.numCopy /\ nr = x.numRealCopy
         /\ f = x.pcmData.from /\ z = x.pcmData.size
         /\ q + c + m <= MaxCacheSize
  <2>1. /\ x.cacheSize \in Nat /\ x.nextCachePos \in Nat /\ x.numCopy \in Nat /\ x.numRealCopy \in Nat
        /\ x.pcmData.from \in Nat /\ x.pcmData.size \in Nat
        /\ x.nextCachePos + x.cacheSize + x.numCopy <= MaxCacheSize
    BY DEF Iterates, Iterator
  <2> QED
    BY <2>1, Zenon
<1>3. x \in Iterator /\ \A k \in 0 .. c - 1 : x.cache[q + k] = pos + 1 + k
  BY <1>2 DEF Iterates
<1>4. CASE Direct(x, pos, end)
  <2> DEFINE past == [x EXCEPT !.pcmData.from = @ + StepSize, !.pcmData.size = @ - StepSize]
  <2>1. c = 0 /\ m = 0 /\ pos + z = end /\ z >= W /\ x.pcmData.live /\ f = pos + 1 /\ ~(W <= c)
    BY <1>1, <1>2, <1>4 DEF Direct
  <2>2. NextWindow(x) = [k \in 1 .. WindowSize |-> pos + k]
    <3>1. \A k \in 1 .. W : Sample(x.pcmData, k - 1) = pos + k
      BY <1>1, <1>2, <2>1 DEF Sample
    <3> QED
      BY <1>1, <1>2, <2>1, <3>1 DEF NextWindow
  <2>3. /\ past \in Iterator /\ past.cacheSize = c /\ past.numCopy = m /\ past.nextCachePos = q
        /\ past.pcmData.from = f + S /\ past.pcmData.size = z - S /\ past.pcmData.live
    <3>1. x.pcmData.from + StepSize \in Nat /\ x.pcmData.size - StepSize \in Nat
      BY <1>1, <1>2, <2>1
    <3> QED
      BY <1>1, <1>2, <1>3, <2>1, <3>1 DEF Iterator
  <2>4. y = [past EXCEPT !.hasNext = x.hasNext /\ ~(past.cacheSize < WindowSize /\ past.pcmData.size < WindowSize)]
    BY <1>1, <1>2, <2>1 DEF Advance
  <2> HIDE DEF past
  <2>5. /\ y \in Iterator /\ y.cacheSize = 0 /\ y.numCopy = 0 /\ y.nextCachePos = q
        /\ y.pcmData.from = f + S /\ y.pcmData.size = z - S /\ y.pcmData.live
        /\ y.hasNext <=> z - S >= W
    <3>1. (past.cacheSize < WindowSize /\ past.pcmData.size < WindowSize) <=> ~(z - S >= W)
      BY <1>1, <1>2, <2>1, <2>3
    <3>2. /\ y \in Iterator /\ y.cacheSize = past.cacheSize /\ y.numCopy = past.numCopy
          /\ y.nextCachePos = past.nextCachePos /\ y.pcmData = past.pcmData
          /\ y.hasNext = (x.hasNext /\ ~(past.cacheSize < WindowSize /\ past.pcmData.size < WindowSize))
      BY <2>3, <2>4 DEF Iterator
    <3> HIDE DEF y
    <3>3. y.hasNext <=> z - S >= W
      BY <3>1, <3>2, Zenon
    <3> QED
      BY <2>1, <2>3, <3>2, <3>3
  <2> HIDE DEF y
  <2>6. Direct(y, pos + StepSize, end)
    BY <1>1, <2>1, <2>5 DEF Direct
  <2>7. Iterates(y, pos + StepSize, end)
    <3>1. \A k \in 0 .. y.cacheSize - 1 : y.cache[y.nextCachePos + k] = (pos + StepSize) + 1 + k
      BY <2>5
    <3>2. y.nextCachePos + y.cacheSize + y.numCopy <= MaxCacheSize
      BY <1>1, <1>2, <2>1, <2>5
    <3> QED
      BY <2>5, <2>6, <3>1, <3>2 DEF Iterates
  <2> QED
    BY <1>1, <2>1, <2>2, <2>7 DEF y
<1>5. CASE Lacking(x, pos, end) \/ Full(x, pos, end)
  <2>1. c >= W /\ pos + c <= end
    BY <1>1, <1>2, <1>5 DEF Lacking, Full
  <2>2. NextWindow(x) = [k \in 1 .. WindowSize |-> pos + k]
    <3>1. \A k \in 1 .. W : x.cache[(q + k) - 1] = pos + k
      <4>1. ASSUME NEW k \in 1 .. W PROVE x.cache[(q + k) - 1] = pos + k
        <5>1. k - 1 \in 0 .. c - 1 /\ q + (k - 1) = (q + k) - 1 /\ pos + 1 + (k - 1) = pos + k
          BY <1>1, <2>1
        <5> QED
          BY <1>3, <5>1
      <4> QED
        BY <4>1
    <3>2. WindowSize <= x.cacheSize
      BY <1>1, <1>2, <2>1
    <3> QED
      BY <1>1, <1>2, <3>1, <3>2 DEF NextWindow
  <2>3. PICK e \in Nat :
           /\ (m = 0 /\ c - S < W) => e = IF nr < W - S THEN W - S - nr ELSE 0
           /\ ~(m = 0 /\ c - S < W) => e = c - S
           /\ e <= c - S
    <3>1. CASE ~(m = 0 /\ c - S < W)
      BY <1>1, <2>1, <3>1
    <3>2. CASE (m = 0 /\ c - S < W) /\ nr < W - S
      <4>1. W - S - nr \in Nat /\ W - S - nr <= c - S
        BY <1>1, <2>1, <3>2
      <4> QED
        BY <3>2, <4>1, Zenon
    <3>3. CASE (m = 0 /\ c - S < W) /\ ~(nr < W - S)
      <4>1. 0 \in Nat /\ 0 <= c - S
        BY <1>1, <2>1, <3>3
      <4> QED
        BY <3>3, <4>1, Zenon
    <3> QED
      BY <3>1, <3>2, <3>3
  <2>4. (IF x.numCopy = 0 /\ left < WindowSize THEN Max({WindowSize - StepSize - x.numRealCopy, 0}) ELSE left) = e
    <3>0. W - S - nr \in Int /\ 0 \in Int
      OBVIOUS
    <3>1. Max({W - S - nr, 0}) = IF W - S - nr <= 0 THEN 0 ELSE W - S - nr
      BY <3>0, OfTwo, Zenon
    <3>2. Max({W - S - nr, 0}) = IF nr < W - S THEN W - S - nr ELSE 0
      BY <3>1
    <3> QED
      BY <1>1, <1>2, <2>3, <3>2
  <2>5. /\ onward \in Iterator /\ onward.cacheSize = e /\ onward.nextCachePos = q + S
        /\ onward.numCopy = m /\ onward.numRealCopy = nr /\ onward.cache = x.cache /\ onward.pcmData = x.pcmData
    <3>1. onward = [x EXCEPT !.nextCachePos = q + S, !.cacheSize = e]
      BY <1>1, <1>2, <2>4
    <3> HIDE DEF onward
    <3>2. q + S \in Nat
      BY <1>1
    <3> QED
      BY <1>2, <1>3, <3>1, <3>2 DEF Iterator
  <2>6. y = [onward EXCEPT !.hasNext =
                x.hasNext /\ ~(onward.cacheSize < WindowSize /\ onward.pcmData.size < WindowSize)]
    BY <1>1, <1>2, <2>1 DEF Advance
  <2> HIDE DEF onward, left
  <2>7. /\ y \in Iterator /\ y.cacheSize = e /\ y.nextCachePos = q + S /\ y.numCopy = m /\ y.numRealCopy = nr
        /\ y.cache = x.cache /\ y.pcmData = x.pcmData
        /\ y.hasNext <=> ~(e < W /\ z < W)
    <3>1. /\ y \in Iterator /\ y.cacheSize = onward.cacheSize /\ y.nextCachePos = onward.nextCachePos
          /\ y.numCopy = onward.numCopy /\ y.numRealCopy = onward.numRealCopy
          /\ y.cache = onward.cache /\ y.pcmData = onward.pcmData
          /\ y.hasNext = (x.hasNext /\ ~(onward.cacheSize < WindowSize /\ onward.pcmData.size < WindowSize))
      BY <2>5, <2>6 DEF Iterator
    <3> HIDE DEF y
    <3>2. y.hasNext <=> ~(e < W /\ z < W)
      BY <1>1, <1>2, <2>5, <3>1, Zenon
    <3> QED
      BY <2>5, <3>1, <3>2
  <2> HIDE DEF y
  <2>8. Lacking(y, pos + S, end) \/ Full(y, pos + S, end) \/ Direct(y, pos + S, end) \/ Between(y, pos + S, end)
    <3>1. CASE Lacking(x, pos, end)
      <4>1. m > 0 /\ pos + c = end /\ z < W /\ c > S /\ c + m = W + S
        BY <1>1, <1>2, <2>1, <3>1 DEF Lacking
      <4>2. e = c - S
        BY <2>3, <4>1
      <4>3. e > 0 /\ e < W /\ e + m = W /\ (pos + S) + e = end
        BY <1>1, <2>1, <4>1, <4>2
      <4> QED
        BY <1>1, <1>2, <2>7, <4>1, <4>3 DEF Lacking
    <3>2. CASE Full(x, pos, end)
      <4>1. PICK adj \in Int : adj = IF nr > W - S THEN S - W ELSE -nr
        BY <1>1
      <4>2. /\ m = 0 /\ c \in {W, W + S} /\ pos + c <= end /\ x.pcmData.live /\ f + z = end + 1
            /\ f = pos + c + 1 + adj
        BY <1>1, <1>2, <3>2, <4>1 DEF Full
      <4>3. CASE c = W + S
        <5>1. e = W /\ (pos + S) + e <= end /\ f = (pos + S) + e + 1 + adj
          BY <1>1, <2>3, <4>1, <4>2, <4>3
        <5>2. y.hasNext
          BY <1>1, <2>7, <5>1
        <5> QED
          BY <1>1, <1>2, <2>7, <4>1, <4>2, <5>1, <5>2 DEF Full
      <4>4. CASE c = W /\ nr >= W - S
        <5>1. e = 0 /\ adj = S - W /\ f = (pos + S) + 1 /\ (pos + S) + z = end
          BY <1>1, <2>3, <4>1, <4>2, <4>4
        <5>2. y.hasNext <=> z >= W
          BY <1>1, <2>7, <5>1
        <5> QED
          BY <1>1, <1>2, <2>7, <4>2, <5>1, <5>2 DEF Direct
      <4>5. CASE c = W /\ nr < W - S
        <5>1. e = W - S - nr /\ e > 0 /\ e <= S /\ e < W /\ f = (pos + S) + e + 1
          BY <1>1, <2>3, <4>1, <4>2, <4>5
        <5>2. y.hasNext <=> z >= W
          BY <1>1, <2>7, <5>1
        <5>3. q + S >= S
          BY <1>1
        <5> QED
          BY <1>1, <1>2, <2>7, <4>2, <5>1, <5>2, <5>3 DEF Between
      <4> QED
        BY <4>2, <4>3, <4>4, <4>5
    <3> QED
      BY <1>5, <3>1, <3>2
  <2>9. \A k \in 0 .. e - 1 : x.cache[(q + S) + k] = (pos + S) + 1 + k
    <3>1. ASSUME NEW k \in 0 .. e - 1 PROVE x.cache[(q + S) + k] = (pos + S) + 1 + k
      <4>1. S + k \in 0 .. c - 1 /\ q + (S + k) = (q + S) + k /\ pos + 1 + (S + k) = (pos + S) + 1 + k
        BY <2>3
      <4> QED
        BY <1>3, <4>1
    <3> QED
      BY <3>1
  <2>10. (q + S) + e + m <= MaxCacheSize
    BY <1>1, <1>2, <2>3
  <2>11. Iterates(y, pos + S, end)
    BY <2>7, <2>8, <2>9, <2>10 DEF Iterates
  <2> QED
    BY <1>1, <2>1, <2>2, <2>11 DEF y
<1>6. ~Between(x, pos, end)
  BY <1>1, <1>2 DEF Between, Settled
<1> QED
  BY <1>4, <1>5, <1>6 DEF Iterates

\* An input accepted when every window was taken continues the stream.
LEMMA InputSet ==
    ASSUME ShortOverlap, sizes \in Sizes, NEW x, NEW pos \in Nat, NEW end \in Nat,
           Iterates(x, pos, end), Settled(x), ~x.hasNext, NEW n \in Nat, n > 0
    PROVE  LET y == Prepare(x, [from |-> end + 1, size |-> n, live |-> TRUE])
           IN  Iterates(y, pos, end + n) /\ y.ok
<1> DEFINE d == [from |-> end + 1, size |-> n, live |-> TRUE]
           y == Prepare(x, d)
<1>1. PICK S \in Nat, W \in Nat :
         S = StepSize /\ W = WindowSize /\ S > 0 /\ S <= W /\ W <= 2 * S /\ MaxCacheSize \in Nat
  BY CacheSizes
<1>2. PICK c \in Nat, q \in Nat, m \in Nat, z \in Nat :
         /\ c = x.cacheSize /\ q = x.nextCachePos /\ m = x.numCopy /\ z = x.pcmData.size
         /\ q + c + m <= MaxCacheSize
  <2>1. /\ x.cacheSize \in Nat /\ x.nextCachePos \in Nat /\ x.numCopy \in Nat /\ x.pcmData.size \in Nat
        /\ x.nextCachePos + x.cacheSize + x.numCopy <= MaxCacheSize
    BY DEF Iterates, Iterator
  <2> QED
    BY <2>1, Zenon
<1>3. d \in Array /\ d.from = end + 1 /\ d.size = n /\ d.live
  BY DEF Array
<1>4. x \in Iterator
  BY DEF Iterates
<1> HIDE DEF d
<1>5. CASE Direct(x, pos, end)
  <2> DEFINE r == [x EXCEPT !.numRealCopy = 0, !.pcmData = d, !.ok = TRUE]
             t == [r EXCEPT !.hasNext = TRUE]
             src == [k \in 0 .. n - 1 |-> Sample(d, k)]
  <2>1. c = 0 /\ m = 0 /\ z = 0 /\ pos = end
    BY <1>1, <1>2, <1>5 DEF Direct, Settled
  <2>2. /\ r \in Iterator /\ r.ok = TRUE /\ r.cacheSize = 0 /\ r.numCopy = 0 /\ r.nextCachePos = q
        /\ r.pcmData = d /\ r.hasNext = x.hasNext
    BY <1>2, <1>3, <1>4, <2>1 DEF Iterator, Array
  <2>3. y = CASE ~r.ok -> r
              [] r.ok /\ (W <= r.cacheSize \/ W <= r.pcmData.size) -> t
              [] r.ok /\ r.cacheSize = 0 /\ r.pcmData.size > 0 /\ r.pcmData.size < W ->
                    MoveDataToCache(r, [k \in 0 .. r.pcmData.size - 1 |-> Sample(r.pcmData, k)],
                                    r.pcmData.size, FALSE)
              [] OTHER -> r
    <3>1. (x.numCopy > 0) = FALSE
      BY <1>2, <2>1
    <3>2. r = IF x.numCopy > 0 THEN CopyToCache(x, d)
              ELSE [x EXCEPT !.numRealCopy = 0, !.pcmData = d, !.ok = TRUE]
      BY <3>1, Zenon
    <3> HIDE DEF r
    <3> QED
      BY <1>1, <3>2 DEF Prepare
  <2>4. /\ t \in Iterator /\ t.ok = TRUE /\ t.cacheSize = 0 /\ t.numCopy = 0 /\ t.nextCachePos = q
        /\ t.pcmData = d /\ t.hasNext = TRUE
    BY <2>2 DEF Iterator
  <2> HIDE DEF r, t, y
  <2>5. CASE n >= W
    <3>1. y = t
      <4>1. r.ok = TRUE /\ W <= r.pcmData.size
        BY <1>1, <1>3, <2>2, <2>5
      <4>2. ~(r.pcmData.size < W)
        BY <1>1, <1>3, <2>2, <2>5
      <4> QED
        BY <2>3, <4>1, <4>2
    <3>2. Direct(t, pos, end + n)
      BY <1>1, <1>3, <2>1, <2>4, <2>5 DEF Direct
    <3>3. t.nextCachePos + t.cacheSize + t.numCopy <= MaxCacheSize
      BY <1>1, <1>2, <2>1, <2>4
    <3>4. \A k \in 0 .. t.cacheSize - 1 : t.cache[t.nextCachePos + k] = pos + 1 + k
      BY <2>4
    <3>5. Iterates(t, pos, end + n)
      BY <2>4, <3>2, <3>3, <3>4 DEF Iterates
    <3> QED
      BY <2>4, <3>1, <3>5 DEF y, d
  <2>6. CASE n < W
    <3>1. y = ToFront(r, src, n)
      <4>1. /\ r.ok = TRUE /\ r.cacheSize = 0 /\ r.pcmData = d /\ d.size = n /\ n > 0 /\ n < W
            /\ ~(W <= 0) /\ ~(W <= n)
        BY <1>1, <1>3, <2>2, <2>6
      <4>2. y = CASE ~TRUE -> r
                  [] TRUE /\ (W <= 0 \/ W <= n) -> t
                  [] TRUE /\ 0 = 0 /\ n > 0 /\ n < W -> MoveDataToCache(r, src, n, FALSE)
                  [] OTHER -> r
        BY <2>3, <4>1, Zenon
      <4> QED
        BY <4>1, <4>2 DEF ToFront
    <3>2. Holds(src, n, pos)
      BY <1>3, <2>1 DEF Holds, Sample
    <3> HIDE DEF src
    <3>3. n < WindowSize
      BY <1>1, <2>6
    <3>4. /\ Lacks(y, pos) /\ y.cacheSize = n /\ y.hasNext = r.hasNext /\ y.pcmData = r.pcmData /\ y.ok
      BY <2>2, <3>1, <3>2, <3>3, MovedToCache
    <3>5. Lacking(y, pos, end + n)
      <4>1. y.cacheSize > 0 /\ y.numCopy > 0 /\ pos + y.cacheSize = end + n
        BY <2>1, <3>4 DEF Lacks
      <4>2. y.pcmData.size < WindowSize /\ ~(y.cacheSize >= WindowSize)
        BY <1>1, <1>3, <2>2, <2>6, <3>4
      <4>3. ~y.hasNext
        BY <2>2, <3>4, Zenon
      <4>4. \/ y.cacheSize + y.numCopy = WindowSize
            \/ y.cacheSize > StepSize /\ y.cacheSize + y.numCopy = WindowSize + StepSize
        BY <3>4 DEF Lacks
      <4> QED
        BY <4>1, <4>2, <4>3, <4>4, Zenon DEF Lacking
    <3>6. Iterates(y, pos, end + n)
      BY <3>4, <3>5 DEF Iterates, Lacks
    <3> QED
      BY <3>4, <3>6 DEF y, d
  <2> QED
    BY <1>1, <2>5, <2>6
<1>6. CASE Lacking(x, pos, end)
  <2>1. pos + c = end /\ x.cacheSize < WindowSize /\ Lacks(x, pos)
    <3>1. pos + c = end /\ x.cacheSize < WindowSize
      BY <1>1, <1>2, <1>6 DEF Lacking
    <3> QED
      BY <1>6, <3>1 DEF Lacks, Lacking, Iterates
  <2>2. d.from = pos + x.cacheSize + 1
    BY <1>2, <1>3, <2>1
  <2>3. Iterates(y, pos, pos + x.cacheSize + d.size) /\ y.ok
    BY <1>3, <2>1, <2>2, PreparedLacking
  <2>4. pos + x.cacheSize + d.size = end + n
    BY <1>2, <1>3, <2>1
  <2> QED
    BY <2>3, <2>4 DEF d
<1>7. ~Between(x, pos, end) /\ ~Full(x, pos, end)
  BY <1>1, <1>2 DEF Between, Full, Settled
<1> QED
  BY <1>5, <1>6, <1>7 DEF Iterates

\* Nothing of the caller's array is needed after its last window.
LEMMA Returned ==
    ASSUME ShortOverlap, sizes \in Sizes, NEW x, NEW pos \in Nat, NEW end \in Nat,
           Iterates(x, pos, end), Settled(x), ~x.hasNext
    PROVE  Iterates(Return(x), pos, end) /\ Settled(Return(x)) /\ ~Return(x).hasNext
<1> DEFINE y == Return(x)
<1>1. x \in Iterator /\ WindowSize \in Nat /\ WindowSize > 0
  BY CacheSizes DEF Iterates
<1>2. /\ y \in Iterator /\ y.numCopy = x.numCopy /\ y.cacheSize = x.cacheSize /\ y.hasNext = x.hasNext
      /\ y.nextCachePos = x.nextCachePos /\ y.cache = x.cache /\ y.pcmData.size = x.pcmData.size
  BY <1>1 DEF Return, Iterator
<1> HIDE DEF y
<1>3. Settled(y) /\ ~y.hasNext
  BY <1>2 DEF Settled
<1>4. Direct(y, pos, end) \/ Lacking(y, pos, end)
  <2>1. CASE Direct(x, pos, end)
    <3>1. x.pcmData.size \in Nat /\ ~(x.pcmData.size >= WindowSize) /\ x.cacheSize = 0
      BY <1>1, <2>1 DEF Direct, Iterator
    <3>2. x.pcmData.size = 0
      BY <1>1, <3>1 DEF Settled
    <3> QED
      BY <1>1, <1>2, <2>1, <3>2 DEF Direct
  <2>2. CASE Lacking(x, pos, end)
    BY <1>2, <2>2 DEF Lacking
  <2>3. ~Between(x, pos, end) /\ ~Full(x, pos, end)
    BY <1>1 DEF Between, Full, Settled, Iterator
  <2> QED
    BY <2>1, <2>2, <2>3 DEF Iterates
<1>5. Iterates(y, pos, end)
  BY <1>2, <1>4 DEF Iterates
<1> QED
  BY <1>3, <1>5 DEF y

\* A new iterator, before any sample was passed.
LEMMA Fresh ==
    ASSUME ShortOverlap, sizes \in Sizes
    PROVE  Iterates(PcmIterator, 0, 0) /\ Settled(PcmIterator) /\ ~PcmIterator.hasNext
<1>1. WindowSize \in Nat /\ WindowSize > 0 /\ MaxCacheSize \in Nat
  BY CacheSizes
<1>2. [i \in 0 .. MaxCacheSize - 1 |-> 0] \in [0 .. MaxCacheSize - 1 -> Nat]
  OBVIOUS
<1>3. PcmIterator \in Iterator
  BY <1>2 DEF PcmIterator, Iterator, NoData
<1>4. /\ PcmIterator.numCopy = 0 /\ PcmIterator.cacheSize = 0 /\ PcmIterator.nextCachePos = 0
      /\ PcmIterator.hasNext = FALSE /\ PcmIterator.pcmData.size = 0
  BY DEF PcmIterator, NoData
<1>5. Direct(PcmIterator, 0, 0)
  BY <1>1, <1>4 DEF Direct
<1>6. \A k \in 0 .. PcmIterator.cacheSize - 1 : PcmIterator.cache[PcmIterator.nextCachePos + k] = 0 + 1 + k
  BY <1>4
<1>7. Iterates(PcmIterator, 0, 0)
  BY <1>1, <1>3, <1>4, <1>5, <1>6 DEF Iterates
<1> QED
  BY <1>4, <1>7 DEF Settled

\* Every complete window was handed out, and no more.
LEMMA Counted ==
    ASSUME NEW S \in Nat, S > 0, NEW W \in Nat, NEW n \in Nat, NEW end \in Nat,
           end < n * S + W, n > 0 => (n - 1) * S + W <= end, W > 0
    PROVE  n = IF end < W THEN 0 ELSE (end - W) \div S + 1
<1>1. CASE n = 0
  <2>1. end < W
    BY <1>1
  <2> QED
    BY <1>1, <2>1
<1>2. CASE n > 0
  <2> DEFINE p == (n - 1) * S
  <2>1. p \in Nat /\ n * S = p + S
    BY <1>2
  <2>2. p <= end - W /\ end - W < p + S /\ end - W \in Nat /\ ~(end < W)
    <3> HIDE DEF p
    <3>1. (n - 1) * S = p
      BY DEF p
    <3> QED
      BY <1>2, <2>1, <3>1
  <2>3. (end - W) \div S = n - 1
    <3> DEFINE a == end - W
               u == n - 1
    <3>1. a \in Nat /\ u \in Nat /\ u * S <= a /\ a < u * S + S
      BY <1>2, <2>2
    <3> HIDE DEF a, u
    <3>2. a \div S = u
      BY <3>1
    <3> QED
      BY <3>2 DEF a, u
  <2> HIDE DEF p
  <2> QED
    BY <1>2, <2>2, <2>3
<1> QED
  BY <1>1, <1>2

\* What TakeWindow does to the stream.
LEMMA Taken ==
    ASSUME ShortOverlap, WindowsInv, ~failed, call = "loop", Ready.hasNext
    PROVE  /\ NextWindow(HasNext(Ready)) = [k \in 1 .. WindowSize |-> windows * StepSize + k]
           /\ windows * StepSize + WindowSize <= fed
           /\ Iterates(Advance(HasNext(Ready)), (windows + 1) * StepSize, fed)
<1>1. sizes \in Sizes /\ windows \in Nat /\ fed \in Nat /\ Iterates(it, windows * StepSize, fed)
  BY DEF WindowsInv
<1>2. StepSize \in Nat
  BY <1>1, CacheSizes
<1>3. PICK pos \in Nat : pos = windows * StepSize /\ (windows + 1) * StepSize = pos + StepSize
  BY <1>1, <1>2
<1>4. Iterates(Ready, pos, fed) /\ Settled(Ready)
  BY <1>1, <1>3, HasNextSettles DEF Ready
<1>5. HasNext(Ready) = Ready
  <2>1. Ready \in Iterator
    BY <1>4 DEF Iterates
  <2> QED
    BY <1>1, <1>4, <2>1, SettledStays
<1>6. /\ NextWindow(Ready) = [k \in 1 .. WindowSize |-> pos + k]
      /\ pos + WindowSize <= fed
      /\ Iterates(Advance(Ready), pos + StepSize, fed)
  BY <1>1, <1>4, WindowTaken
<1> QED
  BY <1>3, <1>5, <1>6

\* The sizes stay, and with them what an iterator has to be.
LEMMA SameIterates ==
    ASSUME UNCHANGED sizes, NEW y, NEW pos, NEW end,
           it' = y, windows' * StepSize = pos, fed' = end
    PROVE  /\ Iterates(it, windows * StepSize, fed)' <=> Iterates(y, pos, end)
           /\ Settled(it)' <=> Settled(y)
<1>1. StepSize' = StepSize /\ WindowSize' = WindowSize
  BY DEF StepSize, WindowSize
<1>2. MaxCacheSize' = MaxCacheSize
  BY <1>1 DEF MaxCacheSize
<1>3. Iterator' = Iterator
  BY <1>2 DEF Iterator
<1>4. (windows * StepSize)' = pos
  BY <1>1
<1>5. /\ Direct(it, windows * StepSize, fed)' <=> Direct(y, pos, end)
      /\ Lacking(it, windows * StepSize, fed)' <=> Lacking(y, pos, end)
      /\ Full(it, windows * StepSize, fed)' <=> Full(y, pos, end)
      /\ Between(it, windows * StepSize, fed)' <=> Between(y, pos, end)
  BY <1>1 DEF Direct, Lacking, Full, Between
<1>6. Settled(it)' <=> Settled(y)
  BY <1>1 DEF Settled
<1>7. Iterates(it, windows * StepSize, fed)' <=> Iterates(y, pos, end)
  BY <1>1, <1>2, <1>3, <1>5 DEF Iterates
<1> QED
  BY <1>6, <1>7

\* The stream of a new session.
LEMMA NewWindows ==
    ASSUME ShortOverlap, sizes \in Sizes, UNCHANGED sizes, call' = "idle", it' = PcmIterator,
           fed' = 0, windows' = 0, failed' = FALSE
    PROVE  WindowsInv'
<1>1. windows' * StepSize = 0
  BY CacheSizes
<1>2. PICK y : y = PcmIterator
  OBVIOUS
<1>3. Iterates(y, 0, 0) /\ Settled(y) /\ ~y.hasNext
  BY <1>2, Fresh
<1>4. Iterates(it, windows * StepSize, fed)' /\ Settled(it)'
  BY <1>1, <1>2, <1>3, SameIterates
<1>5. ~(windows' > 0) /\ windows' \in Nat /\ fed' \in Nat
  OBVIOUS
<1>6. failed' \in BOOLEAN /\ ~it'.hasNext
  BY <1>2, <1>3
<1> QED
  BY <1>4, <1>5, <1>6 DEF WindowsInv

\* A step that leaves the stream alone.
LEMMA WindowsKept ==
    ASSUME WindowsInv, UNCHANGED <<sizes, it, call, fed, windows, window, failed>>
    PROVE  WindowsInv'
<1>1. PICK y, pos, end : it' = y /\ windows' * StepSize = pos /\ fed' = end
  OBVIOUS
<1>2. /\ Iterates(it, windows * StepSize, fed)' <=> Iterates(it, windows * StepSize, fed)
      /\ Settled(it)' <=> Settled(it)
  BY <1>1, SameIterates
<1>3. StepSize' = StepSize /\ WindowSize' = WindowSize
  BY DEF StepSize, WindowSize
<1> QED
  BY <1>2, <1>3 DEF WindowsInv

\* When a session failed nothing is promised until the next one.
LEMMA WindowsFailed ==
    ASSUME sizes \in Sizes, UNCHANGED sizes, call' \in {"idle", "loop"}, windows' \in Nat, fed' \in Nat,
           failed' = TRUE
    PROVE  WindowsInv'
BY DEF WindowsInv

\* An array is passed.
LEMMA InputKeepsWindows ==
    ASSUME ShortOverlap, WindowsInv, NEW n \in Nat, n > 0, SyncExecute(n)
    PROVE  WindowsInv'
<1> DEFINE x == SetInput(HasNext(it), n)
<1>1. /\ sizes \in Sizes /\ windows \in Nat /\ fed \in Nat /\ call = "idle"
      /\ UNCHANGED <<sizes, windows, window, failed>> /\ failed \in BOOLEAN
      /\ call' \in {"idle", "loop"} /\ fed' \in Nat
  <2>1. sizes \in Sizes /\ windows \in Nat /\ fed \in Nat /\ failed \in BOOLEAN
    BY DEF WindowsInv
  <2>2. call = "idle" /\ UNCHANGED <<sizes, windows, window, failed>>
    BY DEF SyncExecute
  <2>3. (call' = "loop" /\ fed' = fed + n) \/ UNCHANGED <<call, fed>>
    BY DEF SyncExecute
  <2> QED
    BY <2>1, <2>2, <2>3
<1>2. CASE failed
  <2>1. failed' = TRUE
    BY <1>1, <1>2, Zenon
  <2> QED
    BY <1>1, <2>1, WindowsFailed
<1>3. CASE ~failed
  <2>1. Iterates(it, windows * StepSize, fed) /\ Settled(it) /\ ~it.hasNext
    BY <1>1, <1>3 DEF WindowsInv
  <2>2. HasNext(it) = it
    BY <1>1, <2>1, SettledStays DEF Iterates
  <2>3. x = Prepare(it, [from |-> fed + 1, size |-> n, live |-> TRUE])
    BY <2>1, <2>2 DEF SetInput
  <2>4. PICK pos \in Nat : pos = windows * StepSize
    BY <1>1, CacheSizes
  <2>5. Iterates(x, pos, fed + n) /\ x.ok
    BY <1>1, <2>1, <2>3, <2>4, InputSet
  <2>6. it' = x /\ call' = "loop" /\ fed' = fed + n
    BY <2>5 DEF SyncExecute
  <2> HIDE DEF x
  <2>7. PICK y, end : y = x /\ end = fed + n
    OBVIOUS
  <2>8. Iterates(it, windows * StepSize, fed)'
    <3>1. windows' * StepSize = pos
      BY <1>1, <2>4
    <3> QED
      BY <1>1, <2>5, <2>6, <2>7, <3>1, SameIterates
  <2>9. windows' > 0 => /\ (windows' - 1) * StepSize' + WindowSize' <= fed'
                        /\ window' = [k \in 1 .. WindowSize' |-> (windows' - 1) * StepSize' + k]
    <3>1. StepSize' = StepSize /\ WindowSize' = WindowSize
      BY <1>1 DEF StepSize, WindowSize
    <3>2. windows > 0 => /\ (windows - 1) * StepSize + WindowSize <= fed
                         /\ window = [k \in 1 .. WindowSize |-> (windows - 1) * StepSize + k]
      BY <1>3 DEF WindowsInv
    <3>3. PICK w \in Int : w = (windows - 1) * StepSize + WindowSize
      BY <1>1, CacheSizes
    <3>4. w <= fed => w <= fed'
      BY <1>1, <2>6
    <3> QED
      BY <1>1, <3>1, <3>2, <3>3, <3>4
  <2> QED
    BY <1>1, <1>3, <2>6, <2>8, <2>9 DEF WindowsInv
<1> QED
  BY <1>2, <1>3

\* A window is taken.
LEMMA ExecuteKeepsWindows ==
    ASSUME ShortOverlap, WindowsInv, Execute
    PROVE  WindowsInv'
<1>1. /\ sizes \in Sizes /\ windows \in Nat /\ fed \in Nat /\ failed \in BOOLEAN
      /\ UNCHANGED <<sizes, call, fed, failed>> /\ TakeWindow
  BY DEF WindowsInv, Execute
<1>2. call = "loop" /\ call' = "loop" /\ windows' = windows + 1 /\ Ready.hasNext
  BY <1>1 DEF TakeWindow
<1>3. CASE failed
  <2>1. failed' = TRUE /\ call' \in {"idle", "loop"} /\ windows' \in Nat /\ fed' \in Nat
    BY <1>1, <1>2, <1>3
  <2> QED
    BY <1>1, <2>1, WindowsFailed
<1>4. CASE ~failed
  <2> DEFINE x == Advance(HasNext(Ready))
  <2>1. /\ NextWindow(HasNext(Ready)) = [k \in 1 .. WindowSize |-> windows * StepSize + k]
        /\ windows * StepSize + WindowSize <= fed
        /\ Iterates(x, (windows + 1) * StepSize, fed)
    BY <1>2, <1>4, Taken
  <2>2. it' = x /\ window' = NextWindow(HasNext(Ready))
    BY <1>1, <1>2 DEF TakeWindow
  <2> HIDE DEF x
  <2>3. PICK y, pos, end : y = x /\ pos = (windows + 1) * StepSize /\ end = fed
    OBVIOUS
  <2>4. Iterates(it, windows * StepSize, fed)'
    <3>1. windows' * StepSize = pos
      BY <1>2, <2>3
    <3> QED
      BY <1>1, <2>1, <2>2, <2>3, <3>1, SameIterates
  <2>5. /\ (windows' - 1) * StepSize' + WindowSize' <= fed'
        /\ window' = [k \in 1 .. WindowSize' |-> (windows' - 1) * StepSize' + k]
    <3>1. StepSize' = StepSize /\ WindowSize' = WindowSize
      BY <1>1 DEF StepSize, WindowSize
    <3>2. windows' - 1 = windows
      BY <1>1, <1>2
    <3> QED
      BY <1>1, <2>1, <2>2, <3>1, <3>2
  <2>6. windows' \in Nat
    BY <1>1, <1>2
  <2> QED
    BY <1>1, <1>2, <2>4, <2>5, <2>6 DEF WindowsInv
<1> QED
  BY <1>3, <1>4

\* The call returns.
LEMMA EndKeepsWindows ==
    ASSUME ShortOverlap, WindowsInv, SyncExecuteEnds
    PROVE  WindowsInv'
<1>1. /\ sizes \in Sizes /\ windows \in Nat /\ fed \in Nat /\ failed \in BOOLEAN
      /\ UNCHANGED <<sizes, fed, windows, window, failed>>
      /\ call' = "idle" /\ it' = Return(Ready) /\ ~Ready.hasNext
  BY DEF WindowsInv, SyncExecuteEnds
<1>2. CASE failed
  <2>1. failed' = TRUE /\ call' \in {"idle", "loop"} /\ windows' \in Nat /\ fed' \in Nat
    BY <1>1, <1>2
  <2> QED
    BY <1>1, <2>1, WindowsFailed
<1>3. CASE ~failed
  <2>1. Iterates(it, windows * StepSize, fed)
    BY <1>3 DEF WindowsInv
  <2>2. PICK pos \in Nat : pos = windows * StepSize
    BY <1>1, CacheSizes
  <2>3. Iterates(Ready, pos, fed) /\ Settled(Ready)
    BY <1>1, <2>1, <2>2, HasNextSettles DEF Ready
  <2>4. Iterates(Return(Ready), pos, fed) /\ Settled(Return(Ready)) /\ ~Return(Ready).hasNext
    BY <1>1, <2>3, Returned
  <2>5. PICK y, end : y = Return(Ready) /\ end = fed
    OBVIOUS
  <2>6. Iterates(it, windows * StepSize, fed)' /\ Settled(it)' /\ ~it'.hasNext
    <3>1. windows' * StepSize = pos
      BY <1>1, <2>2
    <3>2. it' = y /\ fed' = end /\ Iterates(y, pos, end) /\ Settled(y)
      BY <1>1, <2>4, <2>5
    <3>3. Iterates(it, windows * StepSize, fed)' /\ Settled(it)'
      BY <1>1, <3>1, <3>2, SameIterates
    <3> QED
      BY <1>1, <2>4, <3>3
  <2>7. windows' > 0 => /\ (windows' - 1) * StepSize' + WindowSize' <= fed'
                        /\ window' = [k \in 1 .. WindowSize' |-> (windows' - 1) * StepSize' + k]
    <3>1. StepSize' = StepSize /\ WindowSize' = WindowSize
      BY <1>1 DEF StepSize, WindowSize
    <3>2. windows > 0 => /\ (windows - 1) * StepSize + WindowSize <= fed
                         /\ window = [k \in 1 .. WindowSize |-> (windows - 1) * StepSize + k]
      BY <1>3 DEF WindowsInv
    <3> QED
      BY <1>1, <3>1, <3>2
  <2> QED
    BY <1>1, <2>6, <2>7 DEF WindowsInv
<1> QED
  BY <1>2, <1>3

\* What the invariant says of a call that has returned.
LEMMA WindowsComplete ==
    ASSUME ShortOverlap, WindowsInv
    PROVE  WindowsFollowStream
<1>1. SUFFICES ASSUME ~failed
               PROVE  /\ windows > 0 => window = [k \in 1 .. WindowSize |-> (windows - 1) * StepSize + k]
                      /\ call = "idle" =>
                            windows = IF fed < WindowSize THEN 0 ELSE (fed - WindowSize) \div StepSize + 1
  BY DEF WindowsFollowStream
<1>2. windows > 0 => /\ (windows - 1) * StepSize + WindowSize <= fed
                     /\ window = [k \in 1 .. WindowSize |-> (windows - 1) * StepSize + k]
  BY <1>1 DEF WindowsInv
<1>3. ASSUME call = "idle"
      PROVE  windows = IF fed < WindowSize THEN 0 ELSE (fed - WindowSize) \div StepSize + 1
  <2>1. /\ sizes \in Sizes /\ windows \in Nat /\ fed \in Nat
        /\ Iterates(it, windows * StepSize, fed) /\ Settled(it) /\ ~it.hasNext
    BY <1>1, <1>3 DEF WindowsInv
  <2>2. StepSize \in Nat /\ StepSize > 0 /\ WindowSize \in Nat /\ WindowSize > 0
    BY <2>1, CacheSizes
  <2>3. PICK pos \in Nat : pos = windows * StepSize
    BY <2>1, <2>2
  <2>4. it.cacheSize \in Nat /\ it.pcmData.size \in Nat /\ it.numCopy \in Nat
    BY <2>1 DEF Iterates, Iterator
  <2>5. fed < pos + WindowSize
    <3>1. CASE Direct(it, pos, fed)
      BY <2>1, <2>2, <2>3, <2>4, <3>1 DEF Direct
    <3>2. CASE Lacking(it, pos, fed)
      BY <2>1, <2>2, <2>3, <2>4, <3>2 DEF Lacking
    <3>3. ~Full(it, pos, fed) /\ ~Between(it, pos, fed)
      BY <2>1, <2>2, <2>4 DEF Full, Between, Settled
    <3> QED
      BY <2>1, <2>3, <3>1, <3>2, <3>3 DEF Iterates
  <2> QED
    BY <1>2, <2>1, <2>2, <2>3, <2>5, Counted
<1> QED
  BY <1>2, <1>3

\* The windows follow the stream, for any sizes whose overlap is not longer than
\* the step (as the 3200 and 3360 of the code), any division of the stream into
\* arrays, and any number of sessions, until one fails.
THEOREM WindowsRight ==
    ASSUME ShortOverlap
    PROVE  Spec => []WindowsFollowStream
<1>1. Init => WindowsInv
  <2> SUFFICES ASSUME Init PROVE WindowsInv
    OBVIOUS
  <2>1. /\ sizes \in Sizes /\ call = "idle" /\ it = PcmIterator /\ fed = 0 /\ windows = 0 /\ failed = FALSE
    BY DEF Init
  <2>2. windows * StepSize = 0
    BY <2>1, CacheSizes
  <2>3. Iterates(it, windows * StepSize, fed) /\ Settled(it) /\ ~it.hasNext
    BY <2>1, <2>2, Fresh
  <2>4. ~(windows > 0) /\ windows \in Nat /\ fed \in Nat
    BY <2>1
  <2>5. failed \in BOOLEAN /\ call \in {"idle", "loop"}
    BY <2>1
  <2> QED
    BY <2>1, <2>3, <2>4, <2>5 DEF WindowsInv
<1>2. WindowsInv /\ [Next]_vars => WindowsInv'
  <2> SUFFICES ASSUME WindowsInv, [Next]_vars PROVE WindowsInv'
    OBVIOUS
  <2>1. sizes \in Sizes /\ windows \in Nat /\ fed \in Nat
    BY DEF WindowsInv
  <2>2. CASE Create
    BY <2>1, <2>2, NewWindows DEF Create, NewStream
  <2>3. CASE Destroy
    BY <2>1, <2>3, NewWindows DEF Destroy, PcmRelease, NewStream
  <2>4. CASE CreateFails \/ UNCHANGED vars
    BY <2>4, WindowsKept DEF CreateFails, vars
  <2>5. ASSUME NEW n \in 1 .. MaxInput, SyncExecute(n) PROVE WindowsInv'
    <3>1. n \in Nat /\ n > 0
      OBVIOUS
    <3> QED
      BY <2>5, <3>1, InputKeepsWindows
  <2>6. CASE Execute
    BY <2>6, ExecuteKeepsWindows
  <2>7. CASE ExecuteFails
    <3>1. windows' = windows + 1 /\ call' = "idle" /\ failed' = TRUE /\ UNCHANGED <<sizes, fed>>
      BY <2>7 DEF ExecuteFails, TakeWindow
    <3> QED
      BY <2>1, <3>1, WindowsFailed
  <2>8. CASE SyncExecuteEnds
    BY <2>8, EndKeepsWindows
  <2> QED
    BY <2>2, <2>3, <2>4, <2>5, <2>6, <2>7, <2>8 DEF Next
<1>3. WindowsInv => WindowsFollowStream
  BY WindowsComplete
<1> QED
  BY <1>1, <1>2, <1>3, PTL DEF Spec
=============================================================================
