----------------------------- MODULE KwsStream -----------------------------
(***************************************************************************)
(* The path of an audio stream through keyword spotting: the SDK cuts the  *)
(* arrays the application passes to SyncExecute into overlapping windows   *)
(* (PCMIterator), sends one step of features per window to the plugin, and *)
(* the plugin normalises them and infers over its sliding window           *)
(* (NormProcessor, TypeConverter, SlideWindowProcessor).                   *)
(*                                                                         *)
(* A sample is its position in the stream since Create, and 0 is a cell    *)
(* nobody wrote or memory that is no longer the caller's.  The Mel filter  *)
(* (external) turns one window into NormSize values and keeps no state.    *)
(***************************************************************************)
EXTENDS FeatureProcessors, FiniteSetsExt

CONSTANTS
    Sizes,        \* the pairs <<stepSize, windowSize>> explored
    MaxInput,     \* the longest array passed to one SyncExecute
    MaxFed,       \* bound: samples passed since Create
    SlideWindow,  \* DEFAULT_SLIDE_WINDOW_SIZE
    Multiplier,   \* bufferMultiplier
    MaxSessions,  \* bound: Create calls
    Files,        \* the pairs of mean and deviation file explored
    Faults        \* subset of {"init", "send", "infer"}: memory is short when a
                  \* session is made, or a window is not sent or not inferred over

ASSUME StreamAssumption ==
    /\ \A s \in Sizes : s \in Nat \X Nat /\ 0 < s[1] /\ s[1] <= s[2]
    /\ SlideWindow \in Nat /\ NormSize <= SlideWindow
    /\ Multiplier \in Nat \ {0}

VARIABLES
    sizes,     \* stepSize_ and windowSize_
    files,     \* the files with means and deviations
    created,   \* the SDK has a handle
    norm,      \* the NormProcessor of that handle
    it,        \* the PCMIterator (ok: its last copy succeeded)
    slide,     \* the SlideWindowProcessor of the session's handle
    call,      \* where the application's SyncExecute is
    fed,       \* ghost: samples of the accepted inputs
    windows,   \* ghost: windows Next has returned
    window,    \* ghost: the last of them
    steps,     \* ghost: steps of features the plugin has received
    features,  \* ghost: the model input of the last inference
    failed,    \* ghost: a window of this session failed
    sessions   \* ghost: Create calls so far

vars == <<sizes, files, created, norm, it, slide, call, fed, windows, window, steps, features, failed, sessions>>

StepSize == sizes[1]
WindowSize == sizes[2]

----------------------------------------------------------------------------
(* PCMIterator *)

\* maxCacheSize_: the windows that begin in a full remainder, laid end to end.
MaxCacheSize ==
    IF WindowSize = 1 THEN 0 ELSE ((WindowSize - 2) \div StepSize) * StepSize + WindowSize

NoData == [from |-> 0, size |-> 0, live |-> FALSE]

PcmIterator ==
    [numCopy |-> 0, numRealCopy |-> 0, nextCachePos |-> 0, hasNext |-> FALSE, ok |-> TRUE,
     cacheSize |-> 0, cache |-> [i \in 0 .. MaxCacheSize - 1 |-> 0], pcmData |-> NoData]

\* The k-th sample behind a pointer into the caller's array.
Sample(d, k) == IF d.live THEN d.from + k ELSE 0

\* What memcpy_s leaves in the cache: the samples of src from cell `at` on, or
\* zeros when the library refuses (no room, or the regions overlap).
Memcpy(cache, at, src, n, ok) ==
    [i \in DOMAIN cache |->
        IF ~ok THEN (IF i >= at THEN 0 ELSE cache[i])
        ELSE IF i >= at /\ i < at + n THEN src[i - at] ELSE cache[i]]

MoveDataToCache(x, src, n, overlap) ==
    LET ok    == n <= MaxCacheSize /\ ~overlap
        moved == [x EXCEPT !.cache = Memcpy(x.cache, 0, src, n, ok), !.ok = ok]
    IN  IF ~ok THEN moved
        ELSE [moved EXCEPT
                !.cacheSize = n,
                !.nextCachePos = 0,
                !.numCopy = ((n - 1) \div StepSize) * StepSize + WindowSize - n]

\* mutant: pcmData_ starts at the front of the input although windows of the
\* cache reach into it
CopyToCacheNoSkip(x, input) ==
    LET n    == Min({x.numCopy, input.size})
        end  == x.nextCachePos + x.cacheSize
    IN  [x EXCEPT
            !.cache = Memcpy(x.cache, end, [k \in 0 .. n - 1 |-> Sample(input, k)], n, TRUE),
            !.numRealCopy = n, !.ok = TRUE,
            !.cacheSize = x.cacheSize + n,
            !.numCopy = x.numCopy - n,
            !.pcmData = IF x.numCopy = n THEN input ELSE NoData]

\* Prepare, first part: the cache gets what it still lacks of the input, and
\* pcmData_ is left with what the windows after the cached ones are cut from.
CopyToCache(x, input) ==
    LET n    == Min({x.numCopy, input.size})
        end  == x.nextCachePos + x.cacheSize
        ok   == end + n <= MaxCacheSize
        skip == Max({n - WindowSize + StepSize, 0})
        copied == [x EXCEPT
                     !.cache = Memcpy(x.cache, end, [k \in 0 .. n - 1 |-> Sample(input, k)], n, ok),
                     !.numRealCopy = n, !.ok = ok]
    IN  IF ~ok THEN copied
        ELSE [copied EXCEPT
                !.cacheSize = x.cacheSize + n,
                !.numCopy = x.numCopy - n,
                !.pcmData = IF x.numCopy = n
                            THEN [from |-> input.from + skip, size |-> input.size - skip,
                                  live |-> input.live]
                            ELSE NoData]

\* Prepare, second part: is there a window, and if not, is the input to be kept?
Prepare(x, input) ==
    LET y == IF x.numCopy > 0 THEN CopyToCache(x, input)
             ELSE [x EXCEPT !.numRealCopy = 0, !.pcmData = input, !.ok = TRUE]
        d == y.pcmData
    IN  CASE ~y.ok -> y
          [] y.ok /\ (WindowSize <= y.cacheSize \/ WindowSize <= d.size) ->
                [y EXCEPT !.hasNext = TRUE]
          [] y.ok /\ y.cacheSize = 0 /\ d.size > 0 /\ d.size < WindowSize ->
                MoveDataToCache(y, [k \in 0 .. d.size - 1 |-> Sample(d, k)], d.size, FALSE)
          [] OTHER -> y

\* The iterator after HasNext: what is left of the cache moves to its front
\* and is topped up from the input; what is left of the input moves to the
\* cache.
HasNext(x) ==
    LET d == x.pcmData
        rest == [k \in 0 .. x.cacheSize - 1 |-> x.cache[x.nextCachePos + k]]
        tail == [k \in 0 .. d.size - 1 |-> Sample(d, k)]
    IN  IF x.nextCachePos > 0 /\ x.numCopy = 0 /\ x.cacheSize > 0 /\ x.cacheSize < WindowSize
        THEN Prepare(MoveDataToCache(x, rest, x.cacheSize, x.cacheSize > x.nextCachePos), d)
        ELSE IF x.cacheSize = 0 /\ d.size > 0 /\ d.size < WindowSize
        THEN [MoveDataToCache(x, tail, d.size, FALSE) EXCEPT !.pcmData.size = 0]
        ELSE x

NextWindow(x) ==
    [k \in 1 .. WindowSize |->
        IF WindowSize <= x.cacheSize THEN x.cache[x.nextCachePos + k - 1]
        ELSE Sample(x.pcmData, k - 1)]

\* PCMIterator::Next leaves the iterator so after it has returned NextWindow(x).
Advance(x) ==
    LET left == x.cacheSize - StepSize
        y == IF WindowSize <= x.cacheSize
             THEN [x EXCEPT !.nextCachePos = x.nextCachePos + StepSize,
                            !.cacheSize = IF x.numCopy = 0 /\ left < WindowSize
                                          THEN Max({WindowSize - StepSize - x.numRealCopy, 0})
                                          ELSE left]
             ELSE [x EXCEPT !.pcmData.from = @ + StepSize, !.pcmData.size = @ - StepSize]
    IN  [y EXCEPT !.hasNext = x.hasNext /\ ~(y.cacheSize < WindowSize /\ y.pcmData.size < WindowSize)]

----------------------------------------------------------------------------
(* SlideWindowProcessor *)

\* DEFAULT_SLIDE_STEP_SIZE
SlideStep == NormSize

BufferSize == SlideWindow * Multiplier
InitIndex == SlideWindow - SlideStep

\* Init refuses a window that is longer than a sample may be.
SlideInit == SlideWindow <= MaxSample

SlideWindowProcessor ==
    [buffer |-> [i \in 0 .. BufferSize - 1 |-> 0], startIndex |-> InitIndex, inputFeature |-> 0]

\* mutant: the front of the buffer gets the window just returned
ProcessMovesOld(s, data) ==
    LET filled == [i \in DOMAIN s.buffer |->
                      IF i - s.startIndex \in DOMAIN data THEN data[i - s.startIndex] ELSE s.buffer[i]]
        start == s.startIndex + SlideStep
    IN  IF BufferSize - start < SlideStep
        THEN [buffer |-> [i \in DOMAIN filled |->
                             IF i < InitIndex THEN filled[s.inputFeature + i] ELSE filled[i]],
              startIndex |-> InitIndex, inputFeature |-> 0]
        ELSE [buffer |-> filled, startIndex |-> start, inputFeature |-> s.inputFeature + SlideStep]

\* Process copies the step behind the last one, and starts again at the front
\* of the buffer when the next step would not fit.
Process(s, data) ==
    LET filled == [i \in DOMAIN s.buffer |->
                      IF i - s.startIndex \in DOMAIN data THEN data[i - s.startIndex] ELSE s.buffer[i]]
        start == s.startIndex + SlideStep
        feat  == s.inputFeature + SlideStep
    IN  IF BufferSize - start < SlideStep
        THEN [buffer |-> [i \in DOMAIN filled |->
                             IF i < InitIndex THEN filled[feat + i] ELSE filled[i]],
              startIndex |-> InitIndex, inputFeature |-> 0]
        ELSE [buffer |-> filled, startIndex |-> start, inputFeature |-> feat]

\* The output points into the buffer: the caller sees it as Process left it.
SlideOutput(s, data) == [k \in 1 .. SlideWindow |-> Process(s, data).buffer[s.inputFeature + k - 1]]

----------------------------------------------------------------------------
(* KWSSdkImpl and KWSPlugin *)

Init ==
    /\ sizes \in Sizes /\ files \in Files
    /\ created = FALSE /\ norm = NormProcessor(<<>>, <<>>)
    /\ it = PcmIterator
    /\ slide = SlideWindowProcessor
    /\ call = "idle"
    /\ fed = 0 /\ windows = 0 /\ window = <<>>
    /\ steps = 0 /\ features = <<>>
    /\ failed = FALSE
    /\ sessions = 0

\* What the destructors of the iterator and of the processors leave.
PcmRelease == it' = PcmIterator
SlideRelease == slide' = SlideWindowProcessor
NormRelease == norm' = NormProcessor(<<>>, <<>>)

\* ghosts: nothing of a new stream was seen
NewStream ==
    /\ fed' = 0 /\ windows' = 0 /\ window' = <<>>
    /\ steps' = 0 /\ features' = <<>>
    /\ failed' = FALSE

\* The three processors of a handle can be made.
InitWorkplace(n) == SlideInit /\ ConverterInit /\ n.isInitialized

\* Create: InitComponents of the SDK makes an iterator, Prepare of the plugin
\* the processors of a new handle.  Without its two files no session is made.
Create ==
    /\ call = "idle" /\ ~created /\ sessions < MaxSessions
    /\ norm' = NormProcessor(files[1], files[2])
    /\ InitWorkplace(norm')
    /\ created' = TRUE
    /\ it' = PcmIterator
    /\ slide' = SlideWindowProcessor
    /\ NewStream
    /\ sessions' = sessions + 1
    /\ UNCHANGED <<sizes, files, call>>

CreateFails ==
    /\ call = "idle" /\ ~created /\ sessions < MaxSessions
    /\ ~InitWorkplace(NormProcessor(files[1], files[2])) \/ "init" \in Faults
    /\ sessions' = sessions + 1
    /\ UNCHANGED <<sizes, files, created, norm, it, slide, call, fed, windows, window,
                   steps, features, failed>>

\* The iterator goes with the SDK, the processors with the handle.
Destroy ==
    /\ call = "idle" /\ created
    /\ created' = FALSE
    /\ PcmRelease /\ SlideRelease /\ NormRelease
    /\ NewStream
    /\ UNCHANGED <<sizes, files, call, sessions>>

\* The array belongs to the caller again when SyncExecute returns.
Return(x) == [x EXCEPT !.pcmData.live = FALSE]

\* SetInput refuses while windows of an earlier input are left.
SetInput(x, n) ==
    IF x.hasNext THEN [x EXCEPT !.ok = FALSE]
    ELSE Prepare(x, [from |-> fed + 1, size |-> n, live |-> TRUE])

SyncExecute(n) ==
    /\ call = "idle" /\ created /\ fed + n <= MaxFed
    /\ LET x == SetInput(HasNext(it), n) IN
          IF x.ok
          THEN it' = x /\ call' = "loop" /\ fed' = fed + n
          ELSE it' = Return(x) /\ UNCHANGED <<call, fed>>
    /\ UNCHANGED <<sizes, files, created, norm, slide, windows, window, steps, features, failed, sessions>>

\* The loop's HasNext, and Next, which asks once more.
Ready == HasNext(it)
TakeWindow ==
    /\ call = "loop" /\ Ready.hasNext
    /\ window' = NextWindow(HasNext(Ready))
    /\ windows' = windows + 1
    /\ it' = IF call' = "idle" THEN Return(Advance(HasNext(Ready))) ELSE Advance(HasNext(Ready))

\* The i-th feature of the n-th window (external: the Mel filter).
Mfcc(n, i) == 3 * n + i
Features(n) == [i \in 0 .. NormSize - 1 |-> Mfcc(n, i)]

\* KWSPlugin::SyncProcess: the features of this window are normalised, cast and
\* slide in, and the window of features is copied to the model's input.
Normed == Convert(Norm(norm, Features(steps + 1)))
GetNormedFeatures == steps' = steps + 1 /\ slide' = Process(slide, Normed)
MakeInference == features' = SlideOutput(slide, Normed)
SyncProcess == GetNormedFeatures /\ MakeInference

\* One turn of the loop: the window is cut, sent, inferred over and reported.
Execute ==
    /\ UNCHANGED <<sizes, files, created, norm, call, fed, failed, sessions>>
    /\ TakeWindow
    /\ SyncProcess

\* The window does not reach the plugin, or reaches it and the inference
\* fails; SyncExecute gives up with the rest of the input untouched.
ExecuteFails ==
    /\ call' = "idle"
    /\ failed' = TRUE
    /\ TakeWindow
    /\ \/ "send" \in Faults /\ UNCHANGED <<slide, steps, features>>
       \/ "infer" \in Faults /\ SyncProcess
    /\ UNCHANGED <<sizes, files, created, norm, fed, sessions>>

\* The loop ends and SyncExecute returns success.
SyncExecuteEnds ==
    /\ call = "loop" /\ ~Ready.hasNext
    /\ it' = Return(Ready)
    /\ call' = "idle"
    /\ UNCHANGED <<sizes, files, created, norm, slide, fed, windows, window, steps, features, failed, sessions>>

Next ==
    \/ Create
    \/ CreateFails
    \/ Destroy
    \/ \E n \in 1 .. MaxInput : SyncExecute(n)
    \/ Execute
    \/ ExecuteFails
    \/ SyncExecuteEnds

Spec == Init /\ [][Next]_vars

----------------------------------------------------------------------------
(* Properties *)

\* However the application cuts the stream into arrays, the k-th window that
\* Next returns holds the samples from (k - 1) * stepSize on: none is skipped,
\* repeated, or read from an array that has gone back to the caller.  And a
\* SyncExecute that returns success has handed out every window that is
\* complete in what the application has passed so far.
WindowsFollowStream ==
    ~failed =>
        /\ windows > 0 => window = [k \in 1 .. WindowSize |-> (windows - 1) * StepSize + k]
        /\ call = "idle" =>
              windows = IF fed < WindowSize THEN 0 ELSE (fed - WindowSize) \div StepSize + 1

\* What the files say: their numbers, one per channel.
Number(file, c) == SelectSeq(file, LAMBDA x : x # Space)[c + 1]

\* The normalised value of a feature.
ValueDue(n, i) ==
    LET c == i % NumChannels
        std == Number(files[2], c)
    IN  IF std = 0 THEN 0 ELSE Cast(<<(Mfcc(n, i) - Number(files[1], c)) * Scale, std>>)

\* The value of a cell of the stream of features, counted from the first step.
Due(cell) == IF cell < 0 THEN 0 ELSE ValueDue(cell \div SlideStep + 1, cell % SlideStep)

\* The model's input for the n-th inference is the last SlideWindow values of
\* the steps received, oldest first and each normalised with the mean and the
\* deviation the files give for its channel, after zeros for steps not yet
\* received (GetNormedFeatures, SlideWindowProcessor, LoadInfoFromFile).
SlideWindowRight ==
    steps > 0 => features = [k \in 1 .. SlideWindow |-> Due(steps * SlideStep - SlideWindow + k - 1)]

----------------------------------------------------------------------------
(* The inductive invariants behind them. *)

\* What the two theorems need of the constants besides StreamAssumption: the
\* overlap of two windows is not longer than the step; the buffer of features
\* has room for two windows; and the files are read right.
ShortOverlap == \A s \in Sizes : s[2] <= 2 * s[1]
TwoWindows == Multiplier >= 2
FilesRead ==
    \A f \in Files :
        LET n == NormProcessor(f[1], f[2])
        IN  n.isInitialized => \A c \in Channels : n.mean[c] = Number(f[1], c) /\ n.std[c] = Number(f[2], c)

\* An iterator x when the next window begins after `pos` samples and `end`
\* samples were passed: the cache holds the samples from there on, and
\*   Direct   the cache is empty, and pcmData_ holds the rest;
\*   Lacking  the cache holds the rest, and waits for what its windows lack;
\*   Full     the windows in the cache are complete, pcmData_ has those after;
\*   Between  the last of those was taken, and the cache keeps the samples
\*            that come before pcmData_.
Iterator ==
    [numCopy : Nat, numRealCopy : Nat, nextCachePos : Nat, hasNext : BOOLEAN, ok : BOOLEAN,
     cacheSize : Nat, cache : [0 .. MaxCacheSize - 1 -> Nat],
     pcmData : [from : Nat, size : Nat, live : BOOLEAN]]

Direct(x, pos, end) ==
    /\ x.cacheSize = 0 /\ x.numCopy = 0
    /\ pos + x.pcmData.size = end
    /\ x.pcmData.size > 0 => x.pcmData.live /\ x.pcmData.from = pos + 1
    /\ x.hasNext <=> x.pcmData.size >= WindowSize

Lacking(x, pos, end) ==
    /\ x.cacheSize > 0 /\ x.numCopy > 0
    /\ pos + x.cacheSize = end /\ x.pcmData.size < WindowSize
    /\ \/ x.cacheSize + x.numCopy = WindowSize
       \/ x.cacheSize > StepSize /\ x.cacheSize + x.numCopy = WindowSize + StepSize
    /\ x.hasNext <=> x.cacheSize >= WindowSize

Full(x, pos, end) ==
    /\ x.numCopy = 0 /\ x.cacheSize \in {WindowSize, WindowSize + StepSize}
    /\ pos + x.cacheSize <= end
    /\ x.pcmData.live /\ x.pcmData.from + x.pcmData.size = end + 1
    /\ x.pcmData.from = pos + x.cacheSize + 1
                         + (IF x.numRealCopy > WindowSize - StepSize THEN StepSize - WindowSize
                                                                     ELSE -x.numRealCopy)
    /\ x.hasNext

Between(x, pos, end) ==
    /\ x.numCopy = 0 /\ x.cacheSize > 0 /\ x.cacheSize <= StepSize /\ x.cacheSize < WindowSize
    /\ x.nextCachePos >= StepSize
    /\ x.pcmData.live /\ x.pcmData.from + x.pcmData.size = end + 1
    /\ x.pcmData.from = pos + x.cacheSize + 1
    /\ x.hasNext <=> x.pcmData.size >= WindowSize

Iterates(x, pos, end) ==
    /\ x \in Iterator
    /\ x.nextCachePos + x.cacheSize + x.numCopy <= MaxCacheSize
    /\ \A k \in 0 .. x.cacheSize - 1 : x.cache[x.nextCachePos + k] = pos + 1 + k
    /\ Direct(x, pos, end) \/ Lacking(x, pos, end) \/ Full(x, pos, end) \/ Between(x, pos, end)

\* HasNext has nothing to move.
Settled(x) ==
    /\ x.numCopy = 0 => x.cacheSize = 0 \/ x.cacheSize >= WindowSize
    /\ x.cacheSize = 0 => x.pcmData.size = 0 \/ x.pcmData.size >= WindowSize

WindowsInv ==
    /\ sizes \in Sizes /\ call \in {"idle", "loop"}
    /\ windows \in Nat /\ fed \in Nat /\ failed \in BOOLEAN
    /\ ~failed =>
          /\ Iterates(it, windows * StepSize, fed)
          /\ call = "idle" => Settled(it) /\ ~it.hasNext
          /\ windows > 0 => /\ (windows - 1) * StepSize + WindowSize <= fed
                            /\ window = [k \in 1 .. WindowSize |-> (windows - 1) * StepSize + k]

\* The buffer from inputFeature_ to startIndex_ holds the last values received,
\* and the next step fits behind them.
SlideInv ==
    /\ files \in Files /\ steps \in Nat
    /\ call = "loop" => created
    /\ created => norm = NormProcessor(files[1], files[2]) /\ norm.isInitialized
    /\ DOMAIN slide.buffer = 0 .. BufferSize - 1
    /\ slide.inputFeature \in Nat /\ slide.startIndex = slide.inputFeature + InitIndex
    /\ slide.startIndex + SlideStep <= BufferSize
    /\ \A k \in 0 .. InitIndex - 1 :
          slide.buffer[slide.inputFeature + k] = Due(steps * SlideStep - InitIndex + k)
=============================================================================
