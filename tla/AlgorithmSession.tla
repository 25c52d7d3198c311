-------------------------- MODULE AlgorithmSession --------------------------
(***************************************************************************)
(* The algorithm SDKs (KWSSdkImpl, IcSdkImpl) and the plugins behind them  *)
(* (KWSPlugin, ICPlugin).  An SDK gets a handle of the inference device    *)
(* from the plugin when it is created, sends it with every request, and    *)
(* gives it back when it is destroyed.  All SDKs of one algorithm share a  *)
(* plugin, and the plugin shuts its device adapter down with its last      *)
(* user.                                                                   *)
(*                                                                         *)
(* Each SDK lives in a process of its own.  The service handles one        *)
(* message at a time (the IPC task waits for the engine's worker), so a    *)
(* load, a request or an unload is one step; an image of several slices is *)
(* several requests, between which other SDKs come and go.                 *)
(***************************************************************************)
EXTENDS Integers, FiniteSetsExt

CONSTANTS
    Sdks,       \* SDK instances
    Handles,    \* addresses the adapter may return; a freed one may come again
    None,       \* INVALID_KWS_HANDLE, INVALID_IC_HANDLE
    InputSize,  \* size of a model's input
    SliceSize,  \* MAX_IPC_BUFFER_SIZE
    MaxSize,    \* bound: the largest image
    MaxRef,     \* bound: references of an engine
    Faults      \* the failures explored, see Fault

Fault == {"build", "encode", "decode", "send", "infer", "deinit", "destroy", "die"}

ASSUME SessionAssumption ==
    /\ None \notin Handles
    /\ InputSize \in Nat \ {0} /\ SliceSize \in Nat \ {0} /\ MaxSize \in Nat /\ MaxRef \in Nat
    /\ Faults \subseteq Fault

VARIABLES
    kws,       \* the SDKs for keyword spotting; the others classify images
    handle,    \* kwsHandle_, icHandle_
    call,      \* the SyncExecute in progress: image size and offset, or Idle
    heard,     \* ghost: how the last SyncExecute ended, and the input inferred over
    recorded,  \* clientEngines_: SDKs whose transaction has an engine
    refCount,  \* refCount_ of the algorithm's engine
    handles,   \* handles_ of the plugin
    up,        \* the device adapter has been initialized and not shut down
    live,      \* handles the device has given out and not got back
    input,     \* the memory at inputAddr: who wrote each cell in a call still going
    broken     \* ghost: a Deinit of the algorithm has failed

vars == <<kws, handle, call, heard, recorded, refCount, handles, up, live, input, broken>>

Algorithms == {"KWS", "IC"}
Algo(s) == IF s \in kws THEN "KWS" ELSE "IC"

Idle == [size |-> 0, offset |-> 0]
Stale == "stale"     \* a cell not written by the call in progress
Nothing == [ret |-> "none", cells |-> {}]

Init ==
    /\ kws \in SUBSET Sdks
    /\ handle = [s \in Sdks |-> None]
    /\ call = [s \in Sdks |-> Idle]
    /\ heard = [s \in Sdks |-> Nothing]
    /\ recorded = {}
    /\ refCount = [a \in Algorithms |-> 0]
    /\ handles = [a \in Algorithms |-> {}]
    /\ up = [a \in Algorithms |-> FALSE]
    /\ live = {}
    /\ input = [h \in Handles |-> [i \in 0 .. InputSize - 1 |-> Stale]]
    /\ broken = [a \in Algorithms |-> FALSE]

----------------------------------------------------------------------------
(* Create *)

MayCreate(s) == handle[s] = None /\ call[s] = Idle /\ refCount[Algo(s)] < MaxRef

\* The adapter hands out an address that is not in use (external).
AdapterInit(a, h) ==
    /\ h \in Handles \ live
    /\ live' = live \cup {h}
    /\ up' = [up EXCEPT ![a] = TRUE]
    /\ input' = [input EXCEPT ![h] = [i \in 0 .. InputSize - 1 |-> Stale]]

\* The plugin's Prepare up to the entry in its table.
HandlePrepared(s, h) ==
    /\ AdapterInit(Algo(s), h)
    /\ handles' = [handles EXCEPT ![Algo(s)] = @ \cup {h}]

\* StartEngine after a successful Prepare.
Recorded(s) ==
    /\ refCount' = [refCount EXCEPT ![Algo(s)] = @ + 1]
    /\ recorded' = recorded \cup {s}

Create(s, h) ==
    /\ MayCreate(s) /\ h \notin handles[Algo(s)]
    /\ HandlePrepared(s, h)
    /\ Recorded(s)
    /\ handle' = [handle EXCEPT ![s] = h]
    /\ UNCHANGED <<kws, call, heard, broken>>

\* Prepare fails after the adapter's Init, and does not give the handle back
\* to the device: the device does not tell its addresses (KWSPlugin: or
\* InitComponents fails), before the handle is in handles_.
BuildConfigFails(s, h) ==
    /\ "build" \in Faults
    /\ MayCreate(s) /\ h \notin handles[Algo(s)]
    /\ AdapterInit(Algo(s), h)
    /\ UNCHANGED <<kws, handle, call, heard, recorded, refCount, handles, broken>>

\* Or the handle cannot be encoded once it is in handles_.
EncodeFails(s, h) ==
    /\ "encode" \in Faults
    /\ MayCreate(s) /\ h \notin handles[Algo(s)]
    /\ HandlePrepared(s, h)
    /\ UNCHANGED <<kws, handle, call, heard, recorded, refCount, broken>>

\* The engine is prepared, but the SDK cannot use the answer (a plugin that
\* knows the handle already succeeds without one): Create fails, and the next
\* Create prepares the same transaction again.
DecodeFails(s, h) ==
    /\ "decode" \in Faults \/ h \in handles[Algo(s)]
    /\ MayCreate(s)
    /\ HandlePrepared(s, h)
    /\ Recorded(s)
    /\ UNCHANGED <<kws, handle, call, heard, broken>>

----------------------------------------------------------------------------
(* SyncExecute *)

\* The transaction has an engine and the plugin knows the handle.
Served(s) == s \in recorded /\ handle[s] \in handles[Algo(s)]

\* A KWS request is one whole model input; an image is sent in slices.
SliceOf(s) ==
    IF s \in kws THEN InputSize ELSE Min({call[s].size - call[s].offset, SliceSize})

\* SyncExecute is called; IcSdkImpl takes images of any size and does not ask
\* whether it has been created.
Begin(s, size) ==
    /\ call[s] = Idle
    /\ s \in kws => handle[s] # None /\ size = InputSize
    /\ call' = [call EXCEPT ![s] = [size |-> size, offset |-> 0]]
    /\ heard' = [heard EXCEPT ![s] = Nothing]
    /\ UNCHANGED <<kws, handle, recorded, refCount, handles, up, live, input, broken>>

\* SyncProcess copies the slice to its place in the model's input.
Stored(s) ==
    [i \in 0 .. InputSize - 1 |->
        IF i >= call[s].offset /\ i < call[s].offset + SliceOf(s) THEN s ELSE input[handle[s]][i]]

\* mutant: the plugin infers after the last slice of an image of any size
CompletesImage(s) == call[s].offset + SliceOf(s) >= call[s].size

Fits(s) == call[s].offset + SliceOf(s) <= InputSize
Completes(s) == call[s].offset + SliceOf(s) = InputSize

\* The output of the last request of a call decides what SyncExecute reports.
Last(s) == call[s].offset + SliceOf(s) >= call[s].size

\* Only the cells of calls still going are told apart.
Forget(s) ==
    [h \in Handles |-> [i \in 0 .. InputSize - 1 |->
        IF input[h][i] = s THEN Stale ELSE input[h][i]]]

End(s, ret, cells) ==
    /\ call' = [call EXCEPT ![s] = Idle]
    /\ heard' = [heard EXCEPT ![s] = [ret |-> ret, cells |-> cells]]

\* The memory once the call has ended with a slice that was stored.
Settled(s) ==
    [Forget(s) EXCEPT ![handle[s]] =
        [i \in 0 .. InputSize - 1 |-> IF Stored(s)[i] = s THEN Stale ELSE Stored(s)[i]]]

\* A request that the plugin accepts.  It infers when the slice completes the
\* input.  After the last request the SDK calls OnResult if there is an
\* output; IcSdkImpl returns success also when there is none.
Slice(s) ==
    /\ call[s] # Idle
    /\ Served(s) /\ Fits(s)
    /\ IF ~Last(s)
       THEN /\ call' = [call EXCEPT ![s].offset = @ + SliceOf(s)]
            /\ input' = [input EXCEPT ![handle[s]] = Stored(s)]
            /\ UNCHANGED heard
       ELSE /\ IF Completes(s)
               THEN End(s, "result", {Stored(s)[i] : i \in 0 .. InputSize - 1})
               ELSE End(s, "success without result", {})
            /\ input' = Settled(s)
    /\ UNCHANGED <<kws, handle, recorded, refCount, handles, up, live, broken>>

\* A request that is lost on the way, or that the plugin refuses, ends the call.
SliceFails(s) ==
    /\ call[s] # Idle
    /\ "send" \in Faults \/ ~(Served(s) /\ Fits(s))
    /\ input' = Forget(s)
    /\ End(s, "failure", {})
    /\ UNCHANGED <<kws, handle, recorded, refCount, handles, up, live, broken>>

\* The inference fails after the slice has been stored.
MakeInferenceFails(s) ==
    /\ "infer" \in Faults
    /\ call[s] # Idle
    /\ Served(s) /\ Completes(s)
    /\ input' = Settled(s)
    /\ End(s, "failure", {})
    /\ UNCHANGED <<kws, handle, recorded, refCount, handles, up, live, broken>>

----------------------------------------------------------------------------
(* Destroy *)

\* mutants: every release shuts the adapter down, or the one before the last
FullUnloadAlways(a) == TRUE
FullUnloadEarly(a) == refCount[a] <= 2

FullUnload(a) == refCount[a] = 1

\* ICPlugin looks the handle up first; KWSPlugin asks the device, which
\* refuses an address it has not given out (external).
IcReleaseAccepts(s) == handle[s] \in handles["IC"]
KwsReleaseAccepts(s) == handle[s] \in live
ReleaseAccepts(s) ==
    s \in recorded /\ IF s \in kws THEN KwsReleaseAccepts(s) ELSE IcReleaseAccepts(s)

\* The destructor of the plugin gives every handle it has left back.
ReleaseAllHandles(a) == handles[a]

\* StopEngine: the plugin releases the handle, and with the last reference the
\* engine goes and the plugin's destructor releases every handle it has left.
StopEngine(s) ==
    LET a == Algo(s)
        h == handle[s]
    IN  /\ ReleaseAccepts(s)
        /\ recorded' = recorded \ {s}
        /\ refCount' = [refCount EXCEPT ![a] = @ - 1]
        /\ handles' = [handles EXCEPT ![a] = IF FullUnload(a) THEN {} ELSE @ \ {h}]
        /\ live' = live \ (IF FullUnload(a) THEN ReleaseAllHandles(a) \cup {h} ELSE {h})
        /\ up' = [up EXCEPT ![a] = ~FullUnload(a)]
        /\ UNCHANGED <<input, broken>>

MayDestroy(s) == handle[s] # None /\ call[s] = Idle

Destroy(s) ==
    /\ MayDestroy(s)
    /\ StopEngine(s)
    /\ handle' = [handle EXCEPT ![s] = None]
    /\ UNCHANGED <<kws, call, heard>>

\* AieClientDestroy fails after the release: IcSdkImpl forgets the handle all
\* the same, KWSSdkImpl keeps it.
ClientDestroyFails(s) ==
    /\ "destroy" \in Faults
    /\ MayDestroy(s)
    /\ StopEngine(s)
    /\ handle' = [handle EXCEPT ![s] = IF s \in kws THEN @ ELSE None]
    /\ UNCHANGED <<kws, call, heard>>

\* Deinit fails after the handle has been released: Release fails, the engine
\* keeps its reference, and the SDK keeps a handle the plugin has forgotten.
DeinitFails(s) ==
    /\ "deinit" \in Faults
    /\ MayDestroy(s)
    /\ ReleaseAccepts(s) /\ FullUnload(Algo(s))
    /\ handles' = [handles EXCEPT ![Algo(s)] = @ \ {handle[s]}]
    /\ live' = live \ {handle[s]}
    /\ broken' = [broken EXCEPT ![Algo(s)] = TRUE]
    /\ UNCHANGED <<kws, handle, call, heard, recorded, refCount, up, input>>

\* The process of an SDK dies.  The service is not told: the engine keeps the
\* reference, and a new process has another transaction.
Die(s) ==
    /\ "die" \in Faults
    /\ handle' = [handle EXCEPT ![s] = None]
    /\ call' = [call EXCEPT ![s] = Idle]
    /\ heard' = [heard EXCEPT ![s] = Nothing]
    /\ recorded' = recorded \ {s}
    /\ input' = Forget(s)
    /\ UNCHANGED <<kws, refCount, handles, up, live, broken>>

Next ==
    \E s \in Sdks :
        \/ \E h \in Handles :
              Create(s, h) \/ BuildConfigFails(s, h) \/ EncodeFails(s, h) \/ DecodeFails(s, h)
        \/ \E size \in 1 .. MaxSize : Begin(s, size)
        \/ Slice(s)
        \/ SliceFails(s)
        \/ MakeInferenceFails(s)
        \/ Destroy(s)
        \/ ClientDestroyFails(s)
        \/ DeinitFails(s)
        \/ Die(s)

Spec == Init /\ [][Next]_vars

----------------------------------------------------------------------------
(* Properties *)

\* Types, for the proofs.
TypeOK ==
    /\ kws \subseteq Sdks /\ recorded \subseteq Sdks /\ live \subseteq Handles
    /\ handle \in [Sdks -> Handles \cup {None}]
    /\ call \in [Sdks -> [size : Nat, offset : Nat]]
    /\ heard \in [Sdks -> [ret : {"none", "result", "success without result", "failure"},
                           cells : SUBSET (Sdks \cup {Stale})]]
    /\ refCount \in [Algorithms -> Nat]
    /\ handles \in [Algorithms -> SUBSET Handles]
    /\ up \in [Algorithms -> BOOLEAN] /\ broken \in [Algorithms -> BOOLEAN]
    /\ input \in [Handles -> [0 .. InputSize - 1 -> Sdks \cup {Stale}]]

\* An SDK that holds a handle and has an engine.
InUse(s) == handle[s] # None /\ s \in recorded

\* Whatever fails in the Create, Execute and Destroy of the others, an SDK in
\* use keeps a handle that its plugin knows and the device has not got back,
\* and no other SDK in use has the same, until a shutdown of the device fails.
HandleServed ==
    (\A a \in Algorithms : ~broken[a]) =>
        \A s \in Sdks : InUse(s) =>
            /\ handle[s] \in handles[Algo(s)] \cap live
            /\ \A t \in Sdks \ {s} : InUse(t) => handle[t] # handle[s]

\* Release shuts the device adapter down for the last user only: the adapter
\* of an SDK in use is up, although references are left behind by failed
\* calls and dead processes.
AdapterUp == \A s \in Sdks : InUse(s) => up[Algo(s)]

\* A result that an SDK reports was inferred over an input that this call sent
\* and nothing else: no cell is left from an earlier image of which a slice
\* failed, from an image of another size, or from another SDK.
ResultOfOwnInput ==
    (\A a \in Algorithms : ~broken[a]) =>
        \A s \in Sdks : heard[s].ret = "result" => heard[s].cells = {s}

\* The inductive invariant behind these three.  The engine's references cover
\* the SDKs recorded for it; until a Deinit fails, the plugins know only handles
\* the device has given out, each handle one plugin; and a call that has stored
\* slices is that of an SDK in use, whose part of the input is all its own.
Users(a) == {s \in recorded : Algo(s) = a}
RefsCover ==
    IsFiniteSet(recorded) /\ \A a \in Algorithms : Cardinality(Users(a)) <= refCount[a]
HandlesGivenOut ==
    handles["KWS"] \cap handles["IC"] = {} /\ \A a \in Algorithms : handles[a] \subseteq live
CallsFit ==
    \A s \in Sdks : call[s] # Idle =>
        /\ call[s].offset < call[s].size
        /\ s \in kws => call[s].size = InputSize /\ call[s].offset = 0
SlicesStored ==
    \A s \in Sdks : call[s].offset > 0 =>
        /\ InUse(s)
        /\ \A i \in 0 .. InputSize - 1 : i < call[s].offset => input[handle[s]][i] = s
Sound == \A a \in Algorithms : ~broken[a]
SessionInv ==
    /\ TypeOK /\ RefsCover /\ CallsFit /\ AdapterUp
    /\ HandleServed /\ ResultOfOwnInput
    /\ Sound => HandlesGivenOut /\ SlicesStored

=============================================================================
