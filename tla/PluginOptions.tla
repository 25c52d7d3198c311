---------------------------- MODULE PluginOptions ----------------------------
(***************************************************************************)
(* Options and results of the plugins, from AieClientSetOption,            *)
(* AieClientGetOption and SyncExecute of the SDKs to the plugins and back, *)
(* with the bytes of every message.  ICPlugin keeps the number of classes  *)
(* it returns with each handle; SetOption changes it, GetOption reads it   *)
(* and MakeInference uses it.  KWSPlugin has no option to set and returns  *)
(* all outputs of its model.                                               *)
(*                                                                         *)
(* The input of an option call is made by the application: it may name any *)
(* handle and have any layout.  The service handles one message at a time, *)
(* so serving a message is one step; the calls of several applications     *)
(* interleave.  Which steps of a session fail, and images in slices, are   *)
(* the subject of AlgorithmSession.                                        *)
(***************************************************************************)
EXTENDS Encdec, FiniteSetsExt

CONSTANTS
    Apps,         \* client processes, one session each
    Handles,      \* addresses the device adapter returns
    Classes,      \* maxOutputSize: outputs of a model
    DefaultSize,  \* DEFAULT_OUTPUT_SIZE
    Scores,       \* values of an output
    Sizes,        \* sizes sent as uint32_t, as SetOption expects
    WideSizes,    \* sizes sent as size_t, as GetOption returns them
    Rooms         \* bytes the processes can allocate when they convert

ASSUME OptionsAssumption ==
    /\ Handles \subseteq Nat \ {0}
    /\ Classes \in Nat /\ DefaultSize \in Nat /\ Sizes \cup WideSizes \subseteq Nat
    /\ Scores \subseteq Int /\ Rooms \subseteq Nat

VARIABLES
    kws,         \* applications that spot keywords; the others classify images
    handles,     \* the handles in handles_ of each plugin
    outputSize,  \* outputSize of their configurations
    live,        \* handles the device has given out
    adapters,    \* g_saServerAdapters: applications the service knows
    engines,     \* clientEngines_: applications whose transaction has an engine
    held,        \* the handle of the SDK, 0 when it has none
    call,        \* the call in progress: its kind, option type and message
    reply,       \* its answer; the call waits while there is none
    wanted       \* ghost: the size last set for each handle since it was prepared

vars == <<kws, handles, outputSize, live, adapters, engines, held, call, reply, wanted>>

Plugins == {"IC", "KWS"}
Plugin(a) == IF a \in kws THEN "KWS" ELSE "IC"

Idle == [kind |-> "idle"]
Waiting == [served |-> FALSE]

\* A message: the bytes, and as a ghost the arguments they were made from.  It
\* is empty when it cannot be made.
Empty == [args |-> <<>>, data |-> <<>>]
Message(args, room) ==
    LET data == ProcessEncode(args, room)
    IN  IF data = <<>> THEN Empty ELSE [args |-> args, data |-> data]

Init ==
    /\ kws \in SUBSET Apps
    /\ handles = [p \in Plugins |-> {}]
    /\ outputSize = [h \in Handles |-> 0]
    /\ live = {}
    /\ adapters = {}
    /\ engines = {}
    /\ held = [a \in Apps |-> 0]
    /\ call = [a \in Apps |-> Idle]
    /\ reply = [a \in Apps |-> Waiting]
    /\ wanted = [h \in Handles |-> 0]

----------------------------------------------------------------------------
(* Sessions *)

\* ICPlugin returns DEFAULT_OUTPUT_SIZE classes, be there so many or not;
\* KWSPlugin the number of outputs the device tells.
BuildConfig(p) == IF p = "KWS" THEN Classes ELSE DefaultSize

\* AieClientInit and AieClientPrepare.  The handle travels to the SDK; when it
\* cannot be encoded the load fails, and the plugin keeps the handle.
Prepare(a, h, room) ==
    LET made == Message(<<Arg("intptr", h)>>, room)
        read == ProcessDecode(made.data, <<<<"intptr">>>>, room)
    IN  /\ call[a] = Idle /\ held[a] = 0 /\ a \notin engines
        /\ h \in Handles \ live
        /\ live' = live \cup {h}
        /\ handles' = [handles EXCEPT ![Plugin(a)] = @ \cup {h}]
        /\ outputSize' = [outputSize EXCEPT ![h] = BuildConfig(Plugin(a))]
        /\ wanted' = [wanted EXCEPT ![h] = IF a \in kws THEN Classes ELSE DefaultSize]
        /\ adapters' = adapters \cup {a}
        /\ engines' = IF made.data = <<>> THEN engines ELSE engines \cup {a}
        /\ held' = [held EXCEPT ![a] = IF read.ok THEN read.vals[1] ELSE 0]
        /\ UNCHANGED <<kws, call, reply>>

\* AieClientRelease and AieClientDestroy: the plugin gives the handle back to
\* the device and forgets it.
Release(a, room) ==
    LET sent == Message(<<Arg("intptr", held[a])>>, room)
        read == ProcessDecode(sent.data, <<<<"intptr">>>>, room)
        h == read.vals[1]
    IN  /\ call[a] = Idle /\ held[a] # 0
        /\ read.ok /\ h \in handles[Plugin(a)]
        /\ live' = live \ {h}
        /\ handles' = [handles EXCEPT ![Plugin(a)] = @ \ {h}]
        /\ adapters' = adapters \ {a}
        /\ engines' = engines \ {a}
        /\ held' = [held EXCEPT ![a] = 0]
        /\ outputSize' = [outputSize EXCEPT ![h] = 0]
        /\ wanted' = [wanted EXCEPT ![h] = 0]
        /\ UNCHANGED <<kws, call, reply>>

----------------------------------------------------------------------------
(* Calls.  No test is made on the client's side: also an application that *)
(* has not loaded its algorithm sends its option calls.                    *)

OPTION_GET_INPUT_SIZE == 1001
OPTION_GET_OUTPUT_SIZE == 1002
OPTION_SET_OUTPUT_SIZE == 2002

\* The message is on its way to the service.
Invoke(a, kind, type, message) ==
    /\ call[a] = Idle
    /\ call' = [call EXCEPT ![a] = [kind |-> kind, type |-> type, sent |-> message]]
    /\ UNCHANGED <<kws, handles, outputSize, live, adapters, engines, held, reply, wanted>>

SetOptionProxy(a, type, message) == Invoke(a, "set", type, message)
GetOptionProxy(a, type, message) == Invoke(a, "get", type, message)

\* What applications send with SetOption: the type and the arguments.
SetInputs(h) ==
    LET Sized(type, size, n) == <<type, <<Arg("intptr", h), Arg(size, n)>>>>
    IN  {<<OPTION_SET_OUTPUT_SIZE, <<Arg("intptr", h)>>>>}
        \cup {Sized(OPTION_SET_OUTPUT_SIZE, "uint32", n) : n \in Sizes}
        \cup {Sized(OPTION_SET_OUTPUT_SIZE, "size", n) : n \in WideSizes}
        \cup {Sized(OPTION_GET_OUTPUT_SIZE, "uint32", 1)}

AieClientSetOption(a, type, args, room) == SetOptionProxy(a, type, Message(args, room))

AieClientGetOption(a, type, args, room) == GetOptionProxy(a, type, Message(args, room))

\* SyncExecute of the SDKs.
SyncExecuteInput(a) ==
    IF a \in kws THEN <<Arg("intptr", held[a]), ArrayArg("uint16", <<1>>)>>
    ELSE <<Arg("intptr", held[a]), Arg("uint32", 0), ArrayArg("uint8", <<1>>)>>

SyncExecute(a, room) ==
    LET m == Message(SyncExecuteInput(a), room)
    IN  held[a] # 0 /\ m.data # <<>> /\ Invoke(a, "execute", 0, m)

----------------------------------------------------------------------------
(* Serving a call *)

\* The types each handler reads.
SetTypes == <<<<"intptr">>, <<"uint32">>>>
GetTypes == <<<<"intptr">>>>
ExecuteTypes(p) ==
    IF p = "KWS" THEN <<<<"intptr">>, <<"array", "uint16">>>>
    ELSE <<<<"intptr">>, <<"uint32">>, <<"array", "uint8">>>>

RequestTypes(a) ==
    CASE call[a].kind = "set" -> SetTypes
      [] call[a].kind = "get" -> GetTypes
      [] OTHER -> ExecuteTypes(Plugin(a))

Requested(a, kind) == call[a].kind = kind /\ ~reply[a].served
InvokeSetOption(a) == Requested(a, "set")
InvokeGetOption(a) == Requested(a, "get")
InvokeSyncExecute(a) == Requested(a, "execute")
Invoked(a) == InvokeSetOption(a) \/ InvokeGetOption(a) \/ InvokeSyncExecute(a)

\* The adapter of the client, and the engine of its transaction.
FindAdapter(a) == a \in adapters
FindEngine(a) == a \in engines

\* The answer is on its way and the message is freed.
Replies(a, ok, message, out, h) ==
    /\ call' = [call EXCEPT ![a].sent = Empty]
    /\ reply' = [reply EXCEPT ![a] = [served |-> TRUE, ok |-> ok, made |-> message, out |-> out,
                                      wanted |-> IF h \in Handles THEN wanted[h] ELSE 0]]

\* The call fails and nothing has changed.
Fails(a) ==
    /\ Replies(a, FALSE, Empty, <<>>, 0)
    /\ UNCHANGED <<kws, handles, outputSize, live, adapters, engines, held, wanted>>

\* The service cannot read the message and writes no answer: the client keeps
\* the RETCODE_FAILURE it started with.
NoAnswer(a) == Invoked(a) /\ Fails(a)

\* No adapter is found for the client, or no engine for its transaction.
NoAdapter(a) == Invoked(a) /\ ~FindAdapter(a) /\ Fails(a)
NoEngine(a) == Invoked(a) /\ FindAdapter(a) /\ ~FindEngine(a) /\ Fails(a)

\* Mutant: the range is not checked.
SizeSetUnchecked(n, old) == n

\* The size of a handle after ICPlugin::SetOption: one that is out of range is
\* dropped, and the call succeeds.
SizeSet(n, old) == IF n > 0 /\ n <= Classes THEN n ELSE old

\* What each handler demands of a message; the handle is taken from the input
\* and need not be the caller's.  KWSPlugin knows no option to set and takes
\* any input that is not empty.
Known(a, read) == read.ok /\ read.vals[1] \in handles[Plugin(a)]
ReadBy(a, room) == ProcessDecode(call[a].sent.data, RequestTypes(a), room)

SetAccepted(a, room) ==
    IF a \in kws THEN call[a].sent.data # <<>>
    ELSE call[a].type = OPTION_SET_OUTPUT_SIZE /\ Known(a, ReadBy(a, room))

GetAccepted(a, room) ==
    /\ Known(a, ReadBy(a, room))
    /\ call[a].type \in {OPTION_GET_INPUT_SIZE, OPTION_GET_OUTPUT_SIZE}

ExecuteAccepted(a, room) == Known(a, ReadBy(a, room))

PluginRefuses(a, room) ==
    /\ FindEngine(a)
    /\ \/ InvokeSetOption(a) /\ ~SetAccepted(a, room)
       \/ InvokeGetOption(a) /\ ~GetAccepted(a, room)
       \/ InvokeSyncExecute(a) /\ ~ExecuteAccepted(a, room)
    /\ Fails(a)

ICPluginSetOption(a, room) ==
    LET read == ReadBy(a, room)
        args == call[a].sent.args
    IN  /\ InvokeSetOption(a) /\ FindEngine(a) /\ a \notin kws /\ SetAccepted(a, room)
        /\ outputSize' = [outputSize EXCEPT ![read.vals[1]] = SizeSet(read.vals[2], @)]
        /\ wanted' = IF args[2].val \in 1 .. Classes
                     THEN [wanted EXCEPT ![args[1].val] = args[2].val] ELSE wanted
        /\ Replies(a, TRUE, Empty, <<>>, 0)
        /\ UNCHANGED <<kws, handles, live, adapters, engines, held>>

KWSPluginSetOption(a, room) ==
    /\ InvokeSetOption(a) /\ FindEngine(a) /\ a \in kws /\ SetAccepted(a, room)
    /\ Replies(a, TRUE, Empty, <<>>, 0)
    /\ UNCHANGED <<kws, handles, outputSize, live, adapters, engines, held, wanted>>

\* Both plugins answer with the handle and the size, as a size_t.
OptionValue(type, h) == IF type = OPTION_GET_INPUT_SIZE THEN 1 ELSE outputSize[h]

GetOption(a, room) ==
    LET h == ReadBy(a, room).vals[1]
        made == Message(<<Arg("intptr", h), Arg("size", OptionValue(call[a].type, h))>>, room)
    IN  /\ InvokeGetOption(a) /\ FindEngine(a) /\ GetAccepted(a, room)
        /\ Replies(a, made.data # <<>>, made, <<>>, h)
        /\ UNCHANGED <<kws, handles, outputSize, live, adapters, engines, held, wanted>>

\* Mutant: the top of the heap is taken for the highest.
ReplacementsOfHighest(kept, item) ==
    LET highest == {x \in kept : \A y \in kept : x[2] >= y[2]}
    IN  {IF x[2] < item[2] THEN (kept \ {x}) \cup {item} ELSE kept : x \in highest}

\* GetTopK keeps a heap of items <<label, score>> with the lowest score on top;
\* which of several lowest ones is on top, and the order of equals after
\* sort_heap, is the library's choice.  The results are the possible ones.
Replacements(kept, item) ==
    LET lowest == {x \in kept : \A y \in kept : x[2] <= y[2]}
    IN  {IF x[2] < item[2] THEN (kept \ {x}) \cup {item} ELSE kept : x \in lowest}

GetTopK(data, topK) ==
    LET size == Len(data)
        first == {<<i - 1, data[i]>> : i \in 1 .. Min({topK, size})}
        rest == [i \in 1 .. size - Cardinality(first) |->
                    <<i + topK - 1, data[i + topK]>>]
        heaps == FoldLeft(LAMBDA S, item : UNION {Replacements(kept, item) : kept \in S},
                          {first}, rest)
        Descending(s) == \A i \in 1 .. Len(s) - 1 : s[i][2] >= s[i + 1][2]
    IN  {s \in UNION {SetToSeqs(kept) : kept \in heaps} : Descending(s)}

\* The items of a result: ICPlugin returns the best classes, KWSPlugin the
\* outputs as they are.
Results(p, h, out) ==
    IF p = "KWS" THEN {<<Arg("intptr", h), ArrayArg("int32", out)>>}
    ELSE {<<Arg("intptr", h), Arg("items", s)>> : s \in GetTopK(out, outputSize[h])}

\* The whole input has arrived: the device fills in its outputs (external).
SyncProcess(a, out, room) ==
    LET h == ReadBy(a, room).vals[1]
    IN  /\ InvokeSyncExecute(a) /\ FindEngine(a) /\ ExecuteAccepted(a, room)
        /\ \E result \in Results(Plugin(a), h, out) :
              LET made == Message(result, room)
              IN  Replies(a, made.data # <<>>, made, out, h)
        /\ UNCHANGED <<kws, handles, outputSize, live, adapters, engines, held, wanted>>

----------------------------------------------------------------------------
(* The answer reaches the caller *)

ReplyTypes(a) ==
    IF call[a].kind = "get" THEN <<<<"intptr">>, <<"size">>>>
    ELSE <<<<"intptr">>, <<"array", "int32">>>>

Returns(a) ==
    /\ reply[a].served
    /\ call' = [call EXCEPT ![a] = Idle]
    /\ reply' = [reply EXCEPT ![a] = Waiting]
    /\ UNCHANGED <<kws, handles, outputSize, live, adapters, engines, held, wanted>>

Next ==
    \E a \in Apps, room \in Rooms :
        \/ \E h \in Handles :
              \/ Prepare(a, h, room)
              \/ \E input \in SetInputs(h) : AieClientSetOption(a, input[1], input[2], room)
              \/ \E type \in {OPTION_GET_INPUT_SIZE, OPTION_GET_OUTPUT_SIZE,
                              OPTION_SET_OUTPUT_SIZE} :
                    AieClientGetOption(a, type, <<Arg("intptr", h)>>, room)
        \/ Release(a, room)
        \/ SyncExecute(a, room)
        \/ NoAnswer(a)
        \/ NoAdapter(a)
        \/ NoEngine(a)
        \/ PluginRefuses(a, room)
        \/ ICPluginSetOption(a, room)
        \/ KWSPluginSetOption(a, room)
        \/ GetOption(a, room)
        \/ \E out \in [1 .. Classes -> Scores] : SyncProcess(a, out, room)
        \/ Returns(a)

Spec == Init /\ [][Next]_vars

----------------------------------------------------------------------------
(* Properties *)

\* What a successful ProcessDecode must return: an item list arrives as one
\* array, labels first.
Flat(arg) ==
    IF arg.type = "items"
    THEN [i \in DOMAIN arg.val |-> arg.val[i][1]] \o [i \in DOMAIN arg.val |-> arg.val[i][2]]
    ELSE arg.val

\* A message that can be decoded has the values that were encoded, also when
\* the sender laid it out for other types than the reader expects, when values
\* are negative and when the encoder's buffer had to grow (ProcessDecode,
\* CheckDataEnd): a message of another length is refused and never cut short.
DecodedAsEncoded ==
    \A a \in Apps :
        LET Same(m, types) ==
                LET read == ProcessDecode(m.data, types, Max(Rooms))
                IN  read.ok => read.vals = [i \in DOMAIN m.args |-> Flat(m.args[i])]
        IN  /\ call[a] # Idle => Same(call[a].sent, RequestTypes(a))
            /\ reply[a].served => Same(reply[a].made, ReplyTypes(a))

\* What the caller of a get or an execute reads from a successful answer.
Read(a) == ProcessDecode(reply[a].made.data, ReplyTypes(a), Max(Rooms)).vals
Answered(a, kind) == call[a].kind = kind /\ reply[a].served /\ reply[a].ok

\* The size a caller reads, and the number of classes in a result, is the one
\* last set for its handle with a legal value, by whichever application, and
\* the default after the handle was given out again (ICPlugin SetOption,
\* GetOption, MakeInference); never more than the model has.
SizeHonoured ==
    \A a \in Apps :
        /\ Answered(a, "get") /\ call[a].type = OPTION_GET_OUTPUT_SIZE
              => Read(a)[2] = reply[a].wanted
        /\ Answered(a, "execute") /\ a \notin kws
              => Len(Read(a)[2]) = 2 * Min({reply[a].wanted, Classes})

\* A result of image classification names the best classes, the best first and
\* each once, with their scores (GetTopK), for every output of the model.
BestClasses ==
    \A a \in Apps \ kws : Answered(a, "execute") =>
        LET r == Read(a)[2]
            k == Len(r) \div 2
            out == reply[a].out
        IN  /\ \A i \in 1 .. k : r[i] + 1 \in DOMAIN out /\ out[r[i] + 1] = r[k + i]
            /\ \A i, j \in 1 .. k : i < j => r[i] # r[j] /\ r[k + i] >= r[k + j]
            /\ \A c \in DOMAIN out : (\A i \in 1 .. k : r[i] + 1 # c)
                  => \A i \in 1 .. k : out[c] <= r[k + i]
=============================================================================
