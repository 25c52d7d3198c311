------------------------- MODULE FeatureProcessors -------------------------
(***************************************************************************)
(* The processors of KWSPlugin that turn a step of features into values    *)
(* for the model: NormProcessor subtracts the mean of each channel, divides *)
(* by its standard deviation and scales; TypeConverter casts.  The means   *)
(* and deviations are read from two text files when a session is prepared. *)
(*                                                                         *)
(* A file is the sequence of its numbers and spaces.  A float is a pair    *)
(* <<numerator, denominator>>; the means and deviations are integers.      *)
(***************************************************************************)
EXTENDS Integers, SequencesExt

CONSTANTS
    NumChannels,  \* DEFAULT_NORM_NUM_CHANNELS
    NormSize,     \* DEFAULT_NORM_INPUT_SIZE
    Scale,        \* DEFAULT_NORM_SCALE
    MaxSample,    \* MAX_SAMPLE_SIZE
    Space,        \* NUMBER_DELIMITER
    NoText        \* the empty token

ASSUME NormAssumption ==
    /\ NumChannels \in Nat \ {0} /\ NormSize \in Nat \ {0} /\ Scale \in Nat \ {0}
    /\ MaxSample \in Nat

Channels == 0 .. NumChannels - 1

----------------------------------------------------------------------------
(* NormProcessor *)

\* An empty token is read as zero.
Atof(token) == IF token = NoText THEN 0 ELSE token

Store(s, token) ==
    [count |-> s.count + 1, token |-> NoText, data |-> [s.data EXCEPT ![s.count] = Atof(token)]]

\* Reads up to NumChannels numbers; count says how many were found.
LoadInfoFromFile(file) ==
    LET Read(s, c) ==
            IF s.count = NumChannels THEN s
            ELSE IF c = Space THEN Store(s, s.token) ELSE [s EXCEPT !.token = c]
        end == FoldLeft(Read, [count |-> 0, token |-> NoText, data |-> [c \in Channels |-> 0]], file)
    IN  IF end.token = NoText THEN end ELSE Store(end, end.token)

\* A file that is missing is an empty one: both give too few numbers.
ReadFixedLenFloatData(file) ==
    LET r == LoadInfoFromFile(file) IN [ok |-> r.count = NumChannels, data |-> r.data]

LoadMeanAndStd(meanFile, stdFile) ==
    LET mean == ReadFixedLenFloatData(meanFile)
        std  == ReadFixedLenFloatData(stdFile)
    IN  [ok |-> mean.ok /\ std.ok, mean |-> mean.data, std |-> std.data]

\* A converter's buffer is limited: its values are int32_t or float.
ConverterInit == NormSize * 4 <= MaxSample

\* NormProcessor::Init, as far as its configuration and files decide.
NormProcessor(meanFile, stdFile) ==
    LET read == LoadMeanAndStd(meanFile, stdFile)
    IN  [isInitialized |-> NormSize % NumChannels = 0 /\ ConverterInit /\ read.ok,
         mean |-> read.mean, std |-> read.std]

\* The converter to FLOAT inside the processor changes no value of a uint16_t.
Norm(p, data) ==
    [i \in DOMAIN data |->
        LET c == i % NumChannels
        IN  IF p.std[c] = 0 THEN <<0, 1>> ELSE <<(data[i] - p.mean[c]) * Scale, p.std[c]>>]

----------------------------------------------------------------------------
(* TypeConverter *)

\* A float is cut towards zero when it is cast to int32_t.
Cast(float) ==
    LET n == float[1]
        d == float[2]
    IN  IF n * d >= 0 THEN n \div d ELSE -((-n) \div d)

Convert(data) == [i \in DOMAIN data |-> Cast(data[i])]
=============================================================================
