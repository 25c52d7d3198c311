------------------------------- MODULE Encdec -------------------------------
(***************************************************************************)
(* How arguments travel between the SDKs and the plugins: DataEncoder      *)
(* writes them one after the other, byte by byte, and their total length   *)
(* at the end; DataDecoder reads them back by the types its caller names.  *)
(* Nothing in the bytes tells the types.                                   *)
(*                                                                         *)
(* A byte is a digit to the base Base, so that small values show what a    *)
(* conversion of the wrong width does; the number of bytes of each type is *)
(* that of a 64-bit build.                                                 *)
(***************************************************************************)
EXTENDS Integers, SequencesExt

CONSTANTS
    Base,            \* values of a byte
    InitBufferSize   \* INIT_BUFFER_SIZE of the encoder

ASSUME EncdecAssumption ==
    /\ Base \in Nat \ {0, 1}
    /\ InitBufferSize \in Nat \ {0}

Width == [size |-> 8, intptr |-> 8, uint32 |-> 4, int32 |-> 4, uint16 |-> 2, uint8 |-> 1]

\* Two's complement, the lowest byte first.
Bytes(type, v) == [k \in 1 .. Width[type] |-> (v \div Base ^ (k - 1)) % Base]

Value(type, bytes) ==
    LET n == FoldRight(LAMBDA b, high : b + Base * high, bytes, 0)
        Limit == Base ^ Width[type]
    IN  IF type \in {"intptr", "int32"} /\ 2 * n >= Limit THEN n - Limit ELSE n

----------------------------------------------------------------------------
(* DataEncoder.  An argument is [type, val], for an array [type, elem, val]. *)

Arg(t, v) == [type |-> t, val |-> v]
ArrayArg(e, v) == [type |-> "array", elem |-> e, val |-> v]

\* The encoder after Init, in a process that can allocate blocks of up to room
\* bytes; ok is allocSuccess_, and FALSE once a step failed.
DataEncoder(room) ==
    [room |-> room, blockSize |-> InitBufferSize, data |-> <<>>, ok |-> InitBufferSize <= room]

\* The data written so far is copied to the new block.
ReallocBuffer(e, newSize) ==
    IF newSize <= e.room THEN [e EXCEPT !.blockSize = newSize] ELSE [e EXCEPT !.ok = FALSE]

EnsureSpace(e, inc) ==
    IF e.blockSize >= Len(e.data) + inc THEN e ELSE ReallocBuffer(e, 2 * e.blockSize + inc)

EncodeScalar(e, type, v) ==
    LET f == EnsureSpace(e, Width[type])
    IN  IF e.ok /\ f.ok THEN [f EXCEPT !.data = @ \o Bytes(type, v)] ELSE [e EXCEPT !.ok = FALSE]

EncodeEach(e, type, vals) ==
    FoldLeft(LAMBDA f, v : EncodeScalar(f, type, v), e, vals)

\* Empty arrays are refused.
EncodeArray(e, type, vals) ==
    IF vals = <<>> THEN [e EXCEPT !.ok = FALSE]
    ELSE EncodeEach(EncodeScalar(e, "size", Len(vals)), type, vals)

\* Pairs of label and score go out as one array, the labels first.
EncodeItems(e, items) ==
    LET Part(k) == [i \in DOMAIN items |-> items[i][k]]
    IN  EncodeEach(EncodeEach(EncodeScalar(e, "size", 2 * Len(items)),
                              "int32", Part(1)), "int32", Part(2))

EncodeOneParameter(e, arg) ==
    CASE arg.type = "array" -> EncodeArray(e, arg.elem, arg.val)
      [] arg.type = "items" -> EncodeItems(e, arg.val)
      [] OTHER -> EncodeScalar(e, arg.type, arg.val)

\* The length closes the message, and the caller gets a copy.
GetSerializedData(e) == EncodeScalar(e, "size", Len(e.data))

\* An empty result stands for the error codes of ProcessEncode.
ProcessEncode(args, room) ==
    LET closed == GetSerializedData(FoldLeft(EncodeOneParameter, DataEncoder(room), args))
    IN  IF closed.ok THEN closed.data ELSE <<>>

----------------------------------------------------------------------------
(* DataDecoder *)

DataDecoder(data, room) ==
    [room |-> room, buffer |-> data, pos |-> 0, ok |-> TRUE, vals |-> <<>>]

DecodeScalar(d, type) ==
    LET next == d.pos + Width[type]
    IN  IF d.ok /\ next <= Len(d.buffer)
        THEN [d EXCEPT !.pos = next,
                       !.vals = Append(@, Value(type, SubSeq(d.buffer, d.pos + 1, next)))]
        ELSE [d EXCEPT !.ok = FALSE]

\* The number of elements comes with the data, and so much is allocated.
DecodeArray(d, type) ==
    LET s == DecodeScalar(d, "size")
        n == Last(s.vals)
        r == FoldLeft(LAMBDA x, i : DecodeScalar(x, type),
                      [s EXCEPT !.vals = <<>>], [i \in 1 .. n |-> i])
    IN  IF s.ok /\ n * Width[type] <= d.room
        THEN [r EXCEPT !.vals = Append(d.vals, r.vals)]
        ELSE [d EXCEPT !.ok = FALSE]

\* A type is <<name>>, or <<"array", name>>.
DecodeOneParameter(d, type) ==
    IF Len(type) = 1 THEN DecodeScalar(d, type[1]) ELSE DecodeArray(d, type[2])

\* Mutant: the length is not looked at.
CheckDataEndNot(d) == d.ok

\* The length at the end is where it should be, and right.
CheckDataEnd(d) ==
    LET end == DecodeScalar(d, "size")
    IN  end.ok /\ end.pos = Len(end.buffer) /\ end.pos = Last(end.vals) + Width.size

ProcessDecode(data, types, room) ==
    LET d == FoldLeft(DecodeOneParameter, DataDecoder(data, room), types)
    IN  [ok |-> data # <<>> /\ CheckDataEnd(d), vals |-> d.vals]
=============================================================================
