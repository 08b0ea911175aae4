----------------------------- MODULE ScriptBytes -----------------------------
(***************************************************************************)
(* How scripts and their inputs are written to bytes and read back            *)
(* (tari_script: Opcode::to_bytes, read_next, parse; StackItem::to_bytes,      *)
(* read_next; ExecutionStack::from_bytes).  The code bytes are the source's.   *)
(* 32 bytes of data are scaled to DataLength bytes, i64 to two base-4 digits   *)
(* and variable-length integers to groups of two bits.                        *)
(***************************************************************************)
EXTENDS Integers, Sequences, SequencesExt

CONSTANTS
    Opcodes,        \* [op, m, n, keys, data]
    StackItems,     \* [type, data]
    RawBytes,       \* bytes that do not come from to_bytes
    MaxOps, MaxRaw, \* bounds on what is written
    DataLength, MaxStackSize

VARIABLES
    mode,           \* what is written: "script", "stack" or "raw"
    written,        \* the opcodes or items
    bytes

vars == <<mode, written, bytes>>

Init == mode \in {"script", "stack", "raw"} /\ written = <<>> /\ bytes = <<>>

Code(op) ==
    CASE op = "Return" -> \h60 [] op = "IfThen" -> \h61 [] op = "Else" -> \h62 [] op = "EndIf" -> \h63
      [] op = "OrVerify" -> \h64 [] op = "Or" -> \h65 [] op = "CheckHeightVerify" -> \h66
      [] op = "CheckHeight" -> \h67 [] op = "CompareHeightVerify" -> \h68 [] op = "CompareHeight" -> \h69
      [] op = "Drop" -> \h70 [] op = "Dup" -> \h71 [] op = "RevRot" -> \h72 [] op = "Nop" -> \h73
      [] op = "PushHash" -> \h7a [] op = "PushZero" -> \h7b [] op = "PushOne" -> \h7c [] op = "PushInt" -> \h7d
      [] op = "PushPubKey" -> \h7e [] op = "Equal" -> \h80 [] op = "EqualVerify" -> \h81 [] op = "GeZero" -> \h82
      [] op = "GtZero" -> \h83 [] op = "LeZero" -> \h84 [] op = "LtZero" -> \h85 [] op = "Add" -> \h93
      [] op = "Sub" -> \h94 [] op = "CheckSig" -> \hac [] op = "CheckSigVerify" -> \had
      [] op = "CheckMultiSig" -> \hae [] op = "CheckMultiSigVerify" -> \haf [] op = "HashBlake256" -> \hb0
      [] op = "HashSha256" -> \hb1 [] op = "HashSha3" -> \hb2 [] op = "ToRistrettoPoint" -> \hb3
      [] op = "CheckMultiSigVerifyAggregatePubKey" -> \hb4

WithHeight == {"CheckHeightVerify", "CheckHeight"}
WithByte == {"Or", "OrVerify"}
WithData == {"PushHash", "PushPubKey", "CheckSig", "CheckSigVerify"}
WithKeys == {"CheckMultiSig", "CheckMultiSigVerify", "CheckMultiSigVerifyAggregatePubKey"}
Plain == {"Return", "IfThen", "Else", "EndIf", "CompareHeightVerify", "CompareHeight", "Drop", "Dup", "RevRot", "Nop",
          "PushZero", "PushOne", "Equal", "EqualVerify", "GeZero", "GtZero", "LeZero", "LtZero", "Add", "Sub",
          "HashBlake256", "HashSha256", "HashSha3", "ToRistrettoPoint"}
OpNames == Plain \cup WithHeight \cup WithByte \cup WithData \cup WithKeys \cup {"PushInt"}

\* Not every 32 bytes are a point of the curve.
IsPoint(data) == data[1] # 3

-----------------------------------------------------------------------------
RECURSIVE EncodeVar(_), DecodeVar(_), Parse(_), FromBytes(_, _)

\* integer-encoding: little-endian groups, the continuation bit set on all but
\* the last; a signed integer is zigzagged first.
EncodeVar(v) == IF v < 4 THEN <<v>> ELSE <<4 + (v % 4)>> \o EncodeVar(v \div 4)
Zigzag(v) == IF v >= 0 THEN 2 * v ELSE -2 * v - 1
Unzigzag(v) == IF v % 2 = 0 THEN v \div 2 ELSE -((v + 1) \div 2)

\* <<value, size>>, or size 0 if there is no last group.
DecodeVar(b) ==
    IF b = <<>> THEN <<0, 0>>
    ELSE IF b[1] < 4 THEN <<b[1], 1>>
    ELSE LET r == DecodeVar(Tail(b)) IN IF r[2] = 0 THEN r ELSE <<(b[1] % 4) + 4 * r[1], r[2] + 1>>

ToBytes(o) ==
    <<Code(o.op)>> \o
    CASE o.op \in WithHeight -> EncodeVar(o.n)
      [] o.op = "PushInt" -> EncodeVar(Zigzag(o.n))
      [] o.op \in WithByte -> <<o.n>>
      [] o.op \in WithData -> o.data
      [] o.op \in WithKeys -> <<o.m, o.n>> \o FlattenSeq(o.keys) \o o.data
      [] o.op \in Plain -> <<>>

Opcode(op, m, n, keys, data) == [op |-> op, m |-> m, n |-> n, keys |-> keys, data |-> data]
Refuse(e) == [err |-> e, op |-> Opcode("Nop", 0, 0, <<>>, <<>>), size |-> 0]

\* The opcode and &bytes[size..], which panics if that is past the end.
Read(b, o, size) == IF size > Len(b) THEN Refuse("panic") ELSE [err |-> "none", op |-> o, size |-> size]

\* Mutant: the message is not counted.
ReadMultisigShort(op, b) ==
    IF Len(b) < 3 THEN Refuse("InvalidData")
    ELSE LET len == 3 + b[3] * DataLength
             keys == [i \in 1..b[3] |-> SubSeq(b, 4 + (i - 1) * DataLength, 3 + i * DataLength)]
         IN  IF Len(b) < len THEN Refuse("InvalidData")
             ELSE IF \E i \in 1..b[3] : ~ IsPoint(keys[i]) THEN Refuse("InvalidData")
             ELSE Read(b, Opcode(op, b[2], b[3], keys, SubSeq(b, len + 1, Len(b))), len)

ReadMultisigArgs(op, b) ==
    IF Len(b) < 3 THEN Refuse("InvalidData")
    ELSE LET len == 3 + b[3] * DataLength
             end == len + DataLength
             keys == [i \in 1..b[3] |-> SubSeq(b, 4 + (i - 1) * DataLength, 3 + i * DataLength)]
         IN  IF Len(b) < end THEN Refuse("InvalidData")
             ELSE IF \E i \in 1..b[3] : ~ IsPoint(keys[i]) THEN Refuse("InvalidData")
             ELSE Read(b, Opcode(op, b[2], b[3], keys, SubSeq(b, len + 1, end)), end)

ReadNext(b) ==
    LET names == {op \in OpNames : Code(op) = b[1]}
        op == CHOOSE o \in names : TRUE
        var == DecodeVar(Tail(b))
    IN  IF names = {} THEN Refuse("InvalidOpcode")
        ELSE CASE op \in Plain -> Read(b, Opcode(op, 0, 0, <<>>, <<>>), 1)
               [] op \in WithHeight \cup {"PushInt"} ->
                    IF var[2] = 0 THEN Refuse("InvalidData")
                    ELSE Read(b, Opcode(op, 0, IF op = "PushInt" THEN Unzigzag(var[1]) ELSE var[1], <<>>, <<>>), 1 + var[2])
               [] op \in WithByte ->
                    IF Len(b) < 2 THEN Refuse("InvalidData") ELSE Read(b, Opcode(op, 0, b[2], <<>>, <<>>), 2)
               [] op \in WithData ->
                    IF Len(b) < 1 + DataLength THEN Refuse("InvalidData")
                    ELSE LET data == SubSeq(b, 2, 1 + DataLength) IN
                         IF op = "PushPubKey" /\ ~ IsPoint(data) THEN Refuse("InvalidData")
                         ELSE Read(b, Opcode(op, 0, 0, <<>>, data), 1 + DataLength)
               [] op \in WithKeys -> ReadMultisigArgs(op, b)

Parse(b) ==
    IF b = <<>> THEN [err |-> "none", script |-> <<>>]
    ELSE LET r == ReadNext(b) IN
         IF r.err # "none" THEN [err |-> r.err, script |-> <<>>]
         ELSE LET rest == Parse(SubSeq(b, 1 + r.size, Len(b))) IN
              [err |-> rest.err, script |-> IF rest.err = "none" THEN <<r.op>> \o rest.script ELSE <<>>]

-----------------------------------------------------------------------------
TypeCode(t) ==
    CASE t = "Number" -> 1 [] t = "Hash" -> 2 [] t = "Commitment" -> 3 [] t = "PubKey" -> 4 [] t = "Sig" -> 5 [] t = "Scalar" -> 6

ItemTypes == {"Number", "Hash", "Commitment", "PubKey", "Sig", "Scalar"}
ItemSize(t) == IF t = "Number" THEN 2 ELSE IF t = "Sig" THEN 2 * DataLength ELSE DataLength
ItemToBytes(i) == <<TypeCode(i.type)>> \o i.data

\* The item, and its size or 0.
ItemReadNext(b) ==
    LET types == {t \in ItemTypes : TypeCode(t) = b[1]}
        t == CHOOSE x \in types : TRUE
        data == SubSeq(b, 2, 1 + ItemSize(t))
    IN  IF types = {} THEN <<0, 0>>
        ELSE IF Len(b) - 1 < ItemSize(t) THEN <<0, 0>>
        ELSE IF t \in {"Commitment", "PubKey", "Sig"} /\ ~ IsPoint(data) THEN <<0, 0>>
        ELSE <<[type |-> t, data |-> data], 1 + ItemSize(t)>>

FromBytes(b, stack) ==
    IF b = <<>> THEN [err |-> "none", stack |-> stack]
    ELSE LET r == ItemReadNext(b) IN
         IF r[2] = 0 THEN [err |-> "InvalidInput", stack |-> <<>>]
         ELSE IF Len(stack) >= MaxStackSize THEN [err |-> "StackOverflow", stack |-> <<>>]
         ELSE FromBytes(SubSeq(b, 1 + r[2], Len(b)), Append(stack, r[1]))
-----------------------------------------------------------------------------
WriteOpcode(o) ==
    /\ mode = "script" /\ Len(written) < MaxOps
    /\ written' = Append(written, o) /\ bytes' = bytes \o ToBytes(o) /\ UNCHANGED mode

WriteItem(i) ==
    /\ mode = "stack" /\ Len(written) <= MaxStackSize
    /\ written' = Append(written, i) /\ bytes' = bytes \o ItemToBytes(i) /\ UNCHANGED mode

\* Bytes as they come over the wire.
WriteByte(x) == mode = "raw" /\ Len(bytes) < MaxRaw /\ bytes' = Append(bytes, x) /\ UNCHANGED <<mode, written>>

Next ==
    \/ \E o \in Opcodes : WriteOpcode(o)
    \/ \E i \in StackItems : WriteItem(i)
    \/ \E x \in RawBytes : WriteByte(x)

Spec == Init /\ [][Next]_vars
-----------------------------------------------------------------------------
\* What to_bytes writes for a whole script, parse reads back: no code is used
\* twice, and no argument's end is mistaken for the next opcode's start.
ScriptRoundTrip == mode = "script" => Parse(bytes) = [err |-> "none", script |-> written]

\* A script cut short is refused, unless the cut falls between two opcodes, and
\* then what was before it is read.
CutIsSeen ==
    mode = "script" => \A k \in 0..(Len(bytes) - 1) :
        LET r == Parse(SubSeq(bytes, 1, k)) IN r.err = "none" => IsStrictPrefix(r.script, written)

\* A stack of at most MAX_STACK_SIZE items is read back as it was written; a
\* larger one, which ExecutionStack::new allows, is refused.
StackRoundTrip ==
    mode = "stack" =>
        FromBytes(bytes, <<>>) = IF Len(written) <= MaxStackSize THEN [err |-> "none", stack |-> written]
                                                                 ELSE [err |-> "StackOverflow", stack |-> <<>>]

\* Whatever the bytes, no slice is taken past their end.
ParseReturns == mode = "raw" => Parse(bytes).err # "panic"
=============================================================================
